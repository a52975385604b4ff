---------------------------- MODULE MCQuickLogin ----------------------------
\* QuickLogin on small instances: see the .cfg files for the bounds.
EXTENDS QuickLogin, TLC

CONSTANTS u1, n1, n2, r1, r2, r3

MCUser == {u1}
MCNumber == {n1, n2}
MCRequest == {r1, r2, r3}

\* Bound: a behaviour is followed until a number is disturbed: only types and
\* who drew it are claimed of it from then on, and the others have their own keys.
Undisturbed == disturbed = {}

MCSymmetry == Permutations(Number) \cup Permutations(Request)
==============================================================================
