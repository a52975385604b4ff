----------------------------- MODULE MCTwoFactor -----------------------------
\* TwoFactor on small instances: see the .cfg files for the bounds.
EXTENDS TwoFactor, TLC

CONSTANTS r1, r2, c1, c2

MCRequest == {r1, r2}
MCCode == {c1, c2}

MCSymmetry == Permutations(Request) \cup Permutations(Code)
==============================================================================
