--------------------------- MODULE MCOneTimeStates ----------------------------
\* OneTimeStates on a small instance: see the .cfg file for the bounds.
EXTENDS OneTimeStates, TLC

CONSTANTS a1, a2, i1, i2, r1, r2

MCAccount == {a1, a2}
MCIdentity == {i1, i2}
MCRequest == {r1, r2}

\* No account, identity or slot is named in the specification.
MCSymmetry == Permutations(Account) \cup Permutations(Identity) \cup Permutations(Request)
==============================================================================
