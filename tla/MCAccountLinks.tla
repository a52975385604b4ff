---------------------------- MODULE MCAccountLinks ----------------------------
\* AccountLinks on a small instance: see the .cfg files for the bounds.
EXTENDS AccountLinks, TLC

CONSTANTS a1, a2, e1, e2, e3, r1, r2

MCAccount == {a1, a2}
MCEmail == {e1, e2, e3}
MCRequest == {r1, r2}

\* No account, address or slot is named in the specification.
MCSymmetry == Permutations(Account) \cup Permutations(Email) \cup Permutations(Request)
==============================================================================
