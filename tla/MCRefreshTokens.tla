--------------------------- MODULE MCRefreshTokens ---------------------------
\* RefreshTokens on small instances: see the .cfg files for the bounds.
EXTENDS RefreshTokens, TLC

CONSTANTS u1, u2, r1, r2

MCOneUser == {u1}
MCTwoUsers == {u1, u2}
MCTwoRequests == {r1, r2}

\* Neither a slot nor an account is named anywhere in the specification.
MCSymmetry == Permutations(Request) \cup Permutations(User)
==============================================================================
