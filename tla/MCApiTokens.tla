----------------------------- MODULE MCApiTokens ------------------------------
\* ApiTokens on a small instance: see the .cfg file for the bounds.
EXTENDS ApiTokens, TLC

CONSTANTS u1, u2, t1

\* The token is that of a user who is not an administrator.
MCUserOf == (t1 :> u1)
==============================================================================
