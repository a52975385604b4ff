----------------------------- MODULE TokenLedger -----------------------------
(***************************************************************************)
(* What the refresh_tokens table promises, without the handlers that       *)
(* write it: every signed refresh token has one status, and a status only  *)
(* ever moves towards "detached".                                          *)
(*                                                                         *)
(*   unissued   not signed yet                                             *)
(*   pending    signed, the handler that will INSERT its row is running    *)
(*   active     its row is in the table with is_revoked = false            *)
(*   revoked    its row is in the table with is_revoked = true             *)
(*   detached   signed, and no row and no running handler stands for it    *)
(*                                                                         *)
(* RefreshTokens implements this module (see RefreshTokens!Ledger).        *)
(***************************************************************************)
EXTENDS Naturals

CONSTANTS
    User,       \* the accounts
    NoUser,     \* the owner of a token that is not signed yet
    MaxTokens   \* bound: how many tokens a behaviour signs

VARIABLES
    status,     \* token -> its status
    owner       \* token -> the account it was signed for

lvars == <<status, owner>>

LToken == 1 .. MaxTokens
Status == {"unissued", "pending", "active", "revoked", "detached"}

InTable(t) == status[t] \in {"active", "revoked"}

\* The rows the table holds for an account.
RowsOf(u) == {t \in LToken : InTable(t) /\ owner[t] = u}

Move(S, to) == [t \in LToken |-> IF t \in S THEN to ELSE status[t]]

\* The types: every token has one status, and none an account before it is signed.
LTypeOK ==
    /\ status \in [LToken -> Status]
    /\ owner \in [LToken -> User \cup {NoUser}]
    /\ \A t \in LToken : status[t] = "unissued" => owner[t] = NoUser

LInit ==
    /\ status = [t \in LToken |-> "unissued"]
    /\ owner = [t \in LToken |-> NoUser]

------------------------------------------------------------------------------

\* A token is signed for u. Either its row is going to be inserted
\* (pending), or it is handed out without one (detached).
Sign(t, u, to) ==
    /\ status[t] = "unissued"
    /\ to \in {"pending", "detached"}
    /\ status' = Move({t}, to)
    /\ owner' = [owner EXCEPT ![t] = u]

Record(t) ==
    /\ status[t] = "pending"
    /\ status' = Move({t}, "active")
    /\ UNCHANGED owner

\* The handler that was to insert the row ended before it did.
Drop(t) ==
    /\ status[t] = "pending"
    /\ status' = Move({t}, "detached")
    /\ UNCHANGED owner

\* Rows of ONE account are revoked, or deleted.
Revoke(u, S) ==
    /\ S \subseteq RowsOf(u)
    /\ status' = Move(S, "revoked")
    /\ UNCHANGED owner

Delete(u, S) ==
    /\ S \subseteq RowsOf(u)
    /\ status' = Move(S, "detached")
    /\ UNCHANGED owner

LNext ==
    \/ \E t \in LToken, u \in User, to \in {"pending", "detached"} : Sign(t, u, to)
    \/ \E t \in LToken : Record(t) \/ Drop(t)
    \/ \E u \in User, S \in SUBSET LToken : Revoke(u, S) \/ Delete(u, S)

LSpec == LInit /\ [][LNext]_lvars

------------------------------------------------------------------------------

Rank(s) == CASE s = "unissued" -> 0 [] s = "pending" -> 1 [] s = "active" -> 2
             [] s = "revoked" -> 3 [] s = "detached" -> 4

NeverBack == \A t \in LToken : Rank(status[t]) <= Rank(status'[t])

OneAccount ==
    \A s, t \in LToken :
        /\ status[s] # status'[s] /\ status[t] # status'[t] => owner'[s] = owner'[t]
        /\ owner[t] # NoUser => owner'[t] = owner[t]

\* A token never becomes valid again: once its row was revoked it is never
\* active, and once its row is gone no row for it comes back (the UPDATEs of
\* auth/authentication.go only ever set is_revoked to true, and only the
\* handler that signed a token inserts its row).
NeverRevalidated == [][NeverBack]_lvars

\* A step changes tokens of at most one account, and never the account a
\* token was signed for: every statement of auth/authentication.go on the
\* table is restricted to one user_id, or to the token of that user.
OneAccountPerStep == [][OneAccount]_lvars
==============================================================================
