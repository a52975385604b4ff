---------------------------- MODULE RefreshTokens ----------------------------
(***************************************************************************)
(* The life of refresh tokens: auth/authentication.go and the handlers of  *)
(* api/auth that call it, over the refresh_tokens table.                   *)
(*                                                                         *)
(* A request is one HTTP request; Go runs each in its own goroutine, so    *)
(* the SQL statements of different requests interleave. An action is one   *)
(* SQL statement (atomic in PostgreSQL) with the local code around it: no  *)
(* handler opens a transaction over several of them. A request may end at  *)
(* any statement (database error, or the process stops): Fail.             *)
(*                                                                         *)
(* Tokens are numbered in the order they are signed. The signature and the *)
(* claims of a token are abstracted to that number, the account it was     *)
(* signed for (claim "sub") and whether its 30 days are over.              *)
(***************************************************************************)
EXTENDS Naturals

CONSTANTS
    User,       \* the accounts
    NoUser,     \* "no account"
    Request,    \* slots for requests in flight; a slot is reused
    MaxTokens   \* bound: how many refresh tokens a behaviour signs

ASSUME TokensAssumption == NoUser \notin User /\ MaxTokens \in Nat

VARIABLES
    minted,     \* tokens 1 .. minted have been signed
    expired,    \* tokens 1 .. expired are past their exp claim
    sub,        \* token -> the account in its "sub" claim
    row,        \* token -> its row in refresh_tokens
    held,       \* the tokens that reached a client
    req,        \* request -> its local state
    parent,     \* history: token -> the token whose refresh signed it, or 0
    loginMark   \* history: account -> value of minted at its last login UPDATE

vars == <<minted, expired, sub, row, held, req, parent, loginMark>>

Token == 1 .. MaxTokens

\* "none": never inserted. "deleted": inserted and deleted since; the table
\* does not tell these two apart, only the properties do.
RowState == {"none", "active", "revoked", "deleted"}

HasRow(t) == row[t] \in {"active", "revoked"}

\* The statement a running handler is about to execute.
Running == {"loginUpdate", "loginSign", "insert", "select", "reuse", "rotate",
            "logout", "logoutAll"}

\* A slot without a running handler: its answer (status 200) is on the way,
\* or there is none, because no request came yet, the last one was refused,
\* or its handler ended in a panic.
NotRunning == {"answered", "idle"}

Idle == [pc |-> "idle", user |-> NoUser, tok |-> 0, new |-> 0]

Locals == [pc : Running \cup NotRunning,
           user : User \cup {NoUser},
           tok : 0 .. MaxTokens,     \* the token presented, or 0
           new : 0 .. MaxTokens]     \* the token signed, or 0

\* The types of the rows, of the claims and of the locals of the handlers.
TypeOK ==
    /\ minted \in 0 .. MaxTokens
    /\ expired \in 0 .. MaxTokens
    /\ sub \in [Token -> User \cup {NoUser}]
    /\ row \in [Token -> RowState]
    /\ held \subseteq Token
    /\ req \in [Request -> Locals]
    /\ parent \in [Token -> 0 .. MaxTokens]
    /\ loginMark \in [User -> 0 .. MaxTokens]

Init ==
    /\ minted = 0
    /\ expired = 0
    /\ sub = [t \in Token |-> NoUser]
    /\ row = [t \in Token |-> "none"]
    /\ held = {}
    /\ req = [r \in Request |-> Idle]
    /\ parent = [t \in Token |-> 0]
    /\ loginMark = [u \in User |-> 0]

------------------------------------------------------------------------------
\* Go: a variable of type error that is assigned a *RstError holds the pair
\* (type, pointer). It equals nil only when it was never assigned one, so a
\* nil *RstError makes a non-nil error. The handlers refreshToken, logout and
\* logoutAll declare err as the error of c.Cookie and reuse it.

NilError == <<>>
AsError(rst) == <<"*RstError", rst>>

\* How refreshToken ends, given the *RstError that Refresh returned.
RefreshHandlerEnd(rst) ==
    IF AsError(rst) = AsError("ErrUsedRefreshToken") THEN "idle"      \* an error answer
    ELSE IF AsError(rst) # NilError THEN "idle"      \* panic(err)
    ELSE "answered"

\* How logout and logoutAll end, given the *RstError that Logout returned.
LogoutHandlerEnd(rst) ==
    IF AsError(rst) # NilError THEN "idle" ELSE "answered"

------------------------------------------------------------------------------
\* Signing and the token a request presents.

\* decodeToken accepts every token the server signed until it expires.
Decodes(t) == t > expired

\* The locals of request r become these.
Put(r, pc, u, t, n) ==
    req' = [req EXCEPT ![r] = [pc |-> pc, user |-> u, tok |-> t, new |-> n]]

Goto(r, pc) == Put(r, pc, req[r].user, req[r].tok, req[r].new)

\* A handler that ends forgets its locals; an answer carries the new pair.
Finish(r, how) == Put(r, how, NoUser, 0, IF how = "answered" THEN req[r].new ELSE 0)

\* A slot whose request ended can serve another one. If the last one ended
\* with an answer that Receive did not take, that answer was lost.
Free(r) == req[r].pc \notin Running

\* generatePair for account u; p is the token being refreshed, 0 for a login.
SignFor(u, p) ==
    /\ minted < MaxTokens
    /\ minted' = minted + 1
    /\ sub' = [sub EXCEPT ![minted + 1] = u]
    /\ parent' = [parent EXCEPT ![minted + 1] = p]

RowsOf(u) == {t \in Token : sub[t] = u /\ HasRow(t)}

SetRows(S, value) == row' = [t \in Token |-> IF t \in S THEN value ELSE row[t]]

------------------------------------------------------------------------------
\* Login: the account was read and its password, allowance and second factor
\* were accepted (those checks are the subject of module TwoFactor).

BeginLogin(r, u) ==
    /\ Free(r)
    /\ Put(r, "loginUpdate", u, 0, 0)
    /\ UNCHANGED <<minted, expired, sub, row, held, parent, loginMark>>

\* Mutant: no condition on user_id.
LoginUpdateAllUsers(r) ==
    /\ req[r].pc = "loginUpdate"
    /\ SetRows({t \in Token : HasRow(t)}, "revoked")
    /\ loginMark' = [loginMark EXCEPT ![req[r].user] = minted]
    /\ Goto(r, "loginSign")
    /\ UNCHANGED <<minted, expired, sub, held, parent>>

\* UPDATE refresh_tokens SET is_revoked = true WHERE user_id = ...
LoginUpdate(r) ==
    /\ req[r].pc = "loginUpdate"
    /\ SetRows(RowsOf(req[r].user), "revoked")
    /\ loginMark' = [loginMark EXCEPT ![req[r].user] = minted]
    /\ Goto(r, "loginSign")
    /\ UNCHANGED <<minted, expired, sub, held, parent>>

\* The pair is signed and answered; no row is inserted for it.
LoginSign(r) ==
    /\ req[r].pc = "loginSign"
    /\ SignFor(req[r].user, 0)
    /\ Put(r, "answered", NoUser, 0, minted + 1)
    /\ UNCHANGED <<expired, row, held, loginMark>>

\* CreateTokenPairForUser, from the Discord callback and from quick login:
\* the pair is signed, then its row is inserted.
BeginPair(r, u) ==
    /\ Free(r)
    /\ SignFor(u, 0)
    /\ Put(r, "insert", u, 0, minted + 1)
    /\ UNCHANGED <<expired, row, held, loginMark>>

\* Mutant: the row that is written is the one of the token presented.
InsertPresented(r) ==
    /\ req[r].pc = "insert"
    /\ SetRows({req[r].tok}, "active")
    /\ Finish(r, IF req[r].tok = 0 THEN "answered" ELSE RefreshHandlerEnd("nil"))
    /\ UNCHANGED <<minted, expired, sub, held, parent, loginMark>>

\* INSERT INTO refresh_tokens, the last statement of CreateTokenPairForUser
\* and of Refresh. The callers of the first use a *RstError and answer.
Insert(r) ==
    /\ req[r].pc = "insert"
    /\ SetRows({req[r].new}, "active")
    /\ Finish(r, IF req[r].tok = 0 THEN "answered" ELSE RefreshHandlerEnd("nil"))
    /\ UNCHANGED <<minted, expired, sub, held, parent, loginMark>>

------------------------------------------------------------------------------
\* Refresh

BeginRefresh(r, t) ==
    /\ Free(r)
    /\ t \in held
    /\ IF Decodes(t) THEN Put(r, "select", sub[t], t, 0)
       ELSE Put(r, RefreshHandlerEnd("ErrUsedRefreshToken"), NoUser, 0, 0)
    /\ UNCHANGED <<minted, expired, sub, row, held, parent, loginMark>>

\* SELECT the row of the token: a revoked one is a reuse ...
SelectRevoked(r) ==
    /\ req[r].pc = "select"
    /\ row[req[r].tok] = "revoked"
    /\ Goto(r, "reuse")
    /\ UNCHANGED <<minted, expired, sub, row, held, parent, loginMark>>

\* ... and one that is active, or that is not there (gorm.ErrRecordNotFound
\* is let through), makes Refresh sign the successor.
SelectAccepted(r) ==
    /\ req[r].pc = "select"
    /\ row[req[r].tok] # "revoked"
    /\ SignFor(req[r].user, req[r].tok)
    /\ Put(r, "rotate", req[r].user, req[r].tok, minted + 1)
    /\ UNCHANGED <<expired, row, held, loginMark>>

\* Mutant: the old token is not revoked.
RotateSkipped(r) ==
    /\ req[r].pc = "rotate"
    /\ Goto(r, "insert")
    /\ UNCHANGED <<minted, expired, sub, row, held, parent, loginMark>>

\* UPDATE refresh_tokens SET is_revoked = true WHERE user_id = .. AND token = ..
Rotate(r) ==
    /\ req[r].pc = "rotate"
    /\ SetRows({req[r].tok} \cap RowsOf(req[r].user), "revoked")
    /\ Goto(r, "insert")
    /\ UNCHANGED <<minted, expired, sub, held, parent, loginMark>>

DeleteAllOf(u) == SetRows(RowsOf(u), "deleted")

\* Logout(refreshToken, true) inside Refresh. Its result is dropped: a token
\* that expired since, or a failing DELETE, leaves the rows, and Refresh
\* returns ErrUsedRefreshToken all the same.
Reuse(r) ==
    /\ req[r].pc = "reuse"
    /\ \/ Decodes(req[r].tok) /\ DeleteAllOf(req[r].user)
       \/ UNCHANGED row
    /\ Finish(r, RefreshHandlerEnd("ErrUsedRefreshToken"))
    /\ UNCHANGED <<minted, expired, sub, held, parent, loginMark>>

------------------------------------------------------------------------------
\* Logout

BeginLogout(r, t, all) ==
    /\ Free(r)
    /\ t \in held
    /\ IF Decodes(t) THEN Put(r, IF all THEN "logoutAll" ELSE "logout", sub[t], t, 0)
       ELSE Put(r, LogoutHandlerEnd("ErrDecode"), NoUser, 0, 0)
    /\ UNCHANGED <<minted, expired, sub, row, held, parent, loginMark>>

\* DELETE WHERE token = .. OR (user_id = .. AND is_revoked)
LogoutDelete(r) ==
    /\ req[r].pc = "logout"
    /\ SetRows({t \in RowsOf(req[r].user) : t = req[r].tok \/ row[t] = "revoked"}, "deleted")
    /\ Finish(r, LogoutHandlerEnd("nil"))
    /\ UNCHANGED <<minted, expired, sub, held, parent, loginMark>>

\* DELETE WHERE user_id = ..
LogoutAllDelete(r) ==
    /\ req[r].pc = "logoutAll"
    /\ DeleteAllOf(req[r].user)
    /\ Finish(r, LogoutHandlerEnd("nil"))
    /\ UNCHANGED <<minted, expired, sub, held, parent, loginMark>>

------------------------------------------------------------------------------
\* The environment

\* A statement fails or the process stops: the handler has no further effect.
Fail(r) ==
    /\ req[r].pc \in Running
    /\ Put(r, "idle", NoUser, 0, 0)
    /\ UNCHANGED <<minted, expired, sub, row, held, parent, loginMark>>

\* Mutant: the pair is answered before its row is inserted.
ReceiveEarly(r) ==
    /\ req[r].pc \in {"answered", "insert"}
    /\ held' = held \cup ({req[r].new} \ {0})
    /\ IF req[r].pc = "answered" THEN Put(r, "idle", NoUser, 0, 0) ELSE UNCHANGED req
    /\ UNCHANGED <<minted, expired, sub, row, parent, loginMark>>

\* The answer reaches the client, with the pair it carries.
Receive(r) ==
    /\ req[r].pc = "answered"
    /\ held' = held \cup ({req[r].new} \ {0})
    /\ Put(r, "idle", NoUser, 0, 0)
    /\ UNCHANGED <<minted, expired, sub, row, parent, loginMark>>

\* Thirty days pass for the oldest unexpired token. A handler takes far less
\* than that, so the token a handler is about to insert is never the one.
Expire ==
    /\ expired < minted
    /\ \A r \in Request : req[r].new # expired + 1
    /\ expired' = expired + 1
    /\ UNCHANGED <<minted, sub, row, held, req, parent, loginMark>>

------------------------------------------------------------------------------

Next ==
    \/ \E r \in Request :
          \/ \E u \in User : BeginLogin(r, u) \/ BeginPair(r, u)
          \/ \E t \in Token :
                \/ BeginRefresh(r, t)
                \/ \E all \in BOOLEAN : BeginLogout(r, t, all)
          \/ LoginUpdate(r) \/ LoginSign(r) \/ Insert(r)
          \/ SelectRevoked(r) \/ SelectAccepted(r) \/ Rotate(r) \/ Reuse(r)
          \/ LogoutDelete(r) \/ LogoutAllDelete(r)
          \/ Fail(r) \/ Receive(r)
    \/ Expire

Spec == Init /\ [][Next]_vars

------------------------------------------------------------------------------
\* What holds in every interleaving, with failures at any statement

\* A request that signed a token and has yet to insert its row.
Pending(r) == req[r].pc \in {"rotate", "insert"}

\* Rotation of recorded tokens: a row that Refresh inserted and the row of the
\* token it replaced are never both active, whatever ran in between
\* (authentication.go:156 before 165). It says nothing of a token that has no
\* row, as that of Login (60-65): the UPDATE matches nothing for it, a missing
\* row is accepted (143), and so it stays usable beside its successor.
RecordedRowsExclusive ==
    \A t \in Token :
        row[t] = "active" /\ parent[t] # 0 => row[parent[t]] # "active"

\* A row is revoked for a cause that concerns it: a login of its account
\* after it was signed, or a refresh that presented this very token and had
\* already signed its successor (authentication.go:56 and 156).
RevokedForCause ==
    \A t \in Token : row[t] = "revoked" =>
        \/ t <= loginMark[sub[t]]
        \/ \E s \in Token : parent[s] = t

\* A client never gets a token whose row is still to be inserted: the answer
\* comes after the INSERT (authentication.go:79 before 83), so a client that
\* uses its token at once does not meet the not-found case by being early.
HeldIsSettled ==
    \A r \in Request : Pending(r) => req[r].new \notin held

\* Why those hold: the inductive invariant, in named parts.

\* Tokens that are not signed yet have left no trace; the others have an owner.
SignedSoFar ==
    /\ \A t \in Token :
          IF t <= minted THEN sub[t] \in User
          ELSE sub[t] = NoUser /\ row[t] = "none" /\ parent[t] = 0 /\ t \notin held
    /\ \A u \in User : loginMark[u] <= minted

\* What the locals of a handler say of the tokens.
Agrees(r) ==
    /\ req[r].pc \in Running => req[r].user \in User
    /\ req[r].pc \in {"select", "reuse", "rotate", "logout", "logoutAll"} => req[r].tok # 0
    /\ req[r].tok # 0 => req[r].tok \in held /\ sub[req[r].tok] = req[r].user
    /\ req[r].new <= minted
    /\ Pending(r) => /\ req[r].new # 0
                     /\ row[req[r].new] = "none"
                     /\ sub[req[r].new] = req[r].user
                     /\ parent[req[r].new] = req[r].tok
    /\ req[r].pc = "insert" /\ req[r].tok # 0 => row[req[r].tok] # "active"

LocalsAgree == \A r \in Request : Agrees(r)

\* A signed pair is in the hands of one handler, and of no client yet.
NewIsPrivate ==
    \A r, s \in Request :
        r # s /\ req[r].new # 0 => req[r].new # req[s].new

\* Only a token that a client held was ever refreshed.
ParentsHeld == \A t \in Token : parent[t] # 0 => parent[t] \in held

TokensInv ==
    /\ TypeOK
    /\ SignedSoFar
    /\ LocalsAgree
    /\ NewIsPrivate
    /\ ParentsHeld
    /\ HeldIsSettled
    /\ RecordedRowsExclusive
    /\ RevokedForCause

\* The table, seen as the ledger of token statuses.
InsertPending(t) == \E r \in Request : Pending(r) /\ req[r].new = t

Status(t) ==
    IF t > minted THEN "unissued"
    ELSE IF HasRow(t) THEN row[t]
    ELSE IF InsertPending(t) THEN "pending"
    ELSE "detached"

Ledger == INSTANCE TokenLedger WITH status <- [t \in Token |-> Status(t)], owner <- sub

\* Every statement of every handler is one move of the ledger, or none.
ImplementsLedger == Ledger!LSpec

\* What the ledger promises of its tokens holds of the rows: a revoked token
\* is never active again, a deleted one has no row again ...
NeverRevalidated == Ledger!NeverRevalidated

\* ... and no statement touches tokens of two accounts.
OneAccountPerStep == Ledger!OneAccountPerStep

------------------------------------------------------------------------------
\* What the comments of authentication.go say of the program, and the code
\* does not keep

\* "The refresh token will be rotated, so that the old one is no longer
\* valid" (authentication.go:134): at most one recorded successor per token.
AtMostOneSuccessor ==
    \A s, t \in Token :
        parent[s] # 0 /\ parent[s] = parent[t] /\ HasRow(s) /\ HasRow(t) => s = t

\* "Refreshes the access token with the given refresh token"
\* (authentication.go:133): a refresh whose statements were all executed
\* answers with the pair, it does not end in a panic.
RefreshAnswers ==
    [][\A r \in Request :
          req[r].pc = "insert" /\ row'[req[r].new] = "active" => req'[r].pc = "answered"]_vars

\* "Logs out the user with the given refresh token. If all is true, all
\* refresh tokens for the user will be deleted" (authentication.go:112): a
\* refresh that looks a deleted token up does not go on to sign a successor.
DeletedNotAccepted ==
    [][\A r \in Request :
          req[r].pc = "select" /\ req'[r].pc = "rotate" => row[req[r].tok] # "deleted"]_vars
==============================================================================
