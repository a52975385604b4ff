------------------------- MODULE RefreshTokensProofs -------------------------
(***************************************************************************)
(* Proofs about RefreshTokens for every set of accounts and requests and   *)
(* every number of tokens: first its invariants, then that it implements   *)
(* TokenLedger, as each SQL statement of a handler is one move of the      *)
(* ledger or none, and what the handlers inherit from the ledger.          *)
(***************************************************************************)
EXTENDS RefreshTokens, TLAPS

LEMMA InitInv == Init => TokensInv
  BY TokensAssumption DEF Init, TokensInv, TypeOK, SignedSoFar, LocalsAgree, Agrees,
     NewIsPrivate, ParentsHeld, HeldIsSettled, RecordedRowsExclusive, RevokedForCause,
     Token, RowState, HasRow, Running, NotRunning, Idle, Pending, Locals

\* What Put does to the locals of the requests.
LEMMA PutFacts ==
  ASSUME TypeOK, NEW r \in Request,
         NEW pc \in Running \cup NotRunning, NEW u \in User \cup {NoUser},
         NEW t \in 0 .. MaxTokens, NEW n \in 0 .. MaxTokens,
         Put(r, pc, u, t, n)
  PROVE  /\ req' \in [Request -> Locals]
         /\ req'[r].pc = pc
         /\ req'[r].user = u
         /\ req'[r].tok = t
         /\ req'[r].new = n
         /\ \A q \in Request : q # r => req'[q] = req[q]
<1>1. [pc |-> pc, user |-> u, tok |-> t, new |-> n] \in Locals
  BY DEF Locals
<1>2. req' = [req EXCEPT ![r] = [pc |-> pc, user |-> u, tok |-> t, new |-> n]]
  BY DEF Put
<1>3. req'[r] = [pc |-> pc, user |-> u, tok |-> t, new |-> n]
  BY <1>2 DEF TypeOK
<1>4. req' \in [Request -> Locals]
  BY <1>1, <1>2 DEF TypeOK
<1> QED
  BY <1>2, <1>3, <1>4 DEF TypeOK

LEMMA LocalsTyped ==
  ASSUME TypeOK, NEW r \in Request
  PROVE  /\ req[r].pc \in Running \cup NotRunning
         /\ req[r].user \in User \cup {NoUser}
         /\ req[r].tok \in 0 .. MaxTokens
         /\ req[r].new \in 0 .. MaxTokens
  BY DEF TypeOK, Locals

LEMMA GotoFacts ==
  ASSUME TypeOK, NEW r \in Request, NEW pc \in Running, Goto(r, pc)
  PROVE  /\ req' \in [Request -> Locals]
         /\ req'[r].pc = pc
         /\ req'[r].user = req[r].user
         /\ req'[r].tok = req[r].tok
         /\ req'[r].new = req[r].new
         /\ \A q \in Request : q # r => req'[q] = req[q]
<1>1. Put(r, pc, req[r].user, req[r].tok, req[r].new)
  BY DEF Goto
<1>2. pc \in Running \cup NotRunning
  OBVIOUS
<1> QED
  BY ONLY TypeOK, <1>1, <1>2, LocalsTyped, PutFacts

LEMMA FinishFacts ==
  ASSUME TypeOK, NEW r \in Request, NEW how \in NotRunning, Finish(r, how)
  PROVE  /\ req' \in [Request -> Locals]
         /\ req'[r].pc = how
         /\ req'[r].tok = 0
         /\ req'[r].new \in {0, req[r].new}
         /\ \A q \in Request : q # r => req'[q] = req[q]
<1>1. Put(r, how, NoUser, 0, IF how = "answered" THEN req[r].new ELSE 0)
  BY DEF Finish
<1>2. /\ how \in Running \cup NotRunning
      /\ NoUser \in User \cup {NoUser}
      /\ 0 \in 0 .. MaxTokens
      /\ (IF how = "answered" THEN req[r].new ELSE 0) \in 0 .. MaxTokens
      /\ (IF how = "answered" THEN req[r].new ELSE 0) \in {0, req[r].new}
  BY LocalsTyped, TokensAssumption
<1>3. /\ req' \in [Request -> Locals]
      /\ req'[r].pc = how
      /\ req'[r].tok = 0
      /\ req'[r].new = (IF how = "answered" THEN req[r].new ELSE 0)
      /\ \A q \in Request : q # r => req'[q] = req[q]
  BY <1>1, <1>2, PutFacts
<1> QED
  BY <1>2, <1>3

LEMMA HeldTokens ==
  ASSUME TypeOK, SignedSoFar, NEW t \in held
  PROVE  t \in Token /\ t <= minted /\ sub[t] \in User
  BY DEF TypeOK, SignedSoFar

\* A step that signs nothing, inserts nothing and delivers nothing.
Quiet(r) ==
  /\ UNCHANGED <<minted, sub, held, parent>>
  /\ req' \in [Request -> Locals]
  /\ \A q \in Request : q # r => req'[q] = req[q]
  /\ req'[r].new \in {0, req[r].new}
  /\ Pending(r)' => Pending(r)

\* The rows such a step changes: a row that was in the table is revoked,
\* for a cause, or deleted.
RowsOnlyLose ==
  /\ row' \in [Token -> RowState]
  /\ \A t \in Token : row'[t] # row[t] =>
        HasRow(t) /\ row'[t] \in {"revoked", "deleted"}
  /\ loginMark' \in [User -> 0 .. MaxTokens]
  /\ \A u \in User : loginMark[u] <= loginMark'[u] /\ loginMark'[u] <= minted
  /\ \A t \in Token : row'[t] = "revoked" /\ row[t] # "revoked" =>
        t <= loginMark'[sub[t]] \/ \E s \in Token : parent[s] = t

LEMMA QuietStep ==
  ASSUME TokensInv, NEW r \in Request, Quiet(r), RowsOnlyLose,
         expired' = expired, Agrees(r)'
  PROVE  TokensInv'
<1> USE DEF TokensInv, Quiet, RowsOnlyLose
<1>1. TypeOK'
  BY DEF TypeOK
<1>2. SignedSoFar'
  BY DEF SignedSoFar, HasRow, TypeOK
<1>3. LocalsAgree'
  <2> SUFFICES ASSUME NEW q \in Request, q # r PROVE Agrees(q)'
    BY DEF LocalsAgree
  <2>1. Agrees(q) /\ req'[q] = req[q]
    BY DEF LocalsAgree
  <2>2. req[q].tok # 0 => req[q].tok \in Token
    BY <2>1 DEF Agrees, TypeOK
  <2>3. Pending(q) => req[q].new \in Token
    BY <2>1, LocalsTyped DEF Agrees, Token
  <2> QED
    BY <2>1, <2>2, <2>3 DEF Agrees, Pending, HasRow
<1>4. NewIsPrivate'
  BY DEF NewIsPrivate
<1>5. ParentsHeld'
  BY DEF ParentsHeld
<1>6. HeldIsSettled'
  BY DEF HeldIsSettled, Pending, LocalsAgree, Agrees
<1>7. RecordedRowsExclusive'
  <2> SUFFICES ASSUME NEW t \in Token, row'[t] = "active", parent[t] # 0
               PROVE  row'[parent[t]] # "active"
    BY DEF RecordedRowsExclusive
  <2>1. parent[t] \in Token
    BY DEF TypeOK, Token
  <2>2. row[t] = "active" /\ row[parent[t]] # "active"
    BY DEF RecordedRowsExclusive
  <2> QED
    BY <2>1, <2>2
<1>8. RevokedForCause'
  <2> SUFFICES ASSUME NEW t \in Token, row'[t] = "revoked"
               PROVE  t <= loginMark'[sub[t]] \/ \E s \in Token : parent[s] = t
    BY DEF RevokedForCause
  <2>1. CASE row[t] # "revoked"
    BY <2>1
  <2>2. CASE row[t] = "revoked"
    <3>1. sub[t] \in User
      BY <2>2 DEF SignedSoFar
    <3>2. loginMark[sub[t]] \in 0 .. MaxTokens /\ loginMark'[sub[t]] \in 0 .. MaxTokens
      BY <3>1 DEF TypeOK
    <3>3. t \in Nat
      BY DEF Token
    <3> QED
      BY <2>2, <3>1, <3>2, <3>3 DEF RevokedForCause
  <2> QED
    BY <2>1, <2>2
<1> QED
  BY <1>1, <1>2, <1>3, <1>4, <1>5, <1>6, <1>7, <1>8

------------------------------------------------------------------------------
\* The quiet actions, each as one application of QuietStep

LEMMA BeginLoginInv ==
  ASSUME TokensInv, NEW r \in Request, NEW u \in User, BeginLogin(r, u)
  PROVE  TokensInv'
<1> USE DEF TokensInv, BeginLogin
<1>1. Quiet(r) /\ req'[r].pc = "loginUpdate" /\ req'[r].user = u /\ req'[r].tok = 0 /\ req'[r].new = 0
  BY PutFacts, TokensAssumption DEF Quiet, Running, Pending
<1>2. RowsOnlyLose
  BY DEF RowsOnlyLose, TypeOK, SignedSoFar
<1>3. Agrees(r)'
  BY <1>1 DEF Agrees, Pending, TypeOK
<1> QED
  BY <1>1, <1>2, <1>3, QuietStep

LEMMA LoginUpdateInv ==
  ASSUME TokensInv, NEW r \in Request, LoginUpdate(r)
  PROVE  TokensInv'
<1> USE DEF TokensInv
<1>1. /\ Quiet(r)
      /\ req'[r].pc = "loginSign"
      /\ req'[r].user = req[r].user
      /\ req'[r].tok = req[r].tok
      /\ req'[r].new = req[r].new
  BY GotoFacts DEF LoginUpdate, Quiet, Running, Pending
<1>2. req[r].user \in User
  BY DEF LoginUpdate, LocalsAgree, Agrees, Running
<1>3. RowsOnlyLose
  <2>1. row' \in [Token -> RowState]
    BY DEF LoginUpdate, SetRows, TypeOK, RowState
  <2>2. \A t \in Token : row'[t] # row[t] => HasRow(t) /\ row'[t] \in {"revoked", "deleted"}
    BY DEF LoginUpdate, SetRows, RowsOf, TypeOK
  <2>3. /\ loginMark' \in [User -> 0 .. MaxTokens]
        /\ loginMark'[req[r].user] = minted
        /\ \A u \in User : u # req[r].user => loginMark'[u] = loginMark[u]
    BY <1>2 DEF LoginUpdate, TypeOK
  <2>4. \A u \in User : loginMark[u] <= loginMark'[u] /\ loginMark'[u] <= minted
    BY <2>3 DEF SignedSoFar, TypeOK
  <2>5. ASSUME NEW t \in Token, row'[t] = "revoked", row[t] # "revoked"
        PROVE  t <= loginMark'[sub[t]]
    <3>1. sub[t] = req[r].user
      BY <2>5 DEF LoginUpdate, SetRows, RowsOf
    <3>2. t <= minted
      BY <2>2, <2>5 DEF SignedSoFar, HasRow
    <3> QED
      BY <2>3, <3>1, <3>2
  <2> QED
    BY <2>1, <2>2, <2>3, <2>4, <2>5 DEF RowsOnlyLose
<1>4. Agrees(r)'
  BY <1>1, <1>2 DEF Agrees, LocalsAgree, Pending, LoginUpdate
<1> QED
  BY <1>1, <1>3, <1>4, QuietStep DEF LoginUpdate

LEMMA BeginRefreshInv ==
  ASSUME TokensInv, NEW r \in Request, NEW t \in Token, BeginRefresh(r, t)
  PROVE  TokensInv'
<1> USE DEF TokensInv, BeginRefresh
<1>1. sub[t] \in User /\ t \in 0 .. MaxTokens
  BY HeldTokens DEF Token
<1>2. RowsOnlyLose
  BY DEF RowsOnlyLose, TypeOK, SignedSoFar
<1>3. CASE Decodes(t)
  <2>1. Quiet(r) /\ req'[r].pc = "select" /\ req'[r].user = sub[t] /\ req'[r].tok = t /\ req'[r].new = 0
    BY <1>1, <1>3, PutFacts, TokensAssumption DEF Quiet, Running, Pending
  <2>2. Agrees(r)'
    BY <1>1, <2>1 DEF Agrees, Pending, TypeOK, Token
  <2> QED
    BY <1>2, <2>1, <2>2, QuietStep
<1>4. CASE ~Decodes(t)
  <2>1. Quiet(r) /\ req'[r].pc \in NotRunning /\ req'[r].tok = 0 /\ req'[r].new = 0
    <3>1. RefreshHandlerEnd("ErrUsedRefreshToken") \in NotRunning
      BY DEF RefreshHandlerEnd, NotRunning
    <3> QED
      BY <3>1, <1>4, PutFacts, TokensAssumption DEF Quiet, NotRunning, Pending
  <2>2. Agrees(r)'
    BY <2>1 DEF Agrees, Pending, TypeOK, NotRunning, Running
  <2> QED
    BY <1>2, <2>1, <2>2, QuietStep
<1> QED
  BY <1>3, <1>4

LEMMA SelectRevokedInv ==
  ASSUME TokensInv, NEW r \in Request, SelectRevoked(r)
  PROVE  TokensInv'
<1> USE DEF TokensInv, SelectRevoked
<1>1. /\ Quiet(r)
      /\ req'[r].pc = "reuse"
      /\ req'[r].user = req[r].user
      /\ req'[r].tok = req[r].tok
      /\ req'[r].new = req[r].new
  BY GotoFacts DEF Quiet, Running, Pending
<1>2. RowsOnlyLose
  BY DEF RowsOnlyLose, TypeOK, SignedSoFar
<1>3. Agrees(r)'
  BY <1>1 DEF Agrees, LocalsAgree, Pending, Running
<1> QED
  BY <1>1, <1>2, <1>3, QuietStep

LEMMA RotateInv ==
  ASSUME TokensInv, NEW r \in Request, Rotate(r)
  PROVE  TokensInv'
<1> USE DEF TokensInv
<1>1. /\ Quiet(r)
      /\ req'[r].pc = "insert"
      /\ req'[r].user = req[r].user
      /\ req'[r].tok = req[r].tok
      /\ req'[r].new = req[r].new
  BY GotoFacts DEF Rotate, Quiet, Running, Pending
<1>2. /\ Agrees(r)
      /\ req[r].tok # 0 /\ req[r].tok \in Token /\ sub[req[r].tok] = req[r].user
      /\ req[r].new \in Token /\ parent[req[r].new] = req[r].tok
  BY LocalsTyped, HeldTokens DEF Rotate, LocalsAgree, Agrees, Pending, Token
<1>3. RowsOnlyLose
  <2>1. row' \in [Token -> RowState]
    BY DEF Rotate, SetRows, TypeOK, RowState
  <2>2. \A t \in Token : row'[t] # row[t] => HasRow(t) /\ row'[t] \in {"revoked", "deleted"}
    BY DEF Rotate, SetRows, RowsOf, TypeOK
  <2>3. \A t \in Token : row'[t] = "revoked" /\ row[t] # "revoked" => t = req[r].tok
    BY DEF Rotate, SetRows, TypeOK
  <2> QED
    BY <1>2, <2>1, <2>2, <2>3 DEF RowsOnlyLose, TypeOK, SignedSoFar, Rotate
<1>4. Agrees(r)'
  <2>1. row'[req[r].tok] # "active"
    BY <1>2 DEF Rotate, SetRows, RowsOf, HasRow, TypeOK
  <2>2. req[r].new # 0 /\ row[req[r].new] = "none" /\ sub[req[r].new] = req[r].user
    BY <1>2 DEF Agrees, Pending, Rotate
  <2>3. row'[req[r].new] = "none"
    BY <1>2, <2>2 DEF Rotate, SetRows, RowsOf, HasRow, TypeOK
  <2> QED
    BY <1>1, <1>2, <2>1, <2>2, <2>3 DEF Agrees, Pending, Rotate, Running
<1> QED
  BY <1>1, <1>3, <1>4, QuietStep DEF Rotate

\* A handler that ends after deleting some rows, or none.
LEMMA DeleteAndFinish ==
  ASSUME TokensInv, NEW r \in Request, NEW how \in NotRunning,
         NEW S \in SUBSET {t \in Token : HasRow(t)},
         SetRows(S, "deleted") \/ row' = row,
         Finish(r, how),
         UNCHANGED <<minted, expired, sub, held, parent, loginMark>>
  PROVE  TokensInv'
<1> USE DEF TokensInv
<1>1. Quiet(r) /\ req'[r].pc = how /\ req'[r].tok = 0 /\ req'[r].new \in {0, req[r].new}
  BY FinishFacts DEF Quiet, Pending, NotRunning
<1>2. RowsOnlyLose
  <2>1. row' \in [Token -> RowState]
    BY DEF SetRows, TypeOK, RowState
  <2>2. \A t \in Token : row'[t] # row[t] => HasRow(t) /\ row'[t] = "deleted"
    BY DEF SetRows
  <2> QED
    BY <2>1, <2>2 DEF RowsOnlyLose, TypeOK, SignedSoFar
<1>3. Agrees(r)'
  <2>1. req'[r].new <= minted
    BY <1>1 DEF LocalsAgree, Agrees, TypeOK
  <2> QED
    BY <1>1, <2>1 DEF Agrees, Pending, NotRunning, Running
<1> QED
  BY <1>1, <1>2, <1>3, QuietStep

LEMMA ReuseInv ==
  ASSUME TokensInv, NEW r \in Request, Reuse(r)
  PROVE  TokensInv'
<1>1. RefreshHandlerEnd("ErrUsedRefreshToken") \in NotRunning
  BY DEF RefreshHandlerEnd, NotRunning
<1>2. RowsOf(req[r].user) \in SUBSET {t \in Token : HasRow(t)}
  BY DEF RowsOf
<1> QED
  BY <1>1, <1>2, DeleteAndFinish DEF Reuse, DeleteAllOf

LEMMA LogoutDeleteInv ==
  ASSUME TokensInv, NEW r \in Request, LogoutDelete(r)
  PROVE  TokensInv'
<1>1. LogoutHandlerEnd("nil") \in NotRunning
  BY DEF LogoutHandlerEnd, NotRunning
<1>2. {t \in RowsOf(req[r].user) : t = req[r].tok \/ row[t] = "revoked"}
         \in SUBSET {t \in Token : HasRow(t)}
  BY DEF RowsOf
<1> QED
  BY <1>1, <1>2, DeleteAndFinish DEF LogoutDelete

LEMMA LogoutAllDeleteInv ==
  ASSUME TokensInv, NEW r \in Request, LogoutAllDelete(r)
  PROVE  TokensInv'
<1>1. LogoutHandlerEnd("nil") \in NotRunning
  BY DEF LogoutHandlerEnd, NotRunning
<1>2. RowsOf(req[r].user) \in SUBSET {t \in Token : HasRow(t)}
  BY DEF RowsOf
<1> QED
  BY <1>1, <1>2, DeleteAndFinish DEF LogoutAllDelete, DeleteAllOf

LEMMA PresentForLogout ==
  ASSUME TokensInv, NEW r \in Request, NEW t \in held,
         NEW pc \in {"logout", "logoutAll"},
         \/ Put(r, pc, sub[t], t, 0)
         \/ Put(r, LogoutHandlerEnd("ErrDecode"), NoUser, 0, 0),
         UNCHANGED <<minted, expired, sub, row, held, parent, loginMark>>
  PROVE  TokensInv'
<1> USE DEF TokensInv
<1>1. sub[t] \in User /\ t \in 0 .. MaxTokens
  BY HeldTokens DEF Token
<1>2. RowsOnlyLose
  BY DEF RowsOnlyLose, TypeOK, SignedSoFar
<1>3. pc \in Running \cup NotRunning
  BY DEF Running
<1>4. CASE Put(r, pc, sub[t], t, 0)
  <2>1. Quiet(r) /\ req'[r].pc = pc /\ req'[r].user = sub[t] /\ req'[r].tok = t /\ req'[r].new = 0
    BY <1>1, <1>3, <1>4, PutFacts, TokensAssumption DEF Quiet, Pending
  <2>2. Agrees(r)'
    BY <1>1, <1>3, <2>1 DEF Agrees, Pending, TypeOK, Token
  <2> QED
    BY <1>2, <2>1, <2>2, QuietStep
<1>5. CASE Put(r, LogoutHandlerEnd("ErrDecode"), NoUser, 0, 0)
  <2>1. LogoutHandlerEnd("ErrDecode") \in NotRunning
    BY DEF LogoutHandlerEnd, NotRunning
  <2>2. Quiet(r) /\ req'[r].pc \in NotRunning /\ req'[r].tok = 0 /\ req'[r].new = 0
    BY <1>5, <2>1, PutFacts, TokensAssumption DEF Quiet, NotRunning, Pending
  <2>3. Agrees(r)'
    BY <2>2 DEF Agrees, Pending, TypeOK, NotRunning, Running
  <2> QED
    BY <1>2, <2>2, <2>3, QuietStep
<1> QED
  BY <1>4, <1>5

LEMMA BeginLogoutInv ==
  ASSUME TokensInv, NEW r \in Request, NEW t \in Token, NEW all \in BOOLEAN,
         BeginLogout(r, t, all)
  PROVE  TokensInv'
<1>1. CASE all
  <2>1. t \in held /\ (\/ Put(r, "logoutAll", sub[t], t, 0)
                       \/ Put(r, LogoutHandlerEnd("ErrDecode"), NoUser, 0, 0))
    BY <1>1, Zenon DEF BeginLogout
  <2>2. UNCHANGED <<minted, expired, sub, row, held, parent, loginMark>>
    BY Zenon DEF BeginLogout
  <2> QED
    BY ONLY TokensInv, r \in Request, <2>1, <2>2, PresentForLogout
<1>2. CASE ~all
  <2>1. t \in held /\ (\/ Put(r, "logout", sub[t], t, 0)
                       \/ Put(r, LogoutHandlerEnd("ErrDecode"), NoUser, 0, 0))
    BY <1>2, Zenon DEF BeginLogout
  <2>2. UNCHANGED <<minted, expired, sub, row, held, parent, loginMark>>
    BY Zenon DEF BeginLogout
  <2> QED
    BY ONLY TokensInv, r \in Request, <2>1, <2>2, PresentForLogout
<1> QED
  BY <1>1, <1>2, Zenon

LEMMA FailInv ==
  ASSUME TokensInv, NEW r \in Request, Fail(r)
  PROVE  TokensInv'
<1> USE DEF TokensInv, Fail
<1>1. Quiet(r) /\ req'[r].pc = "idle" /\ req'[r].tok = 0 /\ req'[r].new = 0
  BY PutFacts, TokensAssumption DEF Quiet, NotRunning, Pending
<1>2. RowsOnlyLose
  BY DEF RowsOnlyLose, TypeOK, SignedSoFar
<1>3. Agrees(r)'
  BY <1>1 DEF Agrees, Pending, TypeOK, Running
<1> QED
  BY <1>1, <1>2, <1>3, QuietStep

------------------------------------------------------------------------------
\* The actions that sign, insert, deliver or expire a token

\* A handler of account u signs a token: it presents t (0: a login), and
\* goes on to pc.
LEMMA SignStep ==
  ASSUME TokensInv, NEW r \in Request, NEW u \in User, NEW t \in 0 .. MaxTokens,
         NEW pc \in Running \cup NotRunning, NEW v \in User \cup {NoUser},
         t # 0 => t \in held /\ sub[t] = u,
         \/ pc \in {"insert", "rotate"} /\ v = u
         \/ pc = "answered" /\ t = 0,
         pc = "insert" => t = 0,
         pc = "rotate" => t # 0,
         SignFor(u, t),
         Put(r, pc, v, t, minted + 1),
         UNCHANGED <<expired, row, held, loginMark>>
  PROVE  TokensInv'
<1> USE DEF TokensInv
<1> DEFINE n == minted + 1
<1>1. n \in Token /\ n \in 0 .. MaxTokens /\ minted' = n /\ minted < MaxTokens /\ minted \in Nat /\ n # 0
  BY TokensAssumption DEF SignFor, Token, TypeOK
<1>2. /\ sub[n] = NoUser /\ row[n] = "none" /\ parent[n] = 0 /\ n \notin held
  BY <1>1 DEF SignedSoFar
<1>3. /\ sub' \in [Token -> User \cup {NoUser}]
      /\ sub'[n] = u
      /\ \A s \in Token : s # n => sub'[s] = sub[s]
      /\ parent' \in [Token -> 0 .. MaxTokens]
      /\ parent'[n] = t
      /\ \A s \in Token : s # n => parent'[s] = parent[s]
  BY <1>1 DEF SignFor, TypeOK
<1>4. /\ req' \in [Request -> Locals]
      /\ req'[r].pc = pc /\ req'[r].user = v /\ req'[r].tok = t /\ req'[r].new = n
      /\ \A q \in Request : q # r => req'[q] = req[q]
  BY <1>1, PutFacts
<1>5. \A s \in Token : s # n => (s <= n <=> s <= minted)
  BY <1>1 DEF Token
<1> HIDE DEF n
<1>6. TypeOK'
  BY <1>1, <1>3, <1>4 DEF TypeOK
<1>7. SignedSoFar'
  <2>1. \A s \in Token : IF s <= n THEN sub'[s] \in User
            ELSE sub'[s] = NoUser /\ row[s] = "none" /\ parent'[s] = 0 /\ s \notin held
    <3> SUFFICES ASSUME NEW s \in Token
                 PROVE  IF s <= n THEN sub'[s] \in User
                        ELSE sub'[s] = NoUser /\ row[s] = "none" /\ parent'[s] = 0 /\ s \notin held
      OBVIOUS
    <3>1. CASE s = n
      BY <1>1, <1>3, <3>1
    <3>2. CASE s # n
      BY <1>3, <1>5, <3>2 DEF SignedSoFar
    <3> QED
      BY <3>1, <3>2
  <2>2. \A a \in User : loginMark[a] <= n
    BY <1>1 DEF SignedSoFar, TypeOK, n
  <2> QED
    BY <1>1, <2>1, <2>2 DEF SignedSoFar
<1>8. LocalsAgree'
  <2>1. Agrees(r)'
    <3>1. t # 0 => t \in Token /\ t # n /\ sub'[t] = u
      BY <1>2, <1>3, HeldTokens
    <3> QED
      BY <1>1, <1>2, <1>3, <1>4, <3>1 DEF Agrees, Pending, NotRunning, Running
  <2>2. ASSUME NEW q \in Request, q # r PROVE Agrees(q)'
    <3>1. Agrees(q) /\ req'[q] = req[q]
      BY <1>4, <2>2 DEF LocalsAgree
    <3>2. req[q].tok # 0 => req[q].tok \in Token /\ req[q].tok # n
      BY <1>2, <3>1, HeldTokens DEF Agrees
    <3>3. Pending(q) => req[q].new \in Token /\ req[q].new # n
      BY <1>1, <3>1, LocalsTyped DEF Agrees, Token, n
    <3>4. req[q].new <= n
      BY <1>1, <3>1, LocalsTyped DEF Agrees, n
    <3> QED
      BY <1>1, <1>3, <3>1, <3>2, <3>3, <3>4 DEF Agrees, Pending
  <2> QED
    BY <2>1, <2>2 DEF LocalsAgree
<1>9. NewIsPrivate'
  <2>1. \A q \in Request : req[q].new # n
    BY <1>1, LocalsTyped DEF LocalsAgree, Agrees, n
  <2> QED
    BY <1>4, <2>1 DEF NewIsPrivate
<1>10. ParentsHeld'
  BY <1>3 DEF ParentsHeld
<1>11. HeldIsSettled'
  BY <1>2, <1>4 DEF HeldIsSettled, Pending
<1>12. RecordedRowsExclusive'
  BY <1>2, <1>3 DEF RecordedRowsExclusive
<1>13. RevokedForCause'
  <2> SUFFICES ASSUME NEW s \in Token, row[s] = "revoked"
               PROVE  s <= loginMark[sub'[s]] \/ \E w \in Token : parent'[w] = s
    BY DEF RevokedForCause
  <2>1. s # n /\ sub'[s] = sub[s]
    BY <1>2, <1>3
  <2>2. CASE s <= loginMark[sub[s]]
    BY <2>1, <2>2
  <2>3. CASE \E w \in Token : parent[w] = s
    <3>1. PICK w \in Token : parent[w] = s
      BY <2>3
    <3>2. w # n
      BY <1>2, <3>1 DEF Token
    <3> QED
      BY <1>3, <3>1, <3>2
  <2> QED
    BY <2>2, <2>3 DEF RevokedForCause
<1> QED
  BY <1>6, <1>7, <1>8, <1>9, <1>10, <1>11, <1>12, <1>13

LEMMA LoginSignInv ==
  ASSUME TokensInv, NEW r \in Request, LoginSign(r)
  PROVE  TokensInv'
<1>1. req[r].user \in User
  BY DEF LoginSign, TokensInv, LocalsAgree, Agrees, Running
<1>2. PICK u \in User : u = req[r].user
  BY <1>1
<1>3. /\ SignFor(u, 0)
      /\ Put(r, "answered", NoUser, 0, minted + 1)
      /\ UNCHANGED <<expired, row, held, loginMark>>
  BY <1>2 DEF LoginSign
<1>4. 0 \in 0 .. MaxTokens /\ "answered" \in Running \cup NotRunning /\ NoUser \in User \cup {NoUser}
  BY TokensAssumption DEF NotRunning
<1> QED
  BY <1>3, <1>4, SignStep

LEMMA BeginPairInv ==
  ASSUME TokensInv, NEW r \in Request, NEW u \in User, BeginPair(r, u)
  PROVE  TokensInv'
<1>1. /\ SignFor(u, 0)
      /\ Put(r, "insert", u, 0, minted + 1)
      /\ UNCHANGED <<expired, row, held, loginMark>>
  BY DEF BeginPair
<1>2. 0 \in 0 .. MaxTokens /\ "insert" \in Running \cup NotRunning /\ u \in User \cup {NoUser}
  BY TokensAssumption DEF Running
<1> QED
  BY <1>1, <1>2, SignStep

LEMMA SelectAcceptedInv ==
  ASSUME TokensInv, NEW r \in Request, SelectAccepted(r)
  PROVE  TokensInv'
<1>1. /\ req[r].user \in User
      /\ req[r].tok # 0
      /\ req[r].tok \in held
      /\ sub[req[r].tok] = req[r].user
  BY DEF SelectAccepted, TokensInv, LocalsAgree, Agrees, Running
<1>2. req[r].tok \in 0 .. MaxTokens
  BY LocalsTyped DEF TokensInv
<1>3. PICK u \in User, t \in 0 .. MaxTokens : u = req[r].user /\ t = req[r].tok
  BY <1>1, <1>2
<1>4. /\ SignFor(u, t)
      /\ Put(r, "rotate", u, t, minted + 1)
      /\ UNCHANGED <<expired, row, held, loginMark>>
  BY <1>3 DEF SelectAccepted
<1>5. t # 0 /\ t \in held /\ sub[t] = u
  BY <1>1, <1>3
<1>6. "rotate" \in Running \cup NotRunning /\ u \in User \cup {NoUser}
  BY DEF Running
<1> QED
  BY <1>4, <1>5, <1>6, SignStep

LEMMA InsertInv ==
  ASSUME TokensInv, NEW r \in Request, Insert(r)
  PROVE  TokensInv'
<1> USE DEF TokensInv
<1> DEFINE n == req[r].new
<1> DEFINE how == IF req[r].tok = 0 THEN "answered" ELSE RefreshHandlerEnd("nil")
<1>1. how \in NotRunning
  BY DEF RefreshHandlerEnd, NotRunning
<1>2. SetRows({n}, "active") /\ Finish(r, how) /\ req[r].pc = "insert"
      /\ UNCHANGED <<minted, expired, sub, held, parent, loginMark>>
  BY DEF Insert
<1> HIDE DEF how
<1>3. /\ n \in Token /\ n # 0 /\ n <= minted /\ row[n] = "none" /\ parent[n] = req[r].tok
      /\ (req[r].tok # 0 => row[req[r].tok] # "active" /\ req[r].tok \in held)
      /\ n \notin held
  BY <1>2, LocalsTyped DEF LocalsAgree, Agrees, Pending, HeldIsSettled, Token
<1>4. /\ req' \in [Request -> Locals]
      /\ req'[r].pc \in NotRunning /\ req'[r].tok = 0 /\ req'[r].new \in {0, n}
      /\ \A q \in Request : q # r => req'[q] = req[q]
  BY <1>1, <1>2, FinishFacts
<1>5. /\ row' \in [Token -> RowState]
      /\ row'[n] = "active"
      /\ \A t \in Token : t # n => row'[t] = row[t]
  BY <1>2, <1>3 DEF SetRows, TypeOK, RowState
<1>6. \A q \in Request : q # r /\ Pending(q) => req[q].new # n
  BY <1>3 DEF NewIsPrivate
<1> HIDE DEF n
<1>7. TypeOK'
  BY <1>2, <1>4, <1>5 DEF TypeOK
<1>8. SignedSoFar'
  BY <1>2, <1>3, <1>5 DEF SignedSoFar
<1>9. LocalsAgree'
  <2>1. Agrees(r)'
    BY <1>2, <1>3, <1>4, TokensAssumption DEF Agrees, Pending, NotRunning, Running, TypeOK
  <2>2. ASSUME NEW q \in Request, q # r PROVE Agrees(q)'
    <3>1. Agrees(q) /\ req'[q] = req[q]
      BY <1>4, <2>2 DEF LocalsAgree
    <3>2. req[q].tok # 0 => req[q].tok \in Token /\ req[q].tok # n
      BY <1>3, <3>1, HeldTokens DEF Agrees
    <3>3. Pending(q) => req[q].new \in Token /\ req[q].new # n
      BY <1>6, <2>2, <3>1, LocalsTyped DEF Agrees, Token
    <3> QED
      BY <1>2, <1>5, <3>1, <3>2, <3>3 DEF Agrees, Pending
  <2> QED
    BY <2>1, <2>2 DEF LocalsAgree
<1>10. NewIsPrivate'
  BY <1>4 DEF NewIsPrivate, n
<1>11. ParentsHeld'
  BY <1>2 DEF ParentsHeld
<1>12. HeldIsSettled'
  BY <1>2, <1>4 DEF HeldIsSettled, Pending, NotRunning
<1>13. RecordedRowsExclusive'
  <2> SUFFICES ASSUME NEW t \in Token, row'[t] = "active", parent[t] # 0
               PROVE  row'[parent[t]] # "active"
    BY <1>2 DEF RecordedRowsExclusive
  <2>1. parent[t] \in Token /\ parent[t] # n
    BY <1>3, HeldTokens DEF ParentsHeld
  <2>2. row[parent[t]] # "active"
    BY <1>3, <1>5 DEF RecordedRowsExclusive
  <2> QED
    BY <1>5, <2>1, <2>2
<1>14. RevokedForCause'
  BY <1>2, <1>5 DEF RevokedForCause
<1> QED
  BY <1>7, <1>8, <1>9, <1>10, <1>11, <1>12, <1>13, <1>14

LEMMA ReceiveInv ==
  ASSUME TokensInv, NEW r \in Request, Receive(r)
  PROVE  TokensInv'
<1> USE DEF TokensInv
<1> DEFINE n == req[r].new
<1>1. /\ req[r].pc = "answered"
      /\ held' = held \cup ({n} \ {0})
      /\ Put(r, "idle", NoUser, 0, 0)
      /\ UNCHANGED <<minted, expired, sub, row, parent, loginMark>>
  BY DEF Receive
<1>2. n \in 0 .. MaxTokens /\ n <= minted
  BY LocalsTyped DEF LocalsAgree, Agrees
<1>3. /\ req' \in [Request -> Locals]
      /\ req'[r].pc = "idle" /\ req'[r].tok = 0 /\ req'[r].new = 0
      /\ \A q \in Request : q # r => req'[q] = req[q]
  BY <1>1, PutFacts, TokensAssumption DEF NotRunning
<1>4. \A q \in Request : q # r /\ n # 0 => req[q].new # n
  BY DEF NewIsPrivate
<1> HIDE DEF n
<1>5. held' \subseteq Token /\ held \subseteq held' /\ \A t \in held' : t \in held \/ (t = n /\ n # 0)
  BY <1>1, <1>2 DEF TypeOK, Token
<1>6. TypeOK'
  BY <1>1, <1>3, <1>5 DEF TypeOK
<1>7. SignedSoFar'
  <2>1. \A t \in Token : ~(t <= minted) => t \notin held'
    BY <1>2, <1>5 DEF SignedSoFar
  <2> QED
    BY <1>1, <2>1 DEF SignedSoFar
<1>8. LocalsAgree'
  <2>1. Agrees(r)'
    BY <1>1, <1>3, TokensAssumption DEF Agrees, Pending, Running, TypeOK
  <2>2. ASSUME NEW q \in Request, q # r PROVE Agrees(q)'
    BY <1>1, <1>3, <1>5, <2>2 DEF LocalsAgree, Agrees, Pending
  <2> QED
    BY <2>1, <2>2 DEF LocalsAgree
<1>9. NewIsPrivate'
  BY <1>3 DEF NewIsPrivate
<1>10. ParentsHeld'
  BY <1>1, <1>5 DEF ParentsHeld
<1>11. HeldIsSettled'
  BY <1>3, <1>4, <1>5 DEF HeldIsSettled, Pending
<1>12. RecordedRowsExclusive' /\ RevokedForCause'
  BY <1>1 DEF RecordedRowsExclusive, RevokedForCause
<1> QED
  BY <1>6, <1>7, <1>8, <1>9, <1>10, <1>11, <1>12

LEMMA ExpireInv ==
  ASSUME TokensInv, Expire
  PROVE  TokensInv'
<1> USE DEF TokensInv, Expire
<1>1. TypeOK'
  BY TokensAssumption DEF TypeOK
<1>2. SignedSoFar' /\ NewIsPrivate' /\ ParentsHeld'
  BY DEF SignedSoFar, NewIsPrivate, ParentsHeld
<1>3. LocalsAgree' /\ HeldIsSettled'
  BY DEF LocalsAgree, Agrees, HeldIsSettled, Pending
<1>4. RecordedRowsExclusive' /\ RevokedForCause'
  BY DEF RecordedRowsExclusive, RevokedForCause
<1> QED
  BY <1>1, <1>2, <1>3, <1>4

LEMMA StutterInv ==
  ASSUME TokensInv, UNCHANGED vars
  PROVE  TokensInv'
  BY DEF vars, TokensInv, TypeOK, SignedSoFar, NewIsPrivate, ParentsHeld, LocalsAgree,
         Agrees, HeldIsSettled, Pending, RecordedRowsExclusive, RevokedForCause, HasRow

------------------------------------------------------------------------------

\* TokensInv is inductive.
LEMMA StepInv == TokensInv /\ [Next]_vars => TokensInv'
<1> SUFFICES ASSUME TokensInv, [Next]_vars PROVE TokensInv'
  OBVIOUS
<1>1. CASE UNCHANGED vars
  BY <1>1, StutterInv
<1>2. CASE Expire
  BY <1>2, ExpireInv
<1>3. ASSUME NEW r \in Request, NEW u \in User, BeginLogin(r, u) \/ BeginPair(r, u)
      PROVE  TokensInv'
  BY <1>3, BeginLoginInv, BeginPairInv
<1>4. ASSUME NEW r \in Request, NEW t \in Token, BeginRefresh(r, t)
      PROVE  TokensInv'
  BY <1>4, BeginRefreshInv
<1>5. ASSUME NEW r \in Request, NEW t \in Token, NEW all \in BOOLEAN, BeginLogout(r, t, all)
      PROVE  TokensInv'
  BY <1>5, BeginLogoutInv, Zenon
<1>6. ASSUME NEW r \in Request,
             \/ LoginUpdate(r) \/ LoginSign(r) \/ Insert(r)
             \/ SelectRevoked(r) \/ SelectAccepted(r) \/ Rotate(r) \/ Reuse(r)
             \/ LogoutDelete(r) \/ LogoutAllDelete(r)
             \/ Fail(r) \/ Receive(r)
      PROVE  TokensInv'
  BY <1>6, LoginUpdateInv, LoginSignInv, InsertInv, SelectRevokedInv, SelectAcceptedInv,
     RotateInv, ReuseInv, LogoutDeleteInv, LogoutAllDeleteInv, FailInv, ReceiveInv
<1> QED
  BY <1>1, <1>2, <1>3, <1>4, <1>5, <1>6, Zenon DEF Next

\* The invariant, and with it the typing of the state and what the tokens,
\* the table and the running handlers know of each other, holds in every
\* reachable state, for every number of accounts, requests and tokens.
THEOREM TokensInvariant == Spec => []TokensInv
  BY InitInv, StepInv, PTL DEF Spec

\* Every variable keeps its type.
THEOREM TypeCorrect == Spec => []TypeOK
<1>1. TokensInv => TypeOK
  BY DEF TokensInv
<1> QED
  BY <1>1, TokensInvariant, PTL

\* A rotation never leaves the rows of the old and of the new token both
\* active, whatever other requests do between its statements and wherever one
\* of them fails. A token without a row has none to be revoked.
THEOREM RecordedRowsAreExclusive == Spec => []RecordedRowsExclusive
<1>1. TokensInv => RecordedRowsExclusive
  BY DEF TokensInv
<1> QED
  BY <1>1, TokensInvariant, PTL

\* No row is revoked by another token's refresh or another account's login.
THEOREM RevocationHasACause == Spec => []RevokedForCause
<1>1. TokensInv => RevokedForCause
  BY DEF TokensInv
<1> QED
  BY <1>1, TokensInvariant, PTL

\* The pair reaches the client after its row reached the table.
THEOREM HeldTokensAreSettled == Spec => []HeldIsSettled
<1>1. TokensInv => HeldIsSettled
  BY DEF TokensInv
<1> QED
  BY <1>1, TokensInvariant, PTL

------------------------------------------------------------------------------
\* RefreshTokens implements TokenLedger

\* Which rows the ledger sees in the table.
LEMMA TableSeen ==
  ASSUME TokensInv
  PROVE  /\ \A t \in Token : HasRow(t) => Status(t) = row[t] /\ Status(t) \in {"active", "revoked"}
         /\ \A u : Ledger!RowsOf(u) = RowsOf(u)
         /\ Ledger!LToken = Token
<1>1. ASSUME NEW t \in Token
      PROVE  /\ Status(t) \in {"active", "revoked"} <=> HasRow(t)
             /\ HasRow(t) => Status(t) = row[t]
  <2>1. t \in Nat /\ minted \in Nat /\ (HasRow(t) => t <= minted)
    BY TokensAssumption DEF Token, TokensInv, TypeOK, SignedSoFar, HasRow
  <2> QED
    BY <2>1 DEF Status, HasRow
<1>2. Ledger!LToken = Token
  BY DEF Ledger!LToken, Token
<1>3. ASSUME NEW u PROVE Ledger!RowsOf(u) = RowsOf(u)
  BY <1>1, <1>2 DEF Ledger!RowsOf, Ledger!InTable, RowsOf
<1> QED
  BY <1>1, <1>2, <1>3

\* A step after which the same tokens are about to be inserted.
SamePending == \A t \in Token : InsertPending(t)' <=> InsertPending(t)

LEMMA SamePendingFacts ==
  ASSUME NEW r \in Request,
         \A q \in Request : q # r => req'[q] = req[q],
         Pending(r)' <=> Pending(r),
         Pending(r) => req'[r].new = req[r].new
  PROVE  SamePending
  BY DEF SamePending, InsertPending, Pending

LEMMA LedgerStutters ==
  ASSUME TokensInv, SamePending, UNCHANGED <<minted, sub, row>>
  PROVE  UNCHANGED <<[t \in Token |-> Status(t)], sub>>
  BY DEF SamePending, Status, HasRow

LEMMA RowsMove ==
  ASSUME TokensInv, SamePending, UNCHANGED <<minted, sub>>,
         NEW u \in User, NEW S, S \subseteq RowsOf(u)
  PROVE  /\ SetRows(S, "revoked") => Ledger!Revoke(u, S)
         /\ SetRows(S, "deleted") => Ledger!Delete(u, S)
<1>1. S \subseteq Ledger!RowsOf(u) /\ Ledger!LToken = Token
  BY TableSeen
<1>2. \A t \in S : t \in Token /\ t <= minted /\ HasRow(t) /\ ~InsertPending(t)
  BY DEF RowsOf, HasRow, TokensInv, SignedSoFar, InsertPending, LocalsAgree, Agrees
<1>3. ASSUME SetRows(S, "revoked")
      PROVE  [t \in Token |-> Status(t)]' = [t \in Token |-> IF t \in S THEN "revoked" ELSE Status(t)]
  <2> SUFFICES ASSUME NEW t \in Token
               PROVE  Status(t)' = IF t \in S THEN "revoked" ELSE Status(t)
    OBVIOUS
  <2>1. row'[t] = IF t \in S THEN "revoked" ELSE row[t]
    BY <1>3 DEF SetRows
  <2>2. t \in Nat /\ minted \in Nat
    BY TokensAssumption DEF Token, TokensInv, TypeOK
  <2> QED
    BY <1>2, <2>1, <2>2 DEF Status, HasRow, SamePending
<1>4. ASSUME SetRows(S, "deleted")
      PROVE  [t \in Token |-> Status(t)]' = [t \in Token |-> IF t \in S THEN "detached" ELSE Status(t)]
  <2> SUFFICES ASSUME NEW t \in Token
               PROVE  Status(t)' = IF t \in S THEN "detached" ELSE Status(t)
    OBVIOUS
  <2>1. row'[t] = IF t \in S THEN "deleted" ELSE row[t]
    BY <1>4 DEF SetRows
  <2>2. t \in Nat /\ minted \in Nat
    BY TokensAssumption DEF Token, TokensInv, TypeOK
  <2> QED
    BY <1>2, <2>1, <2>2 DEF Status, HasRow, SamePending
<1> QED
  BY <1>1, <1>3, <1>4 DEF Ledger!Revoke, Ledger!Delete, Ledger!Move

\* Token minted + 1 is signed for u; "to" says whether a handler is about to
\* insert its row.
LEMMA SignMove ==
  ASSUME TokensInv, NEW r \in Request, NEW u \in User, NEW p, SignFor(u, p), row' = row,
         ~Pending(r),
         req'[r].new = minted + 1,
         \A q \in Request : q # r => req'[q] = req[q],
         NEW to \in {"pending", "detached"},
         Pending(r)' <=> to = "pending"
  PROVE  \E t \in Ledger!LToken : Ledger!Sign(t, u, to)
<1>0. PICK n : n = minted + 1
  OBVIOUS
<1>1. /\ n \in Token /\ n \in Nat /\ minted \in Nat /\ minted' = n
      /\ sub' = [sub EXCEPT ![n] = u] /\ row[n] = "none" /\ n > minted
  BY <1>0, TokensAssumption DEF SignFor, TokensInv, TypeOK, SignedSoFar, Token
<1>2. \A q \in Request : Pending(q) => req[q].new # n /\ req[q].new <= minted
  <2> SUFFICES ASSUME NEW q \in Request PROVE req[q].new # n /\ req[q].new <= minted
    OBVIOUS
  <2>1. req[q].new \in Nat /\ req[q].new <= minted
    BY LocalsTyped, TokensAssumption DEF TokensInv, LocalsAgree, Agrees
  <2> QED
    BY <1>1, <2>1
<1>3. req'[r].new = n
  BY <1>0
<1>4. InsertPending(n)' <=> to = "pending"
  BY <1>2, <1>3 DEF InsertPending, Pending
<1>5. \A t \in Token : t # n => (InsertPending(t)' <=> InsertPending(t))
  BY <1>3 DEF InsertPending, Pending
<1>6. Status(n) = "unissued" /\ Status(n)' = to
  <2>1. ~HasRow(n) /\ ~HasRow(n)' /\ ~(n > minted')
    BY <1>1 DEF HasRow
  <2> QED
    BY <1>1, <1>4, <2>1 DEF Status
<1>7. ASSUME NEW t \in Token, t # n PROVE Status(t)' = Status(t)
  <2>1. t > minted' <=> t > minted
    BY <1>0, <1>1, <1>7 DEF Token
  <2>2. HasRow(t)' <=> HasRow(t)
    BY DEF HasRow
  <2> QED
    BY <1>5, <1>7, <2>1, <2>2 DEF Status
<1>8. [t \in Token |-> Status(t)]' = [t \in Token |-> IF t \in {n} THEN to ELSE Status(t)]
  BY <1>6, <1>7
<1>9. Ledger!LToken = Token
  BY TableSeen
<1>10. Ledger!Sign(n, u, to)
  BY <1>1, <1>6, <1>8, <1>9 DEF Ledger!Sign, Ledger!Move
<1> QED
  BY <1>1, <1>9, <1>10

\* Request r stops being about to insert the row of its new token: the row
\* is there now, or it never will be.
LEMMA SettleMove ==
  ASSUME TokensInv, NEW r \in Request, Pending(r), ~Pending(r)',
         UNCHANGED <<minted, sub>>,
         \A q \in Request : q # r => req'[q] = req[q],
         NEW n, n = req[r].new
  PROVE  /\ SetRows({n}, "active") => Ledger!Record(n)
         /\ row' = row => Ledger!Drop(n)
         /\ n \in Ledger!LToken
<1>1. /\ n \in Token /\ n \in Nat /\ minted \in Nat /\ n <= minted /\ row[n] = "none"
  BY LocalsTyped, TokensAssumption DEF TokensInv, TypeOK, LocalsAgree, Agrees, Token
<1>2. InsertPending(n) /\ ~InsertPending(n)'
  BY DEF InsertPending, Pending, TokensInv, NewIsPrivate, LocalsAgree, Agrees
<1>3. \A t \in Token : t # n => (InsertPending(t)' <=> InsertPending(t))
  BY DEF InsertPending, Pending
<1>4. Status(n) = "pending"
  BY <1>1, <1>2 DEF Status, HasRow
<1>5. Ledger!LToken = Token
  BY TableSeen
<1>6. ASSUME SetRows({n}, "active") PROVE Ledger!Record(n)
  <2>1. row'[n] = "active" /\ \A t \in Token : t # n => row'[t] = row[t]
    BY <1>1, <1>6 DEF SetRows
  <2>2. Status(n)' = "active"
    BY <1>1, <2>1 DEF Status, HasRow
  <2>3. \A t \in Token : t # n => Status(t)' = Status(t)
    BY <1>3, <2>1 DEF Status, HasRow
  <2>4. [t \in Token |-> Status(t)]' = [t \in Token |-> IF t \in {n} THEN "active" ELSE Status(t)]
    BY <2>2, <2>3
  <2> QED
    BY <1>1, <1>4, <1>5, <2>4 DEF Ledger!Record, Ledger!Move
<1>7. ASSUME row' = row PROVE Ledger!Drop(n)
  <2>1. Status(n)' = "detached"
    BY <1>1, <1>2, <1>7 DEF Status, HasRow
  <2>2. \A t \in Token : t # n => Status(t)' = Status(t)
    BY <1>3, <1>7 DEF Status, HasRow
  <2>3. [t \in Token |-> Status(t)]' = [t \in Token |-> IF t \in {n} THEN "detached" ELSE Status(t)]
    BY <2>1, <2>2
  <2> QED
    BY <1>1, <1>4, <1>5, <2>3 DEF Ledger!Drop, Ledger!Move
<1> QED
  BY <1>1, <1>5, <1>6, <1>7

------------------------------------------------------------------------------

LedgerStep == Ledger!LNext \/ UNCHANGED <<[t \in Token |-> Status(t)], sub>>

\* Any revocation or deletion of one account's rows is a move of the ledger.
LEMMA LoseMoves ==
  ASSUME TokensInv, SamePending, UNCHANGED <<minted, sub>>,
         NEW u \in User, NEW S, S \subseteq RowsOf(u),
         SetRows(S, "revoked") \/ SetRows(S, "deleted")
  PROVE  LedgerStep
<1>1. S \in SUBSET Ledger!LToken
  BY TableSeen DEF RowsOf
<1>2. Ledger!Revoke(u, S) \/ Ledger!Delete(u, S)
  BY RowsMove
<1> QED
  BY <1>1, <1>2 DEF LedgerStep, Ledger!LNext

\* A request that is not about to insert a row, before or after.
LEMMA NoInsertFacts ==
  ASSUME NEW r \in Request,
         \A q \in Request : q # r => req'[q] = req[q],
         ~Pending(r), ~Pending(r)'
  PROVE  SamePending
  BY SamePendingFacts

LEMMA PutElse ==
  ASSUME TypeOK, NEW r \in Request, NEW pc, NEW u, NEW t, NEW n, Put(r, pc, u, t, n)
  PROVE  \A q \in Request : q # r => req'[q] = req[q]
  BY DEF Put, TypeOK

LEMMA PutThis ==
  ASSUME TypeOK, NEW r \in Request, NEW pc, NEW u, NEW t, NEW n, Put(r, pc, u, t, n)
  PROVE  req'[r].pc = pc /\ req'[r].new = n
<1>1. req'[r] = [pc |-> pc, user |-> u, tok |-> t, new |-> n]
  BY DEF Put, TypeOK
<1> QED
  BY <1>1

LEMMA RunningUser ==
  ASSUME TokensInv, NEW r \in Request, req[r].pc \in Running
  PROVE  req[r].user \in User
  BY DEF TokensInv, LocalsAgree, Agrees

LEMMA ReuseLedger ==
  ASSUME TokensInv, NEW r \in Request, Reuse(r)
  PROVE  LedgerStep
<1>1. req[r].user \in User /\ ~Pending(r)
  BY RunningUser DEF Reuse, Running, Pending
<1>2. SamePending
  <2>1. RefreshHandlerEnd("ErrUsedRefreshToken") \in {"idle", "answered"}
    BY DEF RefreshHandlerEnd
  <2>2. ~Pending(r)' /\ \A q \in Request : q # r => req'[q] = req[q]
    BY <2>1, PutElse, PutThis DEF Reuse, Finish, Pending, TokensInv
  <2> QED
    BY <1>1, <2>2, NoInsertFacts
<1>3. CASE row' = row
  BY <1>2, <1>3, LedgerStutters DEF Reuse, LedgerStep
<1>4. CASE SetRows(RowsOf(req[r].user), "deleted")
  BY <1>1, <1>2, <1>4, LoseMoves DEF Reuse
<1> QED
  BY <1>3, <1>4 DEF Reuse, DeleteAllOf

LEMMA LogoutLedger ==
  ASSUME TokensInv, NEW r \in Request, LogoutDelete(r) \/ LogoutAllDelete(r)
  PROVE  LedgerStep
<1>1. req[r].user \in User /\ ~Pending(r)
  BY RunningUser DEF LogoutDelete, LogoutAllDelete, Running, Pending
<1>2. SamePending
  <2>1. LogoutHandlerEnd("nil") \in {"idle", "answered"}
    BY DEF LogoutHandlerEnd
  <2>2. ~Pending(r)' /\ \A q \in Request : q # r => req'[q] = req[q]
    BY <2>1, PutElse, PutThis DEF LogoutDelete, LogoutAllDelete, Finish, Pending, TokensInv
  <2> QED
    BY <1>1, <2>2, NoInsertFacts
<1>3. PICK S : S \subseteq RowsOf(req[r].user) /\ SetRows(S, "deleted")
  <2>1. CASE LogoutDelete(r)
    BY <2>1 DEF LogoutDelete
  <2>2. CASE LogoutAllDelete(r)
    BY <2>2 DEF LogoutAllDelete, DeleteAllOf
  <2> QED
    BY <2>1, <2>2
<1> QED
  BY <1>1, <1>2, <1>3, LoseMoves DEF LogoutDelete, LogoutAllDelete

LEMMA LoginUpdateLedger ==
  ASSUME TokensInv, NEW r \in Request, LoginUpdate(r)
  PROVE  LedgerStep
<1>1. req[r].user \in User /\ ~Pending(r)
  BY RunningUser DEF LoginUpdate, Running, Pending
<1>2. SamePending
  <2>1. ~Pending(r)' /\ \A q \in Request : q # r => req'[q] = req[q]
    BY PutElse, PutThis DEF LoginUpdate, Goto, Pending, TokensInv
  <2> QED
    BY <1>1, <2>1, NoInsertFacts
<1> QED
  BY <1>1, <1>2, LoseMoves DEF LoginUpdate

LEMMA RotateLedger ==
  ASSUME TokensInv, NEW r \in Request, Rotate(r)
  PROVE  LedgerStep
<1>1. req[r].user \in User
  BY RunningUser DEF Rotate, Running
<1>2. SamePending
  <2>1. /\ Pending(r) /\ Pending(r)' /\ req'[r].new = req[r].new
        /\ \A q \in Request : q # r => req'[q] = req[q]
    BY PutElse, PutThis DEF Rotate, Goto, Pending, TokensInv
  <2> QED
    BY <2>1, SamePendingFacts
<1>3. {req[r].tok} \cap RowsOf(req[r].user) \subseteq RowsOf(req[r].user)
  OBVIOUS
<1> QED
  BY <1>1, <1>2, <1>3, LoseMoves DEF Rotate

\* The steps that only move a request along.
LEMMA LocalLedger ==
  ASSUME TokensInv, NEW r \in Request,
         \/ \E u \in User : BeginLogin(r, u)
         \/ \E t \in Token : BeginRefresh(r, t)
         \/ SelectRevoked(r)
         \/ Receive(r)
  PROVE  LedgerStep
<1>1. ~Pending(r) /\ UNCHANGED <<minted, sub, row>>
  BY DEF BeginLogin, BeginRefresh, SelectRevoked, Receive, Pending, Free, Running
<1>2. ~Pending(r)' /\ \A q \in Request : q # r => req'[q] = req[q]
  <2>1. RefreshHandlerEnd("ErrUsedRefreshToken") \in {"idle", "answered"}
    BY DEF RefreshHandlerEnd
  <2>2. PICK pc, u, t, n : Put(r, pc, u, t, n)
                           /\ pc \in {"loginUpdate", "select", "reuse", "idle", "answered"}
    BY <2>1 DEF BeginLogin, BeginRefresh, SelectRevoked, Receive, Goto
  <2> QED
    BY <2>2, PutElse, PutThis DEF Pending, TokensInv
<1> QED
  BY <1>1, <1>2, NoInsertFacts, LedgerStutters DEF LedgerStep

LEMMA BeginLogoutLedger ==
  ASSUME TokensInv, NEW r \in Request, NEW t \in Token, NEW all \in BOOLEAN,
         BeginLogout(r, t, all)
  PROVE  LedgerStep
<1>1. ~Pending(r)
  BY DEF BeginLogout, Pending, Free, Running
<1>2. UNCHANGED <<minted, sub, row>>
  BY Zenon DEF BeginLogout
<1>3. ~Pending(r)' /\ \A q \in Request : q # r => req'[q] = req[q]
  <2>1. LogoutHandlerEnd("ErrDecode") \in {"idle", "answered"}
    BY DEF LogoutHandlerEnd
  <2>2. \/ Put(r, "logoutAll", sub[t], t, 0)
        \/ Put(r, "logout", sub[t], t, 0)
        \/ Put(r, LogoutHandlerEnd("ErrDecode"), NoUser, 0, 0)
    BY Zenon DEF BeginLogout
  <2> QED
    BY ONLY TokensInv, r \in Request, <2>1, <2>2, PutElse, PutThis DEF Pending, TokensInv
<1> QED
  BY <1>1, <1>2, <1>3, NoInsertFacts, LedgerStutters DEF LedgerStep

LEMMA SignLedger ==
  ASSUME TokensInv, NEW r \in Request,
         LoginSign(r) \/ (\E u \in User : BeginPair(r, u)) \/ SelectAccepted(r)
  PROVE  LedgerStep
<1>1. ~Pending(r) /\ row' = row
  BY DEF LoginSign, BeginPair, SelectAccepted, Pending, Free, Running
<1>2. CASE LoginSign(r)
  <2>1. /\ req[r].user \in User
        /\ SignFor(req[r].user, 0)
        /\ ~Pending(r)' /\ req'[r].new = minted + 1
        /\ \A q \in Request : q # r => req'[q] = req[q]
    BY <1>2, RunningUser, PutElse, PutThis DEF LoginSign, Running, Pending, TokensInv
  <2>2. \E t \in Ledger!LToken : Ledger!Sign(t, req[r].user, "detached")
    BY <1>1, <2>1, SignMove
  <2> QED
    BY <2>1, <2>2 DEF LedgerStep, Ledger!LNext
<1>3. CASE \E u \in User : BeginPair(r, u)
  <2>1. PICK u \in User : BeginPair(r, u)
    BY <1>3
  <2>2. /\ SignFor(u, 0)
        /\ Pending(r)' /\ req'[r].new = minted + 1
        /\ \A q \in Request : q # r => req'[q] = req[q]
    BY <2>1, PutElse, PutThis DEF BeginPair, Pending, TokensInv
  <2>3. \E t \in Ledger!LToken : Ledger!Sign(t, u, "pending")
    BY <1>1, <2>2, SignMove
  <2> QED
    BY <2>3 DEF LedgerStep, Ledger!LNext
<1>4. CASE SelectAccepted(r)
  <2>1. /\ req[r].user \in User
        /\ SignFor(req[r].user, req[r].tok)
        /\ Pending(r)' /\ req'[r].new = minted + 1
        /\ \A q \in Request : q # r => req'[q] = req[q]
    BY <1>4, RunningUser, PutElse, PutThis DEF SelectAccepted, Running, Pending, TokensInv
  <2>2. \E t \in Ledger!LToken : Ledger!Sign(t, req[r].user, "pending")
    BY <1>1, <2>1, SignMove
  <2> QED
    BY <2>1, <2>2 DEF LedgerStep, Ledger!LNext
<1> QED
  BY <1>2, <1>3, <1>4

LEMMA SettleLedger ==
  ASSUME TokensInv, NEW r \in Request, Insert(r) \/ Fail(r)
  PROVE  LedgerStep
<1>1. ~Pending(r)' /\ (\A q \in Request : q # r => req'[q] = req[q]) /\ UNCHANGED <<minted, sub>>
  <2>1. RefreshHandlerEnd("nil") \in {"idle", "answered"}
    BY DEF RefreshHandlerEnd
  <2>2. PICK pc, u, t, n : Put(r, pc, u, t, n) /\ pc \in {"idle", "answered"}
    BY <2>1 DEF Insert, Fail, Finish
  <2> QED
    BY <2>2, PutElse, PutThis DEF Insert, Fail, Pending, TokensInv
<1>2. PICK n : n = req[r].new
  OBVIOUS
<1>3. CASE Insert(r)
  <2>1. Pending(r) /\ SetRows({n}, "active")
    BY <1>2, <1>3 DEF Insert, Pending
  <2>2. Ledger!Record(n) /\ n \in Ledger!LToken
    BY <1>1, <1>2, <2>1, SettleMove
  <2> QED
    BY <2>2 DEF LedgerStep, Ledger!LNext
<1>4. CASE Fail(r) /\ Pending(r)
  <2>1. Ledger!Drop(n) /\ n \in Ledger!LToken
    BY <1>1, <1>2, <1>4, SettleMove DEF Fail
  <2> QED
    BY <2>1 DEF LedgerStep, Ledger!LNext
<1>5. CASE Fail(r) /\ ~Pending(r)
  BY <1>1, <1>5, NoInsertFacts, LedgerStutters DEF LedgerStep, Fail
<1> QED
  BY <1>3, <1>4, <1>5

LEMMA StepLedger == TokensInv /\ [Next]_vars => LedgerStep
<1> SUFFICES ASSUME TokensInv, [Next]_vars PROVE LedgerStep
  OBVIOUS
<1>1. CASE UNCHANGED vars
  BY <1>1, LedgerStutters DEF vars, LedgerStep, SamePending, InsertPending, Pending
<1>2. CASE Expire
  BY <1>2, LedgerStutters DEF Expire, LedgerStep, SamePending, InsertPending, Pending
<1>3. ASSUME NEW r \in Request, NEW t \in Token, NEW all \in BOOLEAN, BeginLogout(r, t, all)
      PROVE  LedgerStep
  BY <1>3, BeginLogoutLedger, Zenon
<1>4. ASSUME NEW r \in Request,
             \/ \E u \in User : BeginLogin(r, u) \/ BeginPair(r, u)
             \/ \E t \in Token : BeginRefresh(r, t)
             \/ LoginUpdate(r) \/ LoginSign(r) \/ Insert(r)
             \/ SelectRevoked(r) \/ SelectAccepted(r) \/ Rotate(r) \/ Reuse(r)
             \/ LogoutDelete(r) \/ LogoutAllDelete(r)
             \/ Fail(r) \/ Receive(r)
      PROVE  LedgerStep
  BY <1>4, LocalLedger, SignLedger, SettleLedger, LoginUpdateLedger, RotateLedger,
     ReuseLedger, LogoutLedger
<1> QED
  BY <1>1, <1>2, <1>3, <1>4, Zenon DEF Next

LEMMA InitLedger == Init => Ledger!LInit
<1> SUFFICES ASSUME Init PROVE Ledger!LInit
  OBVIOUS
<1>1. Ledger!LToken = Token
  BY DEF Ledger!LToken, Token
<1>2. \A t \in Token : Status(t) = "unissued"
  BY TokensAssumption DEF Init, Status, Token
<1> QED
  BY <1>1, <1>2 DEF Init, Ledger!LInit

\* Every behaviour of the handlers is, on the statuses of the tokens, a
\* behaviour of the ledger.
THEOREM TokensImplementLedger == Spec => ImplementsLedger
<1>1. TokensInv /\ [Next]_vars => [Ledger!LNext]_(Ledger!lvars)
  BY StepLedger DEF LedgerStep, Ledger!lvars
<1> QED
  BY <1>1, InitLedger, TokensInvariant, PTL DEF Spec, ImplementsLedger, Ledger!LSpec

------------------------------------------------------------------------------
\* What the handlers inherit from the ledger

\* Statuses and owners keep their types, and no token has an owner before it
\* is signed.
LEMMA LedgerTypeStep == Ledger!LTypeOK /\ [Ledger!LNext]_(Ledger!lvars) => Ledger!LTypeOK'
<1> SUFFICES ASSUME Ledger!LTypeOK, [Ledger!LNext]_(Ledger!lvars) PROVE Ledger!LTypeOK'
  OBVIOUS
<1> USE DEF Ledger!LTypeOK, Ledger!Status, Ledger!Move
<1>1. ASSUME NEW t \in Ledger!LToken, NEW u \in User, NEW to \in {"pending", "detached"},
             Ledger!Sign(t, u, to)
      PROVE  Ledger!LTypeOK'
  BY <1>1 DEF Ledger!Sign
<1>2. ASSUME NEW t \in Ledger!LToken, Ledger!Record(t) \/ Ledger!Drop(t)
      PROVE  Ledger!LTypeOK'
  BY <1>2 DEF Ledger!Record, Ledger!Drop
<1>3. ASSUME NEW u \in User, NEW S \in SUBSET Ledger!LToken,
             Ledger!Revoke(u, S) \/ Ledger!Delete(u, S)
      PROVE  Ledger!LTypeOK'
  BY <1>3 DEF Ledger!Revoke, Ledger!Delete, Ledger!RowsOf, Ledger!InTable
<1>4. CASE UNCHANGED Ledger!lvars
  BY <1>4 DEF Ledger!lvars
<1> QED
  BY <1>1, <1>2, <1>3, <1>4 DEF Ledger!LNext

LEMMA LedgerTyped == Ledger!LSpec => []Ledger!LTypeOK
<1>1. Ledger!LInit => Ledger!LTypeOK
  BY DEF Ledger!LInit, Ledger!LTypeOK, Ledger!Status
<1> QED
  BY <1>1, LedgerTypeStep, PTL DEF Ledger!LSpec

\* No move of the ledger takes a token back to an earlier status.
LEMMA LedgerNeverBack == ASSUME Ledger!LTypeOK, Ledger!LNext PROVE Ledger!NeverBack
<1> USE DEF Ledger!LTypeOK, Ledger!Status, Ledger!Move, Ledger!Rank, Ledger!NeverBack
<1>1. ASSUME NEW s \in Ledger!LToken, NEW u \in User, NEW to \in {"pending", "detached"},
             Ledger!Sign(s, u, to)
      PROVE  Ledger!NeverBack
  BY <1>1 DEF Ledger!Sign
<1>2. ASSUME NEW s \in Ledger!LToken, Ledger!Record(s) \/ Ledger!Drop(s)
      PROVE  Ledger!NeverBack
  BY <1>2 DEF Ledger!Record, Ledger!Drop
<1>3. ASSUME NEW u \in User, NEW S \in SUBSET Ledger!LToken,
             Ledger!Revoke(u, S) \/ Ledger!Delete(u, S)
      PROVE  Ledger!NeverBack
  <2>1. \A t \in S : Ledger!InTable(t)
    BY <1>3 DEF Ledger!Revoke, Ledger!Delete, Ledger!RowsOf
  <2>2. CASE Ledger!Revoke(u, S)
    <3> SUFFICES ASSUME NEW t \in Ledger!LToken
                 PROVE  Ledger!Rank([k \in Token |-> Status(k)][t])
                           <= Ledger!Rank([k \in Token |-> Status(k)]'[t])
      OBVIOUS
    <3>1. [k \in Token |-> Status(k)]'[t]
             = IF t \in S THEN "revoked" ELSE [k \in Token |-> Status(k)][t]
      BY <2>2 DEF Ledger!Revoke
    <3>2. t \in S => [k \in Token |-> Status(k)][t] \in {"active", "revoked"}
      BY <2>1 DEF Ledger!InTable
    <3> QED
      BY <3>1, <3>2
  <2>3. CASE Ledger!Delete(u, S)
    BY <2>1, <2>3 DEF Ledger!Delete, Ledger!InTable
  <2> QED
    BY <1>3, <2>2, <2>3
<1> HIDE DEF Ledger!LTypeOK, Ledger!Status, Ledger!Move, Ledger!Rank, Ledger!NeverBack
<1> QED
  BY <1>1, <1>2, <1>3 DEF Ledger!LNext

\* A move of the ledger changes tokens of one account, and no token's account.
LEMMA LedgerOneAccount == ASSUME Ledger!LTypeOK, Ledger!LNext PROVE Ledger!OneAccount
<1> USE DEF Ledger!LTypeOK, Ledger!Move, Ledger!OneAccount
<1>1. ASSUME NEW s \in Ledger!LToken, NEW u \in User, NEW to \in {"pending", "detached"},
             Ledger!Sign(s, u, to)
      PROVE  Ledger!OneAccount
  BY <1>1 DEF Ledger!Sign
<1>2. ASSUME NEW s \in Ledger!LToken, Ledger!Record(s) \/ Ledger!Drop(s)
      PROVE  Ledger!OneAccount
  BY <1>2 DEF Ledger!Record, Ledger!Drop
<1>3. ASSUME NEW u \in User, NEW S \in SUBSET Ledger!LToken,
             Ledger!Revoke(u, S) \/ Ledger!Delete(u, S)
      PROVE  Ledger!OneAccount
  BY <1>3 DEF Ledger!Revoke, Ledger!Delete, Ledger!RowsOf
<1> QED
  BY <1>1, <1>2, <1>3 DEF Ledger!LNext

\* No row comes back to life: a revoked token is never active again, and a
\* token whose row was deleted never gets one again.
THEOREM RowsNeverRevalidated == Spec => NeverRevalidated
<1>1. Ledger!LTypeOK /\ [Ledger!LNext]_(Ledger!lvars) => [Ledger!NeverBack]_(Ledger!lvars)
  BY LedgerNeverBack
<1> QED
  BY <1>1, LedgerTyped, TokensImplementLedger, PTL
  DEF NeverRevalidated, Ledger!NeverRevalidated, ImplementsLedger, Ledger!LSpec

\* No statement of a handler touches the tokens of two accounts, and a token
\* never changes hands.
THEOREM StatementsConcernOneAccount == Spec => OneAccountPerStep
<1>1. Ledger!LTypeOK /\ [Ledger!LNext]_(Ledger!lvars) => [Ledger!OneAccount]_(Ledger!lvars)
  BY LedgerOneAccount
<1> QED
  BY <1>1, LedgerTyped, TokensImplementLedger, PTL
  DEF OneAccountPerStep, Ledger!OneAccountPerStep, ImplementsLedger, Ledger!LSpec
==============================================================================
