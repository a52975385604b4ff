-------------------------- MODULE AccountLinksProofs --------------------------
(***************************************************************************)
(* What TLAPS proves about AccountLinks, for any number of accounts,       *)
(* addresses, requests and links: LinksInv is an invariant. It is about    *)
(* the rows and about each handler alone: what is left of a handler's plan *)
(* is fine (Fine) whatever the others do, because tokens, accounts and     *)
(* histories only grow, and a row that changes under it makes it stale.    *)
(***************************************************************************)
EXTENDS AccountLinks, SequenceTheorems, TLAPS

\* What the invariant says of an image of account a.
Good(a, u) ==
    /\ Belongs(a, u)
    /\ u.activated => a \in adminMade

\* ... and of a handler with locals l: of each step it is yet to take.
FineWrite(l, i) ==
    /\ l.todo[i].op # "mail" => l.todo[i].image \in User
    /\ l.todo[i].op \in {"save", "update", "mail"} =>
          l.account \in Account /\ Exists(l.account)
    /\ l.todo[i].op = "insert" =>
          /\ i = 1 /\ Len(l.todo) <= 2
          /\ \A j \in DOMAIN l.todo : j > 1 => l.todo[j].op = "select"
          /\ l.todo[i].image = NewAccount(l.todo[i].image.email, l.todo[i].image.activated)

FineSave(l, i) ==
    l.todo[i].op = "save" =>
        /\ Good(l.account, l.todo[i].image)
        /\ ~l.stale => Precedes(row[l.account], l.todo[i].image)
        /\ \A j \in DOMAIN l.todo :
              i < j /\ l.todo[j].op = "save" => Precedes(l.todo[i].image, l.todo[j].image)

FineMail(l, i) ==
    l.todo[i].op = "mail" =>
        /\ l.todo[i].token \in DOMAIN issued
        /\ issued[l.todo[i].token].account = l.account
        /\ \/ l.account \in clobbered
           \/ StoredIn(row[l.account], l.todo[i].token)
           \/ \E j \in 1 .. (i - 1) :
                 l.todo[j].op = "save" /\ StoredIn(l.todo[j].image, l.todo[i].token)

Fine(l) == \A i \in DOMAIN l.todo : FineWrite(l, i) /\ FineSave(l, i) /\ FineMail(l, i)

Rows ==
    /\ \A t \in DOMAIN issued : Exists(issued[t].account)
    /\ \A a \in Account : Exists(a) => Good(a, row[a])
    /\ MailedLinkStands

Handlers == \A r \in Request : Fine(req[r])

LEMMA InvParts == LinksInv <=> TypeOK /\ Rows /\ Handlers
<1>1. ASSUME LinksInv PROVE TypeOK /\ Rows /\ Handlers
  <2>1. ASSUME NEW a \in Account, Exists(a) PROVE Good(a, row[a])
    <3>1. row[a] \in Images(a) BY <2>1 DEF Images, Exists
    <3> QED BY <1>1, <3>1 DEF LinksInv, LinksBelong, ActivationRequired, Good
  <2>2. ASSUME NEW r \in Request, NEW i \in DOMAIN req[r].todo
        PROVE  FineWrite(req[r], i) /\ FineSave(req[r], i) /\ FineMail(req[r], i)
    <3>1. PlanShape(r) /\ PlanForward(r) /\ PlanStores(r) BY <1>1 DEF LinksInv
    <3>2. FineWrite(req[r], i) BY <3>1 DEF PlanShape, FineWrite, OpAt, ImageAt
    <3>3. ASSUME req[r].todo[i].op = "save" PROVE Good(req[r].account, req[r].todo[i].image)
      <4>1. req[r].account \in Account BY <3>2, <3>3 DEF FineWrite
      <4>2. req[r].todo[i].image \in Images(req[r].account) BY <3>3 DEF Images
      <4> QED BY <1>1, <4>1, <4>2 DEF LinksInv, LinksBelong, ActivationRequired, Good
    <3>4. FineSave(req[r], i) BY <3>1, <3>3 DEF PlanForward, FineSave, OpAt, ImageAt
    <3>5. FineMail(req[r], i) BY <3>1 DEF PlanStores, FineMail, OpAt, ImageAt, TokenAt
    <3> QED BY <3>2, <3>4, <3>5
  <2> QED BY <1>1, <2>1, <2>2 DEF LinksInv, Rows, Handlers, Fine
<1>2. ASSUME TypeOK, Rows, Handlers PROVE LinksInv
  <2>1. ASSUME NEW r \in Request, NEW i \in DOMAIN req[r].todo
        PROVE  FineWrite(req[r], i) /\ FineSave(req[r], i) /\ FineMail(req[r], i)
    BY <1>2 DEF Handlers, Fine
  <2>2. ASSUME NEW r \in Request PROVE PlanShape(r) /\ PlanForward(r) /\ PlanStores(r)
    <3>1. PlanShape(r) BY <2>1 DEF PlanShape, FineWrite, OpAt, ImageAt
    <3>2. PlanForward(r) BY <2>1 DEF PlanForward, FineSave, OpAt, ImageAt
    <3>3. PlanStores(r) BY <2>1 DEF PlanStores, FineMail, OpAt, ImageAt, TokenAt
    <3> QED BY <3>1, <3>2, <3>3
  <2>3. ASSUME NEW a \in Account, NEW u \in Images(a) PROVE Good(a, u)
    <3>1. CASE u = row[a] /\ u # None BY <1>2, <3>1 DEF Rows, Exists
    <3>2. ASSUME NEW r \in Request, req[r].account = a, NEW j \in DOMAIN req[r].todo,
                 req[r].todo[j].op = "save", u = req[r].todo[j].image
          PROVE  Good(a, u)
      BY <2>1, <3>2 DEF FineSave
    <3> QED BY <3>1, <3>2 DEF Images
  <2> QED BY <1>2, <2>2, <2>3 DEF LinksInv, Rows, LinksBelong, ActivationRequired, Good
<1> QED BY <1>1, <1>2

------------------------------------------------------------------------------
\* Columns

LEMMA ColumnTyped ==
    ASSUME NEW u \in User, NEW kind \in Kind
    PROVE  Column(u, kind) \in 0 .. MaxTokens /\ Column(u, kind) \in Nat
BY LinksAssumption DEF User, Kind, Column

LEMMA PrecedesSelf == ASSUME NEW u \in User PROVE Precedes(u, u)
BY ColumnTyped DEF Precedes

LEMMA PrecedesTransitive ==
    ASSUME NEW u \in User, NEW v \in User, NEW w \in User, Precedes(u, v), Precedes(v, w)
    PROVE  Precedes(u, w)
<1>1. ASSUME NEW kind \in Kind PROVE Column(u, kind) <= Column(w, kind)
  <2>1. Column(u, kind) \in Nat /\ Column(v, kind) \in Nat /\ Column(w, kind) \in Nat
    BY ColumnTyped
  <2> QED BY <2>1 DEF Precedes
<1> QED BY <1>1 DEF Precedes

LEMMA StoredForward ==
    ASSUME issued \in Seq(Link), NEW t \in DOMAIN issued, NEW u \in User, NEW v \in User,
           Precedes(u, v), StoredIn(u, t)
    PROVE  StoredIn(v, t)
<1>1. issued[t].kind \in Kind
  <2>1. issued[t] \in Link OBVIOUS
  <2> QED BY <2>1 DEF Link
<1>2. Column(u, issued[t].kind) \in Nat /\ Column(v, issued[t].kind) \in Nat /\ t \in Nat
  BY <1>1, ColumnTyped
<1> QED BY <1>1, <1>2 DEF Precedes, StoredIn

------------------------------------------------------------------------------
\* What only grows: the claims that were signed, of rows there are, and the
\* histories.

Extends ==
    /\ DOMAIN issued \subseteq DOMAIN issued'
    /\ \A t \in DOMAIN issued : issued'[t] = issued[t]
    /\ issued' \in Seq(Link) /\ Len(issued') <= MaxTokens
    /\ \A t \in DOMAIN issued' : t \notin DOMAIN issued => row'[issued'[t].account] # None
    /\ adminMade \subseteq adminMade'
    /\ clobbered \subseteq clobbered'

LEMMA BelongsGrows ==
    ASSUME Extends, TypeOK, NEW a, NEW u \in User, Belongs(a, u)
    PROVE  Belongs(a, u)'
<1>1. ASSUME NEW kind \in Kind, Column(u, kind) # 0
      PROVE  LET t == Column(u, kind)
             IN t \in DOMAIN issued' /\ issued'[t].kind = kind /\ issued'[t].account = a
  BY <1>1 DEF Belongs, Extends
<1>2. u.newEmail = IF u.change = 0 THEN None ELSE issued'[u.change].wanted
  <2>1. CASE u.change = 0 BY <2>1 DEF Belongs
  <2>2. CASE u.change # 0
    <3>1. "change" \in Kind /\ Column(u, "change") = u.change BY DEF Kind, Column
    <3>2. u.change \in DOMAIN issued BY <2>2, <3>1 DEF Belongs
    <3> QED BY <2>2, <3>2 DEF Belongs, Extends
  <2> QED BY <2>1, <2>2
<1> QED BY <1>1, <1>2 DEF Belongs

LEMMA GoodGrows ==
    ASSUME Extends, TypeOK, NEW a, NEW u \in User, Good(a, u)
    PROVE  Good(a, u)'
<1>1. Belongs(a, u)' BY BelongsGrows DEF Good
<1> QED BY <1>1 DEF Good, Extends

\* The row of account a is kept, or goes forward, or is clobbered.
Moves(a) ==
    Exists(a) => /\ row'[a] \in User
                 /\ a \in clobbered' \/ Precedes(row[a], row'[a])

LEMMA StoredMoves ==
    ASSUME TypeOK, Extends, NEW a \in Account, Exists(a), Moves(a),
           NEW t \in DOMAIN issued, a \in clobbered \/ StoredIn(row[a], t)
    PROVE  (a \in clobbered \/ StoredIn(row[a], t))'
<1>1. CASE a \in clobbered' BY <1>1
<1>2. CASE a \notin clobbered'
  <2>1. StoredIn(row[a], t) /\ row[a] \in User /\ row'[a] \in User /\ Precedes(row[a], row'[a])
    BY <1>2 DEF TypeOK, Extends, Exists, Moves
  <2>2. PICK v : v = row'[a] OBVIOUS
  <2>3. StoredIn(v, t) BY <2>1, <2>2, StoredForward DEF TypeOK
  <2>4. issued'[t] = issued[t] BY DEF Extends
  <2> QED BY <2>2, <2>3, <2>4 DEF StoredIn
<1> QED BY <1>1, <1>2

\* What is left for a handler that takes no part in a step stays fine.
LEMMA FineStays ==
    ASSUME TypeOK, Extends, NEW l \in Local, Fine(l), NEW m,
           m.account = l.account, m.todo = l.todo,
           l.todo # <<>> /\ l.account \in Account =>
               /\ Moves(l.account)
               /\ Exists(l.account) => (m.stale \/ (~l.stale /\ row'[l.account] = row[l.account]))
    PROVE  Fine(m)'
<1> SUFFICES ASSUME NEW i \in DOMAIN l.todo
             PROVE  FineWrite(m, i)' /\ FineSave(m, i)' /\ FineMail(m, i)'
  BY DEF Fine
<1>1. FineWrite(l, i) /\ FineSave(l, i) /\ FineMail(l, i) BY DEF Fine
<1>2. PICK a : a = l.account OBVIOUS
<1>3. l.todo # <<>> /\ l.todo \in Seq(Step) BY DEF Local
<1>4. ASSUME l.todo[i].op \in {"save", "update", "mail"}
      PROVE  a \in Account /\ Exists(a) /\ Exists(a)' /\ Moves(a)
  BY <1>1, <1>2, <1>3, <1>4, LinksAssumption DEF FineWrite, Moves, Exists
<1>5. FineWrite(m, i)' BY <1>1, <1>2, <1>4 DEF FineWrite, Exists
<1>6. FineSave(m, i)'
  <2> SUFFICES ASSUME l.todo[i].op = "save" PROVE FineSave(m, i)' BY DEF FineSave
  <2>1. PICK u : u = l.todo[i].image OBVIOUS
  <2>2. u \in User /\ Good(a, u) BY <1>1, <1>2, <2>1 DEF FineWrite, FineSave
  <2>3. Good(a, u)' BY <2>2, GoodGrows
  <2>4. ~m.stale => Precedes(row'[a], u) BY <1>1, <1>2, <1>3, <1>4, <2>1 DEF FineSave
  <2> QED BY <1>1, <1>2, <2>1, <2>3, <2>4 DEF FineSave, Good, Belongs
<1>7. FineMail(m, i)'
  <2> SUFFICES ASSUME l.todo[i].op = "mail" PROVE FineMail(m, i)' BY DEF FineMail
  <2>1. PICK t : t = l.todo[i].token OBVIOUS
  <2>2. t \in DOMAIN issued /\ issued[t].account = a BY <1>1, <1>2, <2>1 DEF FineMail
  <2>3. issued'[t] = issued[t] /\ t \in DOMAIN issued' BY <2>2 DEF Extends
  <2>4. CASE a \in clobbered \/ StoredIn(row[a], t)
    <3>1. (a \in clobbered \/ StoredIn(row[a], t))' BY <1>4, <2>2, <2>4, StoredMoves
    <3> QED BY <1>2, <2>1, <2>2, <2>3, <3>1 DEF FineMail, StoredIn
  <2>5. CASE \E j \in 1 .. (i - 1) : l.todo[j].op = "save" /\ StoredIn(l.todo[j].image, t)
    BY <1>2, <2>1, <2>2, <2>3, <2>5 DEF FineMail, StoredIn
  <2> QED BY <1>1, <1>2, <2>1, <2>4, <2>5 DEF FineMail
<1> QED BY <1>5, <1>6, <1>7

------------------------------------------------------------------------------
\* The rows after a step

\* What MailedLinkStands says of a token.
MailStands(t) ==
    /\ t \in DOMAIN issued
    /\ LET a == issued[t].account IN a \in clobbered \/ StoredIn(row[a], t)

NewMailStands == \A t \in mailed' : t \in mailed \/ MailStands(t)'

LEMMA RowsMove ==
    ASSUME LinksInv, Extends, TypeOK', \A a \in Account : Moves(a),
           \A a \in Account : Exists(a)' => Good(a, row[a])' ,
           mailed' = mailed \/ NewMailStands
    PROVE  Rows'
<1>1. TypeOK /\ Rows BY InvParts
<1>2. \A a \in Account : Exists(a) => Exists(a)' BY LinksAssumption DEF Moves, Exists
<1>3. \A t \in DOMAIN issued : issued[t].account \in Account /\ issued'[t] = issued[t]
  <2>1. \A t \in DOMAIN issued : issued[t] \in Link BY <1>1 DEF TypeOK
  <2> QED BY <2>1 DEF Extends, Link
<1>4. (\A t \in DOMAIN issued : Exists(issued[t].account))'
  <2>1. ASSUME NEW t \in DOMAIN issued' PROVE Exists(issued[t].account)'
    <3>1. CASE t \in DOMAIN issued
      <4>1. PICK a \in Account : a = issued[t].account BY <1>3, <3>1
      <4>2. Exists(a) BY <1>1, <3>1, <4>1 DEF Rows
      <4>3. issued'[t].account = a BY <1>3, <3>1, <4>1
      <4> QED BY <1>2, <4>2, <4>3 DEF Exists
    <3>2. CASE t \notin DOMAIN issued BY <3>2 DEF Extends, Exists
    <3> QED BY <3>1, <3>2
  <2> QED BY <2>1
<1>5. MailedLinkStands'
  <2> SUFFICES ASSUME NEW t \in mailed', NEW a, a = issued'[t].account
               PROVE  (a \in clobbered \/ StoredIn(row[a], t))'
    BY DEF MailedLinkStands
  <2> SUFFICES ASSUME t \in mailed PROVE (a \in clobbered \/ StoredIn(row[a], t))'
    BY DEF NewMailStands, MailStands, StoredIn
  <2>1. t \in mailed /\ t \in DOMAIN issued BY <1>1 DEF TypeOK
  <2>2. a \in Account /\ a = issued[t].account /\ issued'[t] = issued[t] BY <1>3, <2>1
  <2>3. a \in clobbered \/ StoredIn(row[a], t)
    BY <1>1, <2>1, <2>2 DEF Rows, MailedLinkStands
  <2>4. Exists(a) BY <1>1, <2>1, <2>2 DEF Rows
  <2> QED BY <1>1, <2>1, <2>2, <2>3, <2>4, StoredMoves
<1> QED BY <1>4, <1>5 DEF Rows

LEMMA KeepMoves ==
    ASSUME TypeOK, NEW a \in Account, row'[a] = row[a] PROVE Moves(a)
<1>1. Exists(a) => row[a] \in User BY DEF TypeOK, Exists
<1> QED BY <1>1, PrecedesSelf DEF Moves

LEMMA LocalTyped ==
    ASSUME NEW a \in Account \cup {None}, NEW plan \in Seq(Step), NEW stale \in BOOLEAN
    PROVE  /\ Locals(a, plan, stale) \in Local
           /\ Locals(a, plan, stale).todo = plan
           /\ plan # <<>> => /\ Locals(a, plan, stale).account = a
                             /\ Locals(a, plan, stale).stale = stale
BY DEF Locals, Local, Idle

LEMMA IdleFine == ASSUME NEW l, l.todo = <<>> PROVE Fine(l)'
BY DEF Fine

LEMMA FineIs == ASSUME NEW q, NEW l, req'[q] = l, Fine(l)' PROVE Fine(req[q])'
BY DEF Fine, FineWrite, FineSave, FineMail, Good, Belongs, StoredIn, Exists

\* One handler gets new locals, and the rows stay.
LEMMA OneHandlerStep ==
    ASSUME LinksInv, NEW r \in Request, NEW l \in Local, req' = [req EXCEPT ![r] = l],
           Fine(l)', Extends, UNCHANGED <<row, clobbered, adminMade>>,
           mailed' \subseteq DOMAIN issued', mailed' = mailed \/ NewMailStands
    PROVE  LinksInv'
<1>1. TypeOK /\ Rows /\ Handlers BY InvParts
<1>2. req' \in [Request -> Local] /\ req'[r] = l /\ \A q \in Request \ {r} : req'[q] = req[q]
  BY <1>1 DEF TypeOK
<1>3. TypeOK' BY <1>1, <1>2 DEF TypeOK, Extends
<1>4. \A a \in Account : Moves(a) BY <1>1, KeepMoves
<1>5. \A a \in Account : Exists(a)' => Good(a, row[a])'
  <2>1. ASSUME NEW a \in Account, row[a] # None PROVE Good(a, row[a])'
    <3>1. PICK u : u = row[a] OBVIOUS
    <3>2. u \in User /\ Good(a, u) BY <1>1, <2>1, <3>1 DEF TypeOK, Rows, Exists
    <3>3. Good(a, u)' BY <1>1, <3>2, GoodGrows
    <3> QED BY <3>1, <3>3 DEF Good, Belongs
  <2> QED BY <2>1 DEF Exists
<1>6. Rows' BY <1>3, <1>4, <1>5, RowsMove
<1>7. Handlers'
  <2>1. ASSUME NEW q \in Request, q # r PROVE Fine(req[q])'
    <3>1. PICK m : m = req[q] OBVIOUS
    <3>2. m \in Local /\ Fine(m) /\ m.stale \in BOOLEAN
      BY <1>1, <3>1 DEF TypeOK, Handlers, Local
    <3>3. m.account \in Account => Moves(m.account) BY <1>4
    <3>4. Fine(m)' BY <1>1, <3>2, <3>3, FineStays
    <3> QED BY <1>2, <2>1, <3>1, <3>4, FineIs
  <2>2. Fine(req[r])' BY <1>2, FineIs
  <2> QED BY <2>1, <2>2 DEF Handlers
<1> QED BY <1>3, <1>6, <1>7, InvParts, PTL

LEMMA FailStep == ASSUME LinksInv, NEW r \in Request, Fail(r) PROVE LinksInv'
<1>1. PICK l : l = Idle OBVIOUS
<1>2. l \in Local /\ l.todo = <<>> BY <1>1 DEF Idle, Local
<1>3. Fine(l)' BY <1>2, IdleFine
<1>4. TypeOK BY InvParts
<1>5. Extends BY <1>4 DEF Fail, Extends, TypeOK
<1> QED BY <1>1, <1>2, <1>3, <1>4, <1>5, OneHandlerStep DEF Fail, TypeOK

------------------------------------------------------------------------------
\* Plans

\* A token is signed: it is the newest.
LEMMA SignFacts ==
    ASSUME TypeOK, NEW kind \in Kind, NEW a \in Account, NEW wanted \in Email \cup {None},
           Sign(kind, a, wanted)
    PROVE  /\ NextToken \in 1 .. MaxTokens /\ NextToken \in Nat
           /\ DOMAIN issued' = DOMAIN issued \cup {NextToken} /\ NextToken \notin DOMAIN issued
           /\ \A t \in DOMAIN issued : issued'[t] = issued[t] /\ t < NextToken
           /\ issued'[NextToken] = [kind |-> kind, account |-> a, wanted |-> wanted]
           /\ issued' \in Seq(Link) /\ Len(issued') <= MaxTokens
<1>1. issued \in Seq(Link) /\ Len(issued) \in Nat /\ Len(issued) < MaxTokens /\ MaxTokens \in Nat
  BY LinksAssumption DEF TypeOK, Sign
<1>2. PICK claims : claims = [kind |-> kind, account |-> a, wanted |-> wanted] OBVIOUS
<1>3. claims \in Link BY <1>2 DEF Link
<1>4. issued' = Append(issued, claims) BY <1>2 DEF Sign
<1>5. issued' \in Seq(Link) /\ Len(issued') = Len(issued) + 1 BY <1>1, <1>3, <1>4
<1>6. DOMAIN issued = 1 .. Len(issued) /\ DOMAIN issued' = 1 .. (Len(issued) + 1) BY <1>1, <1>5
<1>7. issued'[Len(issued) + 1] = claims /\ \A t \in 1 .. Len(issued) : issued'[t] = issued[t]
  BY <1>1, <1>4
<1> QED BY <1>1, <1>2, <1>5, <1>6, <1>7 DEF NextToken

\* ... and goes into its column of a copy of v.
LEMMA SignedImage ==
    ASSUME TypeOK, NEW kind \in Kind, NEW a \in Account, NEW wanted \in Email \cup {None},
           Sign(kind, a, wanted), adminMade \subseteq adminMade', clobbered \subseteq clobbered',
           NEW v \in User, Good(a, v)', Belongs(a, v), NEW u \in User,
           NEW n, n = NextToken, Column(u, kind) = n,
           \A k \in Kind \ {kind} : Column(u, k) = Column(v, k),
           u.activated = v.activated,
           u.newEmail = IF kind = "change" THEN wanted ELSE v.newEmail
    PROVE  Good(a, u)' /\ Precedes(v, u) /\ StoredIn(u, n)'
<1>1. /\ n \in 1 .. MaxTokens /\ n \in Nat
      /\ DOMAIN issued' = DOMAIN issued \cup {n} /\ n \notin DOMAIN issued
      /\ \A t \in DOMAIN issued : issued'[t] = issued[t] /\ t < n
      /\ issued'[n] = [kind |-> kind, account |-> a, wanted |-> wanted]
  BY SignFacts
<1>2. /\ n \in Nat /\ n \in DOMAIN issued' /\ n \notin DOMAIN issued /\ n # 0
      /\ \A t \in DOMAIN issued : issued'[t] = issued[t] /\ t < n
      /\ issued'[n].kind = kind /\ issued'[n].account = a /\ issued'[n].wanted = wanted
  BY <1>1
<1>3. /\ Column(v, "change") = v.change /\ Column(u, "change") = u.change
      /\ "change" \in Kind
  BY DEF Column, Kind
<1>4. ASSUME NEW k \in Kind, Column(u, k) # 0
      PROVE  /\ Column(u, k) \in DOMAIN issued' /\ issued'[Column(u, k)].kind = k
             /\ issued'[Column(u, k)].account = a
  <2>1. CASE k = kind BY <1>1, <1>2, <2>1
  <2>2. CASE k # kind
    <3>1. Column(u, k) = Column(v, k) BY <2>2
    <3> QED BY <1>4, <3>1 DEF Good, Belongs
  <2> QED BY <2>1, <2>2
<1>5. u.newEmail = IF u.change = 0 THEN None ELSE issued'[u.change].wanted
  <2>1. CASE kind = "change" BY <1>1, <1>2, <1>3, <2>1
  <2>2. CASE kind # "change"
    <3>1. u.change = v.change /\ u.newEmail = v.newEmail BY <1>3, <2>2
    <3> QED BY <3>1 DEF Good, Belongs
  <2> QED BY <2>1, <2>2
<1>6. Good(a, u)' BY <1>4, <1>5 DEF Good, Belongs
<1>7. Precedes(v, u)
  <2>1. ASSUME NEW k \in Kind PROVE Column(v, k) <= Column(u, k)
    <3>1. Column(v, k) \in Nat BY ColumnTyped
    <3>2. CASE k = kind
      <4>1. Column(v, k) = 0 \/ Column(v, k) \in DOMAIN issued BY DEF Belongs
      <4> QED BY <1>1, <1>2, <3>1, <3>2, <4>1
    <3>3. CASE k # kind BY <3>1, <3>3
    <3> QED BY <3>2, <3>3
  <2> QED BY <2>1 DEF Precedes
<1>8. StoredIn(u, n)'
  <2>1. Column(u, kind) = n /\ issued'[n].kind = kind BY <1>1, <1>2
  <2> QED BY <1>2, <2>1 DEF StoredIn
<1> QED BY <1>6, <1>7, <1>8

\* A plan that saves the row as it is (v), or an image u that is ahead of it,
\* and from then on u, that mails the token of u after u was saved, or updates
\* or looks up a row.
Follows(plan, a, v, u, t) ==
    /\ \A i \in DOMAIN plan :
          \/ plan[i] = Write("save", v)
          \/ plan[i] = Write("save", u)
          \/ plan[i] = MailOf(t) /\ i - 1 \in DOMAIN plan /\ plan[i - 1] = Write("save", u)
          \/ plan[i].op \in {"update", "select"} /\ plan[i].image \in User
    /\ \A i, j \in DOMAIN plan :
          i < j /\ plan[i] = Write("save", u) /\ plan[j].op = "save" => plan[j] = Write("save", u)

LEMMA PlanFine ==
    ASSUME NEW a \in Account, NEW v \in User, row'[a] = v, Good(a, v)',
           NEW u \in User, Good(a, u)', Precedes(v, u),
           NEW l, l.account = a, l.todo \in Seq(Step), NEW t, Follows(l.todo, a, v, u, t),
           (\E i \in DOMAIN l.todo : l.todo[i] = MailOf(t)) =>
               t \in DOMAIN issued' /\ issued'[t].account = a /\ StoredIn(u, t)'
    PROVE  Fine(l)'
<1> SUFFICES ASSUME NEW i \in DOMAIN l.todo
             PROVE  (FineWrite(l, i) /\ FineSave(l, i) /\ FineMail(l, i))'
  BY DEF Fine
<1>1. row'[a] # None BY LinksAssumption
<1>2. Precedes(v, v) /\ Precedes(u, u) BY PrecedesSelf
<1>3. /\ Write("save", v).op = "save" /\ Write("save", v).image = v
      /\ Write("save", u).op = "save" /\ Write("save", u).image = u
      /\ MailOf(t).op = "mail" /\ MailOf(t).token = t
  BY DEF Write, MailOf
<1>4. \/ l.todo[i] = Write("save", v)
      \/ l.todo[i] = Write("save", u)
      \/ l.todo[i] = MailOf(t) /\ i - 1 \in DOMAIN l.todo /\ l.todo[i - 1] = Write("save", u)
      \/ l.todo[i].op \in {"update", "select"} /\ l.todo[i].image \in User
  BY DEF Follows
<1>5. FineWrite(l, i)' BY <1>1, <1>3, <1>4 DEF FineWrite, Exists
<1>6. FineSave(l, i)'
  <2> SUFFICES ASSUME l.todo[i].op = "save" PROVE FineSave(l, i)' BY DEF FineSave
  <2>1. PICK w \in User : w = l.todo[i].image /\ (w = u \/ w = v) BY <1>3, <1>4
  <2>2. Good(a, w)' /\ Precedes(v, w) BY <1>2, <2>1
  <2>3. ASSUME NEW j \in DOMAIN l.todo, i < j, l.todo[j].op = "save"
        PROVE  Precedes(w, l.todo[j].image)
    <3>1. l.todo[j] = Write("save", v) \/ l.todo[j] = Write("save", u)
      BY <1>3, <2>3 DEF Follows
    <3>2. CASE l.todo[i] = Write("save", u)
      <4>1. l.todo[j] = Write("save", u) BY <2>3, <3>2 DEF Follows
      <4> QED BY <1>2, <1>3, <2>1, <3>2, <4>1
    <3>3. CASE l.todo[i] = Write("save", v) BY <1>2, <1>3, <2>1, <3>1, <3>3
    <3> QED BY <1>3, <1>4, <3>2, <3>3
  <2>4. Good(l.account, l.todo[i].image)' BY <2>1, <2>2 DEF Good, Belongs
  <2> QED BY <2>1, <2>2, <2>3, <2>4 DEF FineSave
<1>7. FineMail(l, i)'
  <2> SUFFICES ASSUME l.todo[i].op = "mail" PROVE FineMail(l, i)' BY DEF FineMail
  <2>1. /\ l.todo[i] = MailOf(t) /\ i - 1 \in DOMAIN l.todo /\ l.todo[i - 1] = Write("save", u)
        /\ l.todo[i].token = t
    BY <1>3, <1>4
  <2>2. t \in DOMAIN issued' /\ issued'[t].account = a /\ StoredIn(u, t)' BY <2>1
  <2>3. i - 1 \in 1 .. (i - 1) BY <2>1
  <2> QED BY <1>3, <2>1, <2>2, <2>3 DEF FineMail, StoredIn
<1> QED BY <1>5, <1>6, <1>7

\* A handler that read row a starts with such a plan.
LEMMA StartStep ==
    ASSUME LinksInv, NEW r \in Request, NEW a \in Account, Exists(a), NEW plan \in Seq(Step),
           plan # <<>>, Start(r, a, plan), UNCHANGED <<row, mailed, clobbered, adminMade>>,
           Extends, NEW u \in User, Good(a, u)', Precedes(row[a], u), NEW t, Follows(plan, a, row[a], u, t),
           (\E i \in DOMAIN plan : plan[i] = MailOf(t)) =>
               t \in DOMAIN issued' /\ issued'[t].account = a /\ StoredIn(u, t)'
    PROVE  LinksInv'
<1>1. TypeOK /\ Rows /\ Handlers BY InvParts
<1>2. PICK v : v = row[a] OBVIOUS
<1>3. v \in User /\ Good(a, v) BY <1>1, <1>2 DEF TypeOK, Rows, Exists
<1>4. Good(a, v)' BY <1>1, <1>3, GoodGrows
<1>5. PICK l : l = Locals(a, plan, FALSE) OBVIOUS
<1>6. l \in Local /\ l.account = a /\ l.todo = plan BY <1>5, LocalTyped
<1>7. row'[a] = v /\ Precedes(v, u) /\ Follows(l.todo, a, v, u, t) BY <1>2, <1>6
<1>8. Fine(l)' BY <1>3, <1>4, <1>6, <1>7, PlanFine
<1>9. req' = [req EXCEPT ![r] = l] BY <1>5 DEF Start
<1>10. mailed' \subseteq DOMAIN issued' BY <1>1 DEF TypeOK, Extends
<1> QED BY <1>6, <1>8, <1>9, <1>10, OneHandlerStep

------------------------------------------------------------------------------
\* The handlers start

LEMMA StepTyped ==
    /\ \A op \in {"insert", "save", "update", "select"}, u \in User : Write(op, u) \in Step
    /\ \A t \in 0 .. MaxTokens : MailOf(t) \in Step
BY LinksAssumption DEF Write, MailOf, Step, Ops

\* A handler signs a token n for its copy u of row a, and follows a plan.
LEMMA SignStep ==
    ASSUME LinksInv, NEW r \in Request, NEW a \in Account, Exists(a),
           NEW kind \in Kind, NEW wanted \in Email \cup {None}, Sign(kind, a, wanted),
           NEW n, n = NextToken, NEW v, v = row[a], NEW u \in User, Column(u, kind) = n,
           \A k \in Kind \ {kind} : Column(u, k) = Column(v, k),
           u.activated = v.activated,
           u.newEmail = IF kind = "change" THEN wanted ELSE v.newEmail,
           NEW plan \in Seq(Step), plan # <<>>, Follows(plan, a, v, u, n),
           Start(r, a, plan), UNCHANGED <<row, mailed, clobbered, adminMade>>
    PROVE  LinksInv'
<1>1. TypeOK /\ Rows BY InvParts
<1>2. v \in User /\ Good(a, v) BY <1>1 DEF TypeOK, Rows, Exists
<1>3. /\ DOMAIN issued' = DOMAIN issued \cup {n}
      /\ \A t \in DOMAIN issued : issued'[t] = issued[t]
      /\ issued'[n] = [kind |-> kind, account |-> a, wanted |-> wanted]
      /\ issued' \in Seq(Link) /\ Len(issued') <= MaxTokens
  BY <1>1, SignFacts
<1>4. Extends
  <2>1. \A t \in DOMAIN issued' : t \notin DOMAIN issued => row'[issued'[t].account] # None
    BY <1>3 DEF Exists
  <2> QED BY <1>3, <2>1 DEF Extends
<1>5. Good(a, v)' BY <1>1, <1>2, <1>4, GoodGrows
<1>6. Belongs(a, v) BY <1>2 DEF Good
<1>7. Good(a, u)' /\ Precedes(v, u) /\ StoredIn(u, n)' BY <1>1, <1>2, <1>5, <1>6, SignedImage
<1>8. n \in DOMAIN issued' /\ issued'[n].account = a BY <1>3
<1> QED BY <1>4, <1>7, <1>8, StartStep

LEMMA ResendStep ==
    ASSUME LinksInv, NEW r \in Request, NEW a \in Account, ResendActivation(r, a)
    PROVE  LinksInv'
<1>1. TypeOK BY InvParts
<1>2. PICK n : n = NextToken OBVIOUS
<1>3. PICK v : v = row[a] OBVIOUS
<1>4. n \in 0 .. MaxTokens /\ v \in User
  <2>1. n \in 1 .. MaxTokens BY <1>1, <1>2, SignFacts DEF ResendActivation, Kind
  <2>2. v \in User BY <1>1, <1>3 DEF ResendActivation, TypeOK, Exists
  <2> QED BY <2>1, <2>2
<1>5. PICK u : u = [v EXCEPT !.activation = n] OBVIOUS
<1>6. /\ u \in User /\ u.activated = v.activated /\ u.newEmail = v.newEmail
      /\ Column(u, "activation") = n
      /\ \A k \in Kind \ {"activation"} : Column(u, k) = Column(v, k)
  BY <1>4, <1>5 DEF User, Kind, Column
<1>7. PICK plan : plan = <<Write("save", u), MailOf(n)>> OBVIOUS
<1>8. plan \in Seq(Step) /\ plan # <<>> BY <1>4, <1>6, <1>7, StepTyped
<1>9. Follows(plan, a, v, u, n) BY <1>7 DEF Follows, Write, MailOf
<1>10. Start(r, a, plan) BY <1>2, <1>3, <1>5, <1>7 DEF ResendActivation, ActivationPlan
<1> QED BY <1>2, <1>3, <1>6, <1>8, <1>9, <1>10, SignStep DEF ResendActivation, Kind

LEMMA ResetStep ==
    ASSUME LinksInv, NEW r \in Request, NEW a \in Account, RequestPasswordReset(r, a)
    PROVE  LinksInv'
<1>1. TypeOK BY InvParts
<1>2. PICK n : n = NextToken OBVIOUS
<1>3. PICK v : v = row[a] OBVIOUS
<1>4. n \in 0 .. MaxTokens /\ v \in User
  <2>1. n \in 1 .. MaxTokens BY <1>1, <1>2, SignFacts DEF RequestPasswordReset, Kind
  <2>2. v \in User BY <1>1, <1>3 DEF RequestPasswordReset, TypeOK, Exists
  <2> QED BY <2>1, <2>2
<1>5. PICK u : u = [v EXCEPT !.reset = n] OBVIOUS
<1>6. /\ u \in User /\ u.activated = v.activated /\ u.newEmail = v.newEmail
      /\ Column(u, "reset") = n
      /\ \A k \in Kind \ {"reset"} : Column(u, k) = Column(v, k)
  BY <1>4, <1>5 DEF User, Kind, Column
<1>7. PICK plan : plan = <<Write("save", u), MailOf(n)>> OBVIOUS
<1>8. plan \in Seq(Step) /\ plan # <<>> BY <1>4, <1>6, <1>7, StepTyped
<1>9. Follows(plan, a, v, u, n) BY <1>7 DEF Follows, Write, MailOf
<1>10. Start(r, a, plan) BY <1>2, <1>3, <1>5, <1>7 DEF RequestPasswordReset
<1> QED BY <1>2, <1>3, <1>6, <1>8, <1>9, <1>10, SignStep DEF RequestPasswordReset, Kind

LEMMA ChangeStep ==
    ASSUME LinksInv, NEW r \in Request, NEW a \in Account, NEW email \in Email,
           NEW code \in BOOLEAN, RequestEmailChange(r, a, email, code)
    PROVE  LinksInv'
<1>1. TypeOK BY InvParts
<1>2. PICK n : n = NextToken OBVIOUS
<1>3. PICK v : v = row[a] OBVIOUS
<1>4. n \in 0 .. MaxTokens /\ v \in User
  <2>1. n \in 1 .. MaxTokens BY <1>1, <1>2, SignFacts DEF RequestEmailChange, Kind
  <2>2. v \in User BY <1>1, <1>3 DEF RequestEmailChange, TypeOK, Exists
  <2> QED BY <2>1, <2>2
<1>5. PICK u : u = [v EXCEPT !.newEmail = email, !.change = n] OBVIOUS
<1>6. /\ u \in User /\ u.activated = v.activated /\ u.newEmail = email
      /\ Column(u, "change") = n
      /\ \A k \in Kind \ {"change"} : Column(u, k) = Column(v, k)
  BY <1>4, <1>5 DEF User, Kind, Column
<1>7. PICK plan : plan = IF code THEN <<Write("save", v), Write("save", u), MailOf(n), Write("save", u)>>
                         ELSE <<Write("save", u), MailOf(n), Write("save", u)>>
  OBVIOUS
<1>8. plan \in Seq(Step) /\ plan # <<>>
  <2>1. Write("save", u) \in Step /\ Write("save", v) \in Step /\ MailOf(n) \in Step
    BY <1>4, <1>6, StepTyped
  <2> QED BY <1>7, <2>1
<1>9. Follows(plan, a, v, u, n)
  <2>1. CASE code BY <1>7, <2>1 DEF Follows, Write, MailOf
  <2>2. CASE ~code BY <1>7, <2>2 DEF Follows, Write, MailOf
  <2> QED BY <2>1, <2>2
<1>10. plan = (IF code THEN <<Write("save", v)>> ELSE <<>>)
              \o <<Write("save", u), MailOf(n), Write("save", u)>>
  <2>1. Write("save", u) \in Step /\ Write("save", v) \in Step /\ MailOf(n) \in Step
    BY <1>4, <1>6, StepTyped
  <2>2. CASE code BY <1>7, <2>1, <2>2
  <2>3. CASE ~code BY <1>7, <2>1, <2>3
  <2> QED BY <2>2, <2>3
<1>11. Start(r, a, plan) BY <1>2, <1>3, <1>5, <1>10 DEF RequestEmailChange
<1> QED BY <1>2, <1>3, <1>6, <1>8, <1>9, <1>11, SignStep DEF RequestEmailChange, Kind

LEMMA OneWriteFollows ==
    ASSUME NEW op \in {"save", "update"}, NEW u \in User, NEW v, op = "save" => u = v,
           NEW plan, plan = <<Write(op, u)>>, NEW a
    PROVE  /\ Follows(plan, a, v, v, 0)
           /\ \A i \in DOMAIN plan : plan[i] # MailOf(0)
<1>1. DOMAIN plan = {1} /\ plan[1] = Write(op, u) OBVIOUS
<1>2. Write(op, u).op = op /\ Write(op, u).image = u /\ MailOf(0).op = "mail"
  BY DEF Write, MailOf
<1>3. op # "mail" OBVIOUS
<1>4. op = "save" => Write(op, u) = Write("save", v) OBVIOUS
<1> QED BY <1>1, <1>2, <1>3, <1>4 DEF Follows

\* A handler that signs nothing and writes what it read, or an address.
LEMMA UnsignedStep ==
    ASSUME LinksInv, NEW r \in Request, NEW a \in Account, Exists(a), NEW l, NEW v, v = row[a],
           NEW op \in {"save", "update"}, NEW u \in User, op = "save" => u = v,
           l = Locals(a, <<Write(op, u)>>, FALSE), req' = [req EXCEPT ![r] = l],
           UNCHANGED <<row, issued, mailed, clobbered, adminMade>>
    PROVE  LinksInv'
<1>1. TypeOK /\ Rows BY InvParts
<1>2. v \in User /\ Good(a, v) BY <1>1 DEF TypeOK, Rows, Exists
<1>3. Extends BY <1>1 DEF Extends, TypeOK
<1>4. Good(a, v)' BY <1>1, <1>2, <1>3, GoodGrows
<1>5. PICK plan : plan = <<Write(op, u)>> OBVIOUS
<1>6. plan \in Seq(Step) /\ plan # <<>> BY <1>5, StepTyped
<1>7. l \in Local /\ l.account = a /\ l.todo = plan BY <1>5, <1>6, LocalTyped
<1>8. Follows(l.todo, a, v, v, 0) /\ \A i \in DOMAIN l.todo : l.todo[i] # MailOf(0)
  BY <1>5, <1>7, OneWriteFollows
<1>10. Precedes(v, v) BY <1>2, PrecedesSelf
<1>11. row'[a] = v OBVIOUS
<1>12. Fine(l)' BY <1>2, <1>4, <1>6, <1>7, <1>8, <1>10, <1>11, PlanFine
<1> QED BY <1>1, <1>3, <1>7, <1>12, OneHandlerStep DEF TypeOK

LEMMA EditStep ==
    ASSUME LinksInv, NEW r \in Request, NEW a \in Account, NEW email \in Email,
           EditEmail(r, a, email)
    PROVE  LinksInv'
<1>1. PICK u : u = [row[a] EXCEPT !.email = email] OBVIOUS
<1>2. u \in User
  <2>1. row[a] \in User BY InvParts DEF EditEmail, TypeOK, Exists
  <2> QED BY <1>1, <2>1 DEF User
<1> QED BY <1>1, <1>2, UnsignedStep DEF EditEmail, Start

LEMMA SaveOtherStep ==
    ASSUME LinksInv, NEW r \in Request, NEW a \in Account, SaveOtherColumns(r, a)
    PROVE  LinksInv'
<1>1. row[a] \in User BY InvParts DEF SaveOtherColumns, TypeOK, Exists
<1> QED BY <1>1, UnsignedStep DEF SaveOtherColumns, Start

LEMMA SelectStep ==
    ASSUME LinksInv, NEW r \in Request, Select(r)
    PROVE  LinksInv'
<1>1. PICK a \in With(Image(r).email) :
        req' = [req EXCEPT ![r] = Locals(a, <<Write("save", row[a])>>, FALSE)]
  BY DEF Select
<1>2. a \in Account /\ Exists(a) BY <1>1 DEF With
<1>3. row[a] \in User BY <1>2, InvParts DEF TypeOK, Exists
<1> QED BY <1>1, <1>2, <1>3, UnsignedStep DEF Select

LEMMA RegisterStep ==
    ASSUME LinksInv, NEW r \in Request, NEW email \in Email, NEW asAdmin \in BOOLEAN,
           NEW byAdmin \in BOOLEAN, Register(r, email, asAdmin, byAdmin)
    PROVE  LinksInv'
<1>1. PICK u : u = NewAccount(email, asAdmin) OBVIOUS
<1>2. u \in User /\ u = NewAccount(u.email, u.activated)
  BY <1>1, LinksAssumption DEF NewAccount, User
<1>3. PICK plan : plan = IF byAdmin THEN <<Write("insert", u), Write("select", u)>>
                         ELSE <<Write("insert", u)>>
  OBVIOUS
<1>4. plan \in Seq(Step) /\ plan # <<>>
  <2>1. Write("insert", u) \in Step /\ Write("select", u) \in Step BY <1>2, StepTyped
  <2> QED BY <1>3, <2>1
<1>5. PICK l : l = Locals(None, plan, FALSE) OBVIOUS
<1>6. l \in Local /\ l.todo = plan BY <1>4, <1>5, LocalTyped
<1>7. Fine(l)'
  <2> SUFFICES ASSUME NEW i \in DOMAIN l.todo
               PROVE  (FineWrite(l, i) /\ FineSave(l, i) /\ FineMail(l, i))'
    BY DEF Fine
  <2>1. CASE byAdmin
    <3>1. l.todo = <<Write("insert", u), Write("select", u)>> BY <1>3, <1>6, <2>1
    <3> QED BY <1>2, <3>1 DEF FineWrite, FineSave, FineMail, Write
  <2>2. CASE ~byAdmin
    <3>1. l.todo = <<Write("insert", u)>> BY <1>3, <1>6, <2>2
    <3> QED BY <1>2, <3>1 DEF FineWrite, FineSave, FineMail, Write
  <2> QED BY <2>1, <2>2
<1>8. req' = [req EXCEPT ![r] = l] BY <1>1, <1>3, <1>5 DEF Register, Start
<1>9. TypeOK BY InvParts
<1>10. Extends BY <1>9 DEF Register, Extends, TypeOK
<1> QED BY <1>6, <1>7, <1>8, <1>9, <1>10, OneHandlerStep DEF Register, TypeOK

\* No link is accepted: the check of its token always refuses it.
LEMMA FollowStep ==
    ASSUME LinksInv, NEW r \in Request, NEW t, FollowLink(r, t)
    PROVE  UNCHANGED vars
<1>1. ~Accepts(t) BY DEF Accepts, AsError, NilError
<1> QED BY <1>1 DEF FollowLink, vars

------------------------------------------------------------------------------
\* The steps of the plans

LEMMA TailFacts ==
    ASSUME NEW s \in Seq(Step), s # <<>>
    PROVE  /\ 1 \in DOMAIN s /\ Head(s) = s[1] /\ Tail(s) \in Seq(Step)
           /\ Len(s) \in Nat /\ Len(Tail(s)) = Len(s) - 1 /\ Len(Tail(s)) \in Nat
           /\ \A i \in DOMAIN Tail(s) : i \in Nat /\ i >= 1 /\ i + 1 \in DOMAIN s /\ Tail(s)[i] = s[i + 1]
OBVIOUS

\* What is left for a handler that took a step is fine: if it saved, its row
\* is the image that it saved, and later images are ahead of that row.
LEMMA RestFine ==
    ASSUME TypeOK, Extends, NEW l \in Local, Fine(l), l.todo # <<>>,
           NEW a \in Account, l.account = a, Exists(a), Moves(a),
           NEW m, m.account = a, m.todo = Tail(l.todo),
           l.todo[1].op = "save" => row'[a] = l.todo[1].image,
           \A i \in DOMAIN l.todo : i > 1 /\ l.todo[i].op = "save" /\ ~m.stale =>
               Precedes(row'[a], l.todo[i].image)
    PROVE  Fine(m)'
<1> SUFFICES ASSUME NEW i \in DOMAIN m.todo
             PROVE  FineWrite(m, i)' /\ FineSave(m, i)' /\ FineMail(m, i)'
  BY DEF Fine
<1>1. l.todo \in Seq(Step) BY DEF Local
<1>2. /\ i \in Nat /\ i >= 1 /\ i + 1 \in DOMAIN l.todo /\ m.todo[i] = l.todo[i + 1]
      /\ 1 \in DOMAIN l.todo
  BY <1>1, TailFacts
<1>3. FineWrite(l, i + 1) /\ FineSave(l, i + 1) /\ FineMail(l, i + 1) BY <1>2 DEF Fine
<1>4. row'[a] # None BY LinksAssumption DEF Moves
<1>5. FineWrite(m, i)' BY <1>2, <1>3, <1>4 DEF FineWrite, Exists
<1>6. FineSave(m, i)'
  <2> SUFFICES ASSUME m.todo[i].op = "save" PROVE FineSave(m, i)' BY DEF FineSave
  <2>1. PICK u : u = m.todo[i].image OBVIOUS
  <2>2. u \in User /\ Good(a, u) BY <1>2, <1>3, <2>1 DEF FineWrite, FineSave
  <2>3. Good(a, u)' BY <2>2, GoodGrows
  <2>4. Good(m.account, m.todo[i].image)' BY <2>1, <2>3 DEF Good, Belongs
  <2>5. ~m.stale => Precedes(row'[a], u) BY <1>2, <2>1
  <2>6. ASSUME NEW j \in DOMAIN m.todo, i < j, m.todo[j].op = "save"
        PROVE  Precedes(u, m.todo[j].image)
    <3>1. j \in Nat /\ j + 1 \in DOMAIN l.todo /\ m.todo[j] = l.todo[j + 1]
      BY <1>1, TailFacts
    <3>2. i + 1 < j + 1 BY <1>2, <2>6, <3>1
    <3> QED BY <1>2, <1>3, <2>1, <2>6, <3>1, <3>2 DEF FineSave
  <2> QED BY <2>1, <2>4, <2>5, <2>6 DEF FineSave
<1>7. FineMail(m, i)'
  <2> SUFFICES ASSUME m.todo[i].op = "mail" PROVE FineMail(m, i)' BY DEF FineMail
  <2>1. PICK t : t = m.todo[i].token OBVIOUS
  <2>2. /\ t \in DOMAIN issued /\ issued[t].account = a
        /\ \/ a \in clobbered
           \/ StoredIn(row[a], t)
           \/ \E j \in 1 .. ((i + 1) - 1) : l.todo[j].op = "save" /\ StoredIn(l.todo[j].image, t)
    BY <1>2, <1>3, <2>1 DEF FineMail
  <2>3. issued'[t] = issued[t] /\ t \in DOMAIN issued' BY <2>2 DEF Extends
  <2>4. CASE a \in clobbered \/ StoredIn(row[a], t)
    <3>1. (a \in clobbered \/ StoredIn(row[a], t))' BY <2>2, <2>4, StoredMoves
    <3> QED BY <2>1, <2>2, <2>3, <3>1 DEF FineMail, StoredIn
  <2>5. ASSUME NEW j \in 1 .. ((i + 1) - 1), l.todo[j].op = "save", StoredIn(l.todo[j].image, t)
        PROVE  FineMail(m, i)'
    <3>1. CASE j = 1
      <4>1. StoredIn(row[a], t)' BY <2>3, <2>5, <3>1 DEF StoredIn
      <4> QED BY <2>1, <2>2, <2>3, <4>1 DEF FineMail, StoredIn
    <3>2. CASE j # 1
      <4>1. PICK k \in 1 .. (i - 1) : j = k + 1 /\ k \in DOMAIN m.todo
        <5>1. j - 1 \in 1 .. (i - 1) /\ j = (j - 1) + 1 BY <1>2, <3>2
        <5>2. DOMAIN m.todo = 1 .. Len(m.todo) /\ Len(m.todo) \in Nat BY <1>1, TailFacts
        <5>3. j - 1 \in DOMAIN m.todo BY <1>2, <5>1, <5>2
        <5> QED BY <5>1, <5>3
      <4>2. m.todo[k] = l.todo[j] BY <1>1, <4>1, TailFacts
      <4>3. m.todo[k].op = "save" /\ StoredIn(m.todo[k].image, t)' BY <2>3, <2>5, <4>2 DEF StoredIn
      <4> QED BY <2>1, <2>2, <2>3, <4>1, <4>3 DEF FineMail, StoredIn
    <3> QED BY <3>1, <3>2
  <2> QED BY <2>2, <2>4, <2>5
<1> QED BY <1>5, <1>6, <1>7

\* Row a becomes u, and handler r goes on with locals m.
LEMMA PutStep ==
    ASSUME LinksInv, NEW r \in Request, NEW a \in Account, NEW u \in User, NEW plan,
           Put(r, a, u, plan), NEW m \in Local, m = Locals(a, plan, req[r].stale), Fine(m)',
           Extends, Moves(a), Good(a, u)',
           clobbered' \subseteq Account, adminMade' \subseteq Account, mailed' = mailed
    PROVE  LinksInv'
<1>1. TypeOK /\ Rows /\ Handlers BY InvParts
<1>2. /\ row'[a] = u /\ row' \in [Account -> User \cup {None}]
      /\ \A b \in Account \ {a} : row'[b] = row[b]
  BY <1>1 DEF Put, TypeOK
<1>3. /\ DOMAIN req' = Request /\ req'[r] = m
      /\ \A q \in Request \ {r} : req'[q] = Outdate(q, a, u)
  BY DEF Put
<1>4. ASSUME NEW q \in Request, q # r, NEW l, l = req[q], NEW n, n = Outdate(q, a, u)
      PROVE  /\ l \in Local /\ n \in Local /\ n.account = l.account /\ n.todo = l.todo
             /\ l.todo # <<>> /\ l.account \in Account /\ Exists(l.account) =>
                   n.stale \/ (~l.stale /\ row'[l.account] = row[l.account])
  <2>1. l \in Local BY <1>1, <1>4 DEF TypeOK
  <2>2. PICK late \in BOOLEAN : late = (l.todo # <<>> /\ l.account = a /\ u # row[a]) OBVIOUS
  <2>3. n = [l EXCEPT !.stale = l.stale \/ late] BY <1>4, <2>2 DEF Outdate, Running
  <2>4. PICK old \in BOOLEAN : old = l.stale BY <2>1 DEF Local
  <2>5. PICK new \in BOOLEAN : new = (old \/ late) OBVIOUS
  <2>6. n = [l EXCEPT !.stale = new] BY <2>3, <2>4, <2>5
  <2>7. n \in Local /\ n.account = l.account /\ n.todo = l.todo /\ n.stale = new
    BY <2>1, <2>6 DEF Local
  <2>8. l.todo # <<>> /\ l.account \in Account =>
          late \/ row'[l.account] = row[l.account]
    BY <1>2, <2>2
  <2> QED BY <2>1, <2>4, <2>5, <2>7, <2>8
<1>5. TypeOK'
  <2>1. \A q \in Request : req'[q] \in Local BY <1>3, <1>4
  <2>2. mailed' \subseteq DOMAIN issued' BY <1>1 DEF TypeOK, Extends
  <2>3. req' \in [Request -> Local] BY <1>3, <2>1 DEF Put
  <2> QED BY <1>2, <2>2, <2>3 DEF TypeOK, Extends
<1>6. \A b \in Account : Moves(b) BY <1>1, <1>2, KeepMoves
<1>7. \A b \in Account : Exists(b)' => Good(b, row[b])'
  <2>1. ASSUME NEW b \in Account, b # a, row[b] # None PROVE Good(b, row[b])'
    <3>1. PICK v : v = row[b] OBVIOUS
    <3>2. v \in User /\ Good(b, v) BY <1>1, <2>1, <3>1 DEF TypeOK, Rows, Exists
    <3>3. Good(b, v)' BY <1>1, <3>2, GoodGrows
    <3> QED BY <1>2, <2>1, <3>1, <3>3 DEF Good, Belongs
  <2>2. Good(a, row[a])' BY <1>2 DEF Good, Belongs
  <2> QED BY <1>2, <2>1, <2>2 DEF Exists
<1>8. Rows' BY <1>5, <1>6, <1>7, RowsMove
<1>9. Handlers'
  <2>1. ASSUME NEW q \in Request, q # r PROVE Fine(req[q])'
    <3>1. PICK l : l = req[q] OBVIOUS
    <3>2. PICK n : n = Outdate(q, a, u) OBVIOUS
    <3>3. /\ l \in Local /\ n.account = l.account /\ n.todo = l.todo
          /\ l.todo # <<>> /\ l.account \in Account /\ Exists(l.account) =>
                n.stale \/ (~l.stale /\ row'[l.account] = row[l.account])
      BY <1>4, <2>1, <3>1, <3>2
    <3>4. Fine(l) BY <1>1, <3>1 DEF Handlers
    <3>5. l.account \in Account => Moves(l.account) BY <1>6
    <3>6. Fine(n)' BY <1>1, <3>3, <3>4, <3>5, FineStays
    <3> QED BY <1>3, <2>1, <3>2, <3>6, FineIs
  <2>2. Fine(req[r])' BY <1>3, FineIs
  <2> QED BY <2>1, <2>2 DEF Handlers
<1> QED BY <1>5, <1>8, <1>9, InvParts, PTL

\* What r is left with after it put row a is fine, if all that is left is.
LEMMA PutRest ==
    ASSUME LinksInv, Extends, NEW r \in Request, Running(r), NEW l, l = req[r],
           NEW a \in Account, l.account = a, Exists(a), Moves(a),
           NEW m, m = Locals(a, Tail(l.todo), l.stale),
           l.todo[1].op = "save" => row'[a] = l.todo[1].image,
           \A i \in DOMAIN l.todo : i > 1 /\ l.todo[i].op = "save" /\ ~l.stale =>
               Precedes(row'[a], l.todo[i].image)
    PROVE  m \in Local /\ Fine(m)'
<1>1. TypeOK /\ Handlers BY InvParts
<1>2. l \in Local /\ Fine(l) BY <1>1 DEF TypeOK, Handlers
<1>3. l.todo \in Seq(Step) /\ l.todo # <<>> /\ l.stale \in BOOLEAN BY <1>2 DEF Local, Running
<1>4. PICK plan \in Seq(Step) : plan = Tail(l.todo) BY <1>3, TailFacts
<1>5. /\ m \in Local /\ m.todo = plan
      /\ plan # <<>> => m.account = a /\ m.stale = l.stale
  <2>1. m = Locals(a, plan, l.stale) BY <1>4
  <2> QED BY <1>3, <2>1, LocalTyped
<1>6. CASE plan = <<>> BY <1>5, <1>6, IdleFine
<1>7. CASE plan # <<>>
  <2>1. m.account = a /\ m.stale = l.stale /\ m.todo = Tail(l.todo) BY <1>4, <1>5, <1>7
  <2>2. Fine(m)' BY <1>1, <1>2, <1>3, <2>1, RestFine
  <2> QED BY <1>5, <2>2
<1> QED BY <1>6, <1>7

LEMMA SaveStep ==
    ASSUME LinksInv, NEW r \in Request, Save(r)
    PROVE  LinksInv'
<1>1. TypeOK /\ Rows /\ Handlers BY InvParts
<1>2. PICK l : l = req[r] OBVIOUS
<1>3. l \in Local /\ Fine(l) /\ l.todo \in Seq(Step) /\ l.todo # <<>>
  BY <1>1, <1>2 DEF TypeOK, Handlers, Local, Save, Does, Running
<1>4. PICK a : a = l.account OBVIOUS
<1>5. PICK u : u = l.todo[1].image OBVIOUS
<1>6. 1 \in DOMAIN l.todo /\ l.todo[1].op = "save" /\ Image(r) = u
  BY <1>2, <1>3, <1>5, TailFacts DEF Save, Does, Image
<1>7. FineWrite(l, 1) /\ FineSave(l, 1) BY <1>3, <1>6 DEF Fine
<1>8. a \in Account /\ Exists(a) /\ u \in User /\ Good(a, u)
  BY <1>4, <1>5, <1>6, <1>7 DEF FineWrite, FineSave
<1>9. Put(r, a, u, Tail(l.todo)) /\ row'[a] = u
  BY <1>1, <1>2, <1>4, <1>6, <1>8 DEF Save, Put, TypeOK
<1>10. /\ clobbered' = IF l.stale THEN clobbered \cup {a} ELSE clobbered
       /\ UNCHANGED <<issued, mailed, adminMade>>
  BY <1>2, <1>4 DEF Save
<1>11. Extends /\ clobbered' \subseteq Account /\ adminMade' \subseteq Account
  BY <1>1, <1>8, <1>10 DEF Extends, TypeOK
<1>12. Moves(a) BY <1>4, <1>5, <1>6, <1>7, <1>8, <1>9, <1>10 DEF Moves, FineSave
<1>13. Good(a, u)' BY <1>1, <1>8, <1>11, GoodGrows
<1>14. \A i \in DOMAIN l.todo : i > 1 /\ l.todo[i].op = "save" => Precedes(u, l.todo[i].image)
  BY <1>5, <1>6, <1>7 DEF FineSave
<1>15. PICK m : m = Locals(a, Tail(l.todo), l.stale) OBVIOUS
<1>16. m \in Local /\ Fine(m)'
  BY <1>2, <1>4, <1>5, <1>8, <1>9, <1>11, <1>12, <1>14, <1>15, PutRest DEF Save, Does
<1> QED BY <1>2, <1>8, <1>9, <1>10, <1>11, <1>12, <1>13, <1>15, <1>16, PutStep

LEMMA UpdateStep ==
    ASSUME LinksInv, NEW r \in Request, Update(r)
    PROVE  LinksInv'
<1>1. TypeOK /\ Rows /\ Handlers BY InvParts
<1>2. PICK l : l = req[r] OBVIOUS
<1>3. l \in Local /\ Fine(l) /\ l.todo \in Seq(Step) /\ l.todo # <<>>
  BY <1>1, <1>2 DEF TypeOK, Handlers, Local, Update, Does, Running
<1>4. PICK a : a = l.account OBVIOUS
<1>5. PICK w : w = l.todo[1].image OBVIOUS
<1>6. 1 \in DOMAIN l.todo /\ l.todo[1].op = "update" /\ Image(r) = w
  BY <1>2, <1>3, <1>5, TailFacts DEF Update, Does, Image
<1>7. FineWrite(l, 1) BY <1>3, <1>6 DEF Fine
<1>8. a \in Account /\ Exists(a) /\ w \in User BY <1>4, <1>5, <1>6, <1>7 DEF FineWrite
<1>9. PICK v : v = row[a] OBVIOUS
<1>10. v \in User /\ Good(a, v) BY <1>1, <1>8, <1>9 DEF TypeOK, Rows, Exists
<1>11. PICK u : u = [v EXCEPT !.email = w.email] OBVIOUS
<1>12. /\ u \in User /\ u.activated = v.activated /\ u.newEmail = v.newEmail
       /\ u.change = v.change
       /\ \A kind \in Kind : Column(u, kind) = Column(v, kind)
  BY <1>8, <1>10, <1>11 DEF User, Column
<1>13. Good(a, u) BY <1>10, <1>12 DEF Good, Belongs
<1>14. Put(r, a, u, Tail(l.todo)) /\ row'[a] = u /\ UNCHANGED <<issued, mailed, clobbered, adminMade>>
  BY <1>1, <1>2, <1>4, <1>6, <1>8, <1>9, <1>11 DEF Update, Put, TypeOK
<1>15. Extends /\ clobbered' \subseteq Account /\ adminMade' \subseteq Account
  BY <1>1, <1>14 DEF Extends, TypeOK
<1>16. Precedes(v, u) /\ Precedes(u, v) BY <1>10, <1>12, ColumnTyped DEF Precedes
<1>17. Moves(a) BY <1>9, <1>12, <1>14, <1>16 DEF Moves
<1>18. Good(a, u)' BY <1>1, <1>12, <1>13, <1>15, GoodGrows
<1>19. ASSUME NEW i \in DOMAIN l.todo, l.todo[i].op = "save", ~l.stale
       PROVE  Precedes(u, l.todo[i].image)
  <2>1. FineWrite(l, i) /\ FineSave(l, i) BY <1>3 DEF Fine
  <2>2. l.todo[i].image \in User /\ Precedes(v, l.todo[i].image)
    BY <1>4, <1>9, <1>19, <2>1 DEF FineWrite, FineSave
  <2> QED BY <1>10, <1>12, <1>16, <2>2, PrecedesTransitive
<1>20. PICK m : m = Locals(a, Tail(l.todo), l.stale) OBVIOUS
<1>21. m \in Local /\ Fine(m)'
  BY <1>2, <1>4, <1>6, <1>8, <1>14, <1>15, <1>17, <1>19, <1>20, PutRest DEF Update, Does
<1> QED BY <1>2, <1>8, <1>12, <1>14, <1>15, <1>17, <1>18, <1>20, <1>21, PutStep

\* The mail's token is in the row, or newer ones are: it was saved before.
LEMMA MailStep ==
    ASSUME LinksInv, NEW r \in Request, Mail(r)
    PROVE  LinksInv'
<1>1. TypeOK /\ Rows /\ Handlers BY InvParts
<1>2. PICK l : l = req[r] OBVIOUS
<1>3. l \in Local /\ Fine(l) /\ l.todo \in Seq(Step) /\ l.todo # <<>>
  BY <1>1, <1>2 DEF TypeOK, Handlers, Local, Mail, Does, Running
<1>4. PICK a : a = l.account OBVIOUS
<1>5. PICK t : t = l.todo[1].token OBVIOUS
<1>6. 1 \in DOMAIN l.todo /\ l.todo[1].op = "mail" /\ Head(req[r].todo).token = t
  BY <1>2, <1>3, <1>5, TailFacts DEF Mail, Does
<1>7. FineWrite(l, 1) /\ FineMail(l, 1) BY <1>3, <1>6 DEF Fine
<1>8. a \in Account /\ Exists(a) BY <1>4, <1>6, <1>7 DEF FineWrite
<1>9. MailStands(t)
  BY <1>4, <1>5, <1>6, <1>7 DEF FineMail, MailStands
<1>10. mailed' = mailed \cup {t} /\ UNCHANGED <<row, issued, clobbered, adminMade>>
  BY <1>6 DEF Mail
<1>11. MailStands(t)' BY <1>9, <1>10 DEF MailStands, StoredIn
<1>12. NewMailStands BY <1>10, <1>11 DEF NewMailStands
<1>13. mailed' \subseteq DOMAIN issued' BY <1>1, <1>9, <1>10 DEF MailStands, TypeOK
<1>14. Extends BY <1>1, <1>10 DEF Extends, TypeOK
<1>15. Moves(a) BY <1>1, <1>8, <1>10, KeepMoves
<1>16. ASSUME NEW i \in DOMAIN l.todo, l.todo[i].op = "save", ~l.stale
       PROVE  Precedes(row'[a], l.todo[i].image)
  BY <1>3, <1>4, <1>10, <1>16 DEF Fine, FineSave
<1>17. PICK m : m = Locals(a, Tail(l.todo), l.stale) OBVIOUS
<1>18. m \in Local /\ Fine(m)'
  BY <1>2, <1>4, <1>6, <1>8, <1>14, <1>15, <1>16, <1>17, PutRest DEF Mail, Does
<1>19. req' = [req EXCEPT ![r] = m] BY <1>2, <1>4, <1>17 DEF Mail
<1> QED BY <1>10, <1>12, <1>13, <1>14, <1>18, <1>19, OneHandlerStep

LEMMA TwoAndRest ==
    ASSUME NEW first \in Seq(Step), Len(first) = 2, NEW rest \in Seq(Step)
    PROVE  /\ first \o rest \in Seq(Step)
           /\ DOMAIN (first \o rest) = 1 .. (Len(rest) + 2) /\ 1 \in DOMAIN (first \o rest)
           /\ (first \o rest)[1] = first[1] /\ (first \o rest)[2] = first[2]
           /\ \A i \in DOMAIN (first \o rest) :
                 i > 2 => (first \o rest)[i] = rest[i - 2] /\ i - 2 \in DOMAIN rest
<1>1. Len(rest) \in Nat /\ DOMAIN rest = 1 .. Len(rest) OBVIOUS
<1>2. Len(first \o rest) = Len(rest) + 2
  <2>1. Len(first \o rest) = Len(first) + Len(rest) BY ConcatProperties
  <2> QED BY <1>1, <2>1
<1>3. DOMAIN (first \o rest) = 1 .. (Len(rest) + 2) BY <1>1, <1>2
<1> QED BY <1>1, <1>2, <1>3

\* A new row has no token, and nobody's plan is about it.
LEMMA InsertStep ==
    ASSUME LinksInv, NEW r \in Request, NEW a \in Account, Insert(r, a)
    PROVE  LinksInv'
<1>1. TypeOK /\ Rows /\ Handlers BY InvParts
<1>2. PICK l : l = req[r] OBVIOUS
<1>3. l \in Local /\ Fine(l) /\ l.todo \in Seq(Step) /\ l.todo # <<>> /\ l.stale \in BOOLEAN
  BY <1>1, <1>2 DEF TypeOK, Handlers, Local, Insert, Does, Running
<1>4. PICK v : v = l.todo[1].image OBVIOUS
<1>5. 1 \in DOMAIN l.todo /\ l.todo[1].op = "insert" /\ Image(r) = v
  BY <1>2, <1>3, <1>4, TailFacts DEF Insert, Does, Image
<1>6. FineWrite(l, 1) BY <1>3, <1>5 DEF Fine
<1>7. v \in User /\ v = NewAccount(v.email, v.activated) BY <1>4, <1>5, <1>6 DEF FineWrite
<1>8. /\ v.newEmail = None /\ v.change = 0
      /\ \A kind \in Kind : Column(v, kind) = 0
  BY <1>7 DEF NewAccount, Column
<1>9. Belongs(a, v) /\ Belongs(a, v)' BY <1>8 DEF Belongs
<1>10. PICK rest \in Seq(Step) : rest = Tail(l.todo) BY <1>3, TailFacts
<1>11. Len(rest) \in {0, 1} /\ \A i \in DOMAIN rest : rest[i].op = "select" /\ rest[i].image \in User
  <2>1. Len(l.todo) <= 2 /\ \A j \in DOMAIN l.todo : j > 1 => l.todo[j].op = "select"
    BY <1>5, <1>6 DEF FineWrite
  <2>2. Len(rest) \in {0, 1}
    <3>1. PICK n \in Nat : n = Len(l.todo) BY <1>3, TailFacts
    <3>2. PICK k \in Nat : k = Len(rest) /\ k = n - 1
      <4>1. Len(Tail(l.todo)) = Len(l.todo) - 1 /\ Len(Tail(l.todo)) \in Nat BY <1>3, TailFacts
      <4> QED BY <1>10, <3>1, <4>1
    <3>3. n <= 2 BY <2>1, <3>1
    <3>4. k \in {0, 1} BY <3>2, <3>3
    <3> QED BY <3>2, <3>4
  <2>3. ASSUME NEW i \in DOMAIN rest PROVE rest[i].op = "select" /\ rest[i].image \in User
    <3>1. i \in Nat /\ i >= 1 /\ i + 1 \in DOMAIN l.todo /\ rest[i] = l.todo[i + 1]
      BY <1>3, <1>10, TailFacts
    <3>2. FineWrite(l, i + 1) BY <1>3, <3>1 DEF Fine
    <3> QED BY <2>1, <3>1, <3>2 DEF FineWrite
  <2> QED BY <2>2, <2>3
<1>12. ~Exists(a) /\ Moves(a) /\ mailed' = mailed /\ clobbered' = clobbered
  BY DEF Insert, Moves
<1>13. CASE v.activated
  <2>1. /\ Put(r, a, v, rest) /\ adminMade' = adminMade \cup {a} /\ issued' = issued
    BY <1>2, <1>5, <1>10, <1>13 DEF Insert
  <2>2. Extends /\ clobbered' \subseteq Account /\ adminMade' \subseteq Account
    BY <1>1, <1>12, <2>1 DEF Extends, TypeOK
  <2>3. Good(a, v)' BY <1>9, <2>1 DEF Good
  <2>4. PICK m : m = Locals(a, rest, l.stale) OBVIOUS
  <2>5. m \in Local /\ m.todo = rest /\ (rest # <<>> => m.account = a) BY <1>3, <2>4, LocalTyped
  <2>6. Fine(m)'
    <3>1. CASE rest = <<>> BY <2>5, <3>1, IdleFine
    <3>2. CASE rest # <<>>
      <4>1. Follows(m.todo, a, v, v, 0) BY <1>11, <2>5 DEF Follows, Write
      <4>2. \A i \in DOMAIN m.todo : m.todo[i] # MailOf(0) BY <1>11, <2>5 DEF MailOf
      <4>3. row'[a] = v BY <1>1, <2>1 DEF Put, TypeOK
      <4>4. Precedes(v, v) BY <1>7, PrecedesSelf
      <4> QED BY <1>7, <2>3, <2>5, <3>2, <4>1, <4>2, <4>3, <4>4, PlanFine
    <3> QED BY <3>1, <3>2
  <2> QED BY <1>2, <1>7, <1>12, <2>1, <2>2, <2>3, <2>4, <2>5, <2>6, PutStep
<1>14. CASE ~v.activated
  <2>1. PICK n : n = NextToken OBVIOUS
  <2>2. /\ Put(r, a, v, ActivationPlan(v) \o rest)
        /\ Sign("activation", a, None) /\ adminMade' = adminMade
    BY <1>2, <1>5, <1>10, <1>14 DEF Insert
  <2>3. /\ n \in 1 .. MaxTokens
        /\ DOMAIN issued' = DOMAIN issued \cup {n}
        /\ \A t \in DOMAIN issued : issued'[t] = issued[t]
        /\ issued'[n] = [kind |-> "activation", account |-> a, wanted |-> None]
        /\ issued' \in Seq(Link) /\ Len(issued') <= MaxTokens
    BY <1>1, <2>1, <2>2, SignFacts DEF Kind
  <2>4. row'[a] = v BY <1>1, <2>2 DEF Put, TypeOK
  <2>5. Extends /\ clobbered' \subseteq Account /\ adminMade' \subseteq Account
    <3>1. \A t \in DOMAIN issued' : t \notin DOMAIN issued => row'[issued'[t].account] # None
      BY <1>7, <2>3, <2>4, LinksAssumption
    <3> QED BY <1>1, <1>12, <2>2, <2>3, <3>1 DEF Extends, TypeOK
  <2>6. Good(a, v)' BY <1>9, <1>14 DEF Good
  <2>7. PICK u : u = [v EXCEPT !.activation = n] OBVIOUS
  <2>8. /\ u \in User /\ u.activated = v.activated /\ u.newEmail = v.newEmail
        /\ Column(u, "activation") = n
        /\ \A k \in Kind \ {"activation"} : Column(u, k) = Column(v, k)
    <3>1. n \in 0 .. MaxTokens BY <2>3
    <3> QED BY <1>7, <2>7, <3>1 DEF User, Kind, Column
  <2>9. Good(a, u)' /\ Precedes(v, u) /\ StoredIn(u, n)'
    BY <1>1, <1>7, <1>9, <2>1, <2>2, <2>5, <2>6, <2>8, SignedImage DEF Extends, Kind
  <2>10. PICK plan : plan = ActivationPlan(v) \o rest OBVIOUS
  <2>11. /\ plan \in Seq(Step) /\ plan # <<>>
         /\ plan[1] = Write("save", u) /\ plan[2] = MailOf(n)
         /\ DOMAIN plan = 1 .. (Len(rest) + 2)
         /\ \A i \in DOMAIN plan : i > 2 => plan[i] = rest[i - 2] /\ i - 2 \in DOMAIN rest
    <3>1. ActivationPlan(v) = <<Write("save", u), MailOf(n)>> BY <2>1, <2>7 DEF ActivationPlan
    <3>2. Write("save", u) \in Step /\ MailOf(n) \in Step
      <4>1. n \in 0 .. MaxTokens BY <2>3
      <4> QED BY <2>8, <4>1, StepTyped
    <3>3. PICK first \in Seq(Step) : /\ first = ActivationPlan(v) /\ Len(first) = 2
                                     /\ first[1] = Write("save", u) /\ first[2] = MailOf(n)
      BY <3>1, <3>2
    <3>4. plan = first \o rest BY <2>10, <3>3
    <3>5. 1 \in DOMAIN plan BY <3>3, <3>4, TwoAndRest
    <3> QED BY <3>3, <3>4, <3>5, TwoAndRest
  <2>12. Follows(plan, a, v, u, n)
    BY <1>11, <2>11 DEF Follows, Write, MailOf
  <2>13. PICK m : m = Locals(a, plan, l.stale) OBVIOUS
  <2>14. m \in Local /\ m.todo = plan /\ m.account = a BY <1>3, <2>11, <2>13, LocalTyped
  <2>15. Fine(m)'
    <3>1. n \in DOMAIN issued' /\ issued'[n].account = a BY <2>3
    <3>2. Follows(m.todo, a, v, u, n) /\ m.todo \in Seq(Step) BY <2>11, <2>12, <2>14
    <3> QED BY <1>7, <2>4, <2>6, <2>8, <2>9, <2>14, <3>1, <3>2, PlanFine
  <2> QED BY <1>2, <1>7, <1>12, <2>2, <2>5, <2>6, <2>10, <2>13, <2>14, <2>15, PutStep
<1> QED BY <1>13, <1>14

------------------------------------------------------------------------------
\* The invariant

LEMMA LinksInit == Init => LinksInv
<1> SUFFICES ASSUME Init PROVE LinksInv OBVIOUS
<1>1. TypeOK
  <2>1. Idle \in Local BY DEF Idle, Local
  <2>2. Len(<<>>) <= MaxTokens /\ <<>> \in Seq(Link) BY LinksAssumption
  <2> QED BY <2>1, <2>2 DEF Init, TypeOK
<1>2. Rows BY DEF Init, Rows, Exists, MailedLinkStands
<1>3. Handlers BY DEF Init, Handlers, Fine, Idle
<1> QED BY <1>1, <1>2, <1>3, InvParts

\* Nothing in the invariant depends on anything but the variables.
LEMMA LinksStutter == LinksInv /\ UNCHANGED vars => LinksInv'
<1> SUFFICES ASSUME LinksInv, UNCHANGED vars PROVE LinksInv' OBVIOUS
<1>1. TypeOK /\ Rows /\ Handlers BY InvParts
<1>2. TypeOK' BY <1>1 DEF TypeOK, vars
<1>3. Extends BY <1>1 DEF TypeOK, Extends, vars
<1>4. Rows' BY <1>1 DEF Rows, Good, Belongs, Exists, MailedLinkStands, StoredIn, vars
<1>5. ASSUME NEW r \in Request PROVE Fine(req[r])'
  <2>1. PICK l : l = req[r] OBVIOUS
  <2>2. l \in Local /\ Fine(l) /\ l.stale \in BOOLEAN
    BY <1>1, <2>1 DEF TypeOK, Handlers, Local
  <2>3. l.account \in Account => Moves(l.account) BY <1>1, KeepMoves DEF vars
  <2>4. row' = row /\ req'[r] = l BY <2>1 DEF vars
  <2>5. Fine(l)' BY <1>1, <1>3, <2>2, <2>3, <2>4, FineStays
  <2> QED BY <2>4, <2>5, FineIs
<1>6. Handlers' BY <1>5 DEF Handlers
<1> QED BY <1>2, <1>4, <1>6, InvParts, PTL

LEMMA LinksStep == LinksInv /\ Next => LinksInv'
<1> SUFFICES ASSUME LinksInv, Next PROVE LinksInv' OBVIOUS
<1>1. PICK r \in Request :
        \/ \E email \in Email, asAdmin, byAdmin \in BOOLEAN : Register(r, email, asAdmin, byAdmin)
        \/ \E a \in Account :
              \/ ResendActivation(r, a) \/ RequestPasswordReset(r, a) \/ SaveOtherColumns(r, a)
              \/ \E email \in Email, code \in BOOLEAN : RequestEmailChange(r, a, email, code)
              \/ \E email \in Email : EditEmail(r, a, email)
              \/ Insert(r, a)
        \/ \E t \in mailed : FollowLink(r, t)
        \/ Save(r) \/ Update(r) \/ Select(r) \/ Mail(r) \/ Fail(r)
  BY DEF Next
<1>2. CASE \E email \in Email, asAdmin, byAdmin \in BOOLEAN : Register(r, email, asAdmin, byAdmin)
  BY <1>2, RegisterStep
<1>3. ASSUME NEW a \in Account, ResendActivation(r, a) PROVE LinksInv' BY <1>3, ResendStep
<1>4. ASSUME NEW a \in Account, RequestPasswordReset(r, a) PROVE LinksInv' BY <1>4, ResetStep
<1>5. ASSUME NEW a \in Account, SaveOtherColumns(r, a) PROVE LinksInv' BY <1>5, SaveOtherStep
<1>6. ASSUME NEW a \in Account, NEW email \in Email, NEW code \in BOOLEAN,
             RequestEmailChange(r, a, email, code)
      PROVE  LinksInv'
  BY <1>6, ChangeStep
<1>7. ASSUME NEW a \in Account, NEW email \in Email, EditEmail(r, a, email) PROVE LinksInv'
  BY <1>7, EditStep
<1>8. ASSUME NEW a \in Account, Insert(r, a) PROVE LinksInv' BY <1>8, InsertStep
<1>9. ASSUME NEW t \in mailed, FollowLink(r, t) PROVE LinksInv'
  BY <1>9, FollowStep, LinksStutter
<1>10. CASE Save(r) BY <1>10, SaveStep
<1>11. CASE Update(r) BY <1>11, UpdateStep
<1>12. CASE Select(r) BY <1>12, SelectStep
<1>13. CASE Mail(r) BY <1>13, MailStep
<1>14. CASE Fail(r) BY <1>14, FailStep
<1> QED
  BY <1>1, <1>2, <1>3, <1>4, <1>5, <1>6, <1>7, <1>8, <1>9, <1>10, <1>11, <1>12, <1>13, <1>14

\* In every order of the steps of user.go's handlers the rows and what the
\* handlers still have to write satisfy the inductive invariant.
THEOREM LinksInvariant == Spec => []LinksInv
<1>1. Init => LinksInv BY LinksInit
<1>2. LinksInv /\ [Next]_vars => LinksInv' BY LinksStep, LinksStutter
<1> QED BY <1>1, <1>2, PTL DEF Spec

\* A link in a column of an account, or about to be written to one, was signed
\* for that account and that column, and the address that waits in NewEmail is
\* the one its change link was asked for (user.go:292), whichever Save is last.
THEOREM LinksAlwaysBelong == Spec => []LinksBelong
<1>1. LinksInv => LinksBelong BY DEF LinksInv
<1> QED BY <1>1, LinksInvariant, PTL

\* A link that was mailed stays current until a newer one of its kind is
\* signed, unless an outdated copy is saved over the row: the tokens are saved
\* before they are mailed (user.go:77 before 81).
THEOREM MailedLinksStand == Spec => []MailedLinkStands
<1>1. LinksInv => MailedLinkStands BY DEF LinksInv
<1> QED BY <1>1, LinksInvariant, PTL

\* Only accounts that an administrator made as one are active: Register
\* (user.go:50) is the one place that sets the column, and no Save of another
\* handler's copy sets it (the links themselves activate nothing: LinksWork).
THEOREM ActivationAlwaysRequired == Spec => []ActivationRequired
<1>1. LinksInv => ActivationRequired BY DEF LinksInv
<1> QED BY <1>1, LinksInvariant, PTL
==============================================================================
