--------------------------- MODULE ApiTokensProofs ----------------------------
(***************************************************************************)
(* What TLAPS proves about ApiTokens, for any number of tokens, carriers,  *)
(* users and requests: ApiInv is an invariant, and answers show carriers   *)
(* by right. Most steps change one handler, so it is enough to look at     *)
(* that one; the others (an operator, the clock, a setter, a Save) change  *)
(* what all handlers are compared with.                                    *)
(***************************************************************************)
EXTENDS ApiTokens, TLAPS

\* What ApiInv says of one handler, and of the rest.
InTime(r) == req[r].pc \in {"query", "more"} => ~req[r].late /\ ~req[r].copy.revoked

Good(r) == req[r] \in Local /\ CopyCurrent(r) /\ QueryOwned(r) /\ InTime(r)

RowsTyped ==
    /\ row \in [Token -> ApiToken \cup {None}]
    /\ expired \subseteq Token
    /\ owner \in [Carrier -> User \cup {None}]
    /\ granted \in [Token -> ApiToken \cup {None}]
    /\ clobbered \subseteq Token

Slots == req \in [Request -> Local]

LEMMA InvIsGood == ApiInv <=> Slots /\ RowsTyped /\ GrantsStand /\ \A r \in Request : Good(r)
BY DEF ApiInv, TypeOK, RowsTyped, Slots, GrantsStand, NoneServedLate, Good, InTime

LEMMA NothingShown == Nothing \in [Carrier -> 0 .. 2] /\ \A c \in Carrier : Nothing[c] = 0
BY DEF Nothing

LEMMA OnceTyped == ASSUME NEW C PROVE Once(C) \in [Carrier -> 0 .. 1]
BY DEF Once

LEMMA IdleTyped == Idle \in Local /\ Idle.pc = "idle" /\ Idle.shown = Nothing
BY NothingShown DEF Idle, Local, NoRights, ApiToken

\* A handler without a request has nothing to answer for.
LEMMA FreeIsGood == ASSUME NEW r \in Request, req[r] \in Local, req[r].pc = "idle" PROVE Good(r)
BY DEF Good, CopyCurrent, QueryOwned, InTime

\* The rest does not change and handlers other than r do not.
Only(r) ==
    /\ UNCHANGED <<row, expired, owner, granted, clobbered>>
    /\ \A q \in Request \ {r} : req'[q] = req[q]
    /\ req' \in [Request -> Local]

LEMMA OnlyOne ==
    ASSUME ApiInv, NEW r \in Request, Only(r), Good(r)'
    PROVE  ApiInv'
<1>1. Slots /\ RowsTyped /\ GrantsStand /\ \A q \in Request : Good(q) BY InvIsGood
<1>2. RowsTyped' BY <1>1 DEF RowsTyped, Only
<1>3. GrantsStand' BY <1>1 DEF GrantsStand, Only
<1>4. ASSUME NEW q \in Request, q # r PROVE Good(q)'
  <2>1. req'[q] = req[q] BY <1>4 DEF Only
  <2>2. Good(q) BY <1>1
  <2>3. Own(req[q].user)' = Own(req[q].user) BY <2>1 DEF Own, Only
  <2> QED BY <2>1, <2>2, <2>3 DEF Good, CopyCurrent, QueryOwned, InTime, Exists, Only
<1>5. Slots' BY DEF Slots, Only
<1>6. \A q \in Request : Good(q)' BY <1>4
<1> QED
  BY <1>2, <1>3, <1>5, <1>6
  DEF ApiInv, TypeOK, RowsTyped, Slots, NoneServedLate, Good, InTime

\* A handler ends, with an answer or without one.
LEMMA EndsGood ==
    ASSUME ApiInv, NEW r \in Request, NEW shown \in [Carrier -> 0 .. 2],
           req' = [req EXCEPT ![r] = [Idle EXCEPT !.shown = shown]],
           UNCHANGED <<row, expired, owner, granted, clobbered>>
    PROVE  ApiInv'
<1> DEFINE local == [Idle EXCEPT !.shown = shown]
<1>1. local \in Local /\ local.pc = "idle" BY IdleTyped DEF Idle, Local
<1>2. req' = [req EXCEPT ![r] = local] OBVIOUS
<1> HIDE DEF local
<1>3. req \in [Request -> Local] BY DEF ApiInv, TypeOK
<1>4. Only(r) /\ req'[r] = local BY <1>1, <1>2, <1>3 DEF Only
<1>5. Good(r)' BY <1>1, <1>4 DEF Good, CopyCurrent, QueryOwned, InTime
<1> QED BY <1>4, <1>5, OnlyOne

LEMMA EndsIdle ==
    ASSUME ApiInv, NEW r \in Request, req' = [req EXCEPT ![r] = Idle],
           UNCHANGED <<row, expired, owner, granted, clobbered>>
    PROVE  ApiInv'
<1>1. [Idle EXCEPT !.shown = Idle.shown] = Idle BY DEF Idle
<1>2. req' = [req EXCEPT ![r] = [Idle EXCEPT !.shown = Nothing]] BY <1>1, IdleTyped
<1> QED BY <1>2, EndsGood, NothingShown

------------------------------------------------------------------------------
\* One lemma per action

LEMMA IsBoolean == ASSUME NEW t, NEW S PROVE \E b \in BOOLEAN : b = (t \in S)
<1> WITNESS (t \in S) \in BOOLEAN
<1> QED OBVIOUS

LEMMA AuthenticateInv ==
    ASSUME ApiInv, ApiAssumption, NEW r \in Request, NEW t \in Token, AuthenticateApiToken(r, t)
    PROVE  ApiInv'
<1>0. PICK late \in BOOLEAN : late = (t \in expired) BY IsBoolean
<1> DEFINE local == [Idle EXCEPT !.pc = "check", !.token = t, !.user = UserOf[t],
                                 !.copy = row[t], !.late = late]
<1>1. row[t] \in ApiToken /\ row[t] # None
  BY DEF AuthenticateApiToken, Exists, ApiInv, TypeOK
<1>2. UserOf[t] \in User BY DEF ApiAssumption
<1>3. /\ local \in Local /\ local.pc = "check" /\ local.token = t /\ local.user = UserOf[t]
      /\ local.copy = row[t] /\ local.late = late /\ local.shown = Nothing
  BY <1>1, <1>2, IdleTyped DEF Idle, Local
<1>4. req' = [req EXCEPT ![r] = local] BY <1>0 DEF AuthenticateApiToken
<1> HIDE DEF local
<1>5. req \in [Request -> Local] BY DEF ApiInv, TypeOK
<1>6. Only(r) /\ req'[r] = local BY <1>3, <1>4, <1>5 DEF Only, AuthenticateApiToken
<1>7. Good(r)'
  BY <1>0, <1>1, <1>2, <1>3, <1>6 DEF Good, CopyCurrent, QueryOwned, InTime, Exists, Only
<1> QED BY <1>6, <1>7, OnlyOne

LEMMA AuthorizeInv ==
    ASSUME ApiInv, NEW r \in Request, NEW u \in User, Authorize(r, u)
    PROVE  ApiInv'
<1> DEFINE local == [Idle EXCEPT !.pc = "query", !.user = u, !.owned = Own(u)]
<1>1. Own(u) \subseteq Carrier BY DEF Own
<1>2. /\ local \in Local /\ local.pc = "query" /\ local.user = u /\ local.owned = Own(u)
      /\ local.copy = NoRights /\ local.late = FALSE /\ local.shown = Nothing
  BY <1>1, IdleTyped DEF Idle, Local
<1>3. req' = [req EXCEPT ![r] = local] BY DEF Authorize
<1> HIDE DEF local
<1>4. req \in [Request -> Local] BY DEF ApiInv, TypeOK
<1>5. Only(r) /\ req'[r] = local BY <1>2, <1>3, <1>4 DEF Only, Authorize
<1>6. Own(u)' = Own(u) BY <1>5 DEF Own, Only
<1>7. Good(r)' BY <1>2, <1>5, <1>6 DEF Good, CopyCurrent, QueryOwned, InTime, NoRights
<1> QED BY <1>5, <1>7, OnlyOne

LEMMA CheckInv ==
    ASSUME ApiInv, NEW r \in Request, NEW t \in Token, CheckTokenExpired(r, t)
    PROVE  ApiInv'
<1>1. CASE req[r].copy.revoked
  <2>1. req' = [req EXCEPT ![r] = Idle] /\ UNCHANGED <<row, expired, owner, granted, clobbered>>
    BY <1>1 DEF CheckTokenExpired
  <2> QED BY <2>1, EndsIdle
<1>2. CASE ~req[r].copy.revoked
  <2>0. PICK past \in BOOLEAN : past = (t \in expired) BY IsBoolean
  <2> DEFINE local == [req[r] EXCEPT !.pc = "save", !.copy.revoked = past]
  <2>1. Good(r) /\ req \in [Request -> Local] BY InvIsGood DEF Slots
  <2>2. req' = [req EXCEPT ![r] = local] BY <1>2, <2>0 DEF CheckTokenExpired
  <2>3. req[r].pc = "check" /\ req[r].token = t /\ req[r] \in Local /\ req[r].copy \in ApiToken
    BY <2>1 DEF CheckTokenExpired, Good, Local
  <2>4. local.copy = [req[r].copy EXCEPT !.revoked = past] BY <2>3 DEF Local
  <2>5. local.copy \in ApiToken /\ local.copy.revoked = past
        /\ local.copy.read = req[r].copy.read
    BY <2>3, <2>4 DEF ApiToken
  <2>6. /\ local \in Local /\ local.pc = "save" /\ local.token = t /\ local.user = req[r].user
        /\ local.late = req[r].late /\ local.stale = req[r].stale /\ local.shown = req[r].shown
    BY <2>3, <2>5 DEF Local
  <2>7. ~req[r].stale =>
            \/ local.copy = row[t]
            \/ t \in expired /\ local.copy = [row[t] EXCEPT !.revoked = TRUE]
    <3>1. HAVE ~req[r].stale
    <3>2. req[r].copy = row[t] BY <2>1, <2>3, <3>1 DEF Good, CopyCurrent
    <3>3. CASE t \in expired
      <4>1. local.copy = [row[t] EXCEPT !.revoked = TRUE] BY <2>0, <2>4, <3>2, <3>3
      <4> QED BY <3>3, <4>1
    <3>4. CASE t \notin expired
      <4>1. row[t].revoked = FALSE BY <1>2, <2>3, <3>2 DEF ApiToken
      <4>2. local.copy = row[t] BY <2>0, <2>3, <2>5, <3>2, <3>4, <4>1 DEF ApiToken
      <4> QED BY <4>2
    <3> QED BY <3>3, <3>4
  <2> HIDE DEF local
  <2>8. Only(r) /\ req'[r] = local BY <2>1, <2>2, <2>6 DEF Only, CheckTokenExpired
  <2>9. CopyCurrent(r)'
    <3>1. t \in Token /\ Exists(t) /\ req[r].user \in User /\ (req[r].late => t \in expired)
      BY <2>1, <2>3 DEF Good, CopyCurrent
    <3> QED BY <2>0, <2>5, <2>6, <2>7, <2>8, <3>1 DEF CopyCurrent, Exists, Only
  <2>10. req[r].shown = Nothing BY <2>1, <2>3 DEF Good, QueryOwned
  <2>11. Good(r)' BY <2>6, <2>8, <2>9, <2>10 DEF Good, QueryOwned, InTime
  <2> QED BY <2>8, <2>11, OnlyOne
<1> QED BY <1>1, <1>2

LEMMA ListInv == ASSUME ApiInv, NEW r \in Request, ListCarriers(r) PROVE ApiInv'
<1>1. CASE SeesAll(r)
  <2>1. Once(Carrier) \in [Carrier -> 0 .. 2] BY OnceTyped
  <2> QED BY <1>1, <2>1, EndsGood DEF ListCarriers, Answer
<1>2. CASE ~SeesAll(r)
  <2> DEFINE shown == Once(Own(req[r].user))
             local == [req[r] EXCEPT !.pc = "more", !.shown = shown]
  <2>1. Good(r) /\ req \in [Request -> Local] BY InvIsGood DEF Slots
  <2>2. shown \in [Carrier -> 0 .. 1] BY OnceTyped
  <2>3. shown \in [Carrier -> 0 .. 2] /\ \A c \in Carrier : shown[c] <= 1 BY <2>2
  <2> HIDE DEF shown
  <2>4. req[r] \in Local /\ req[r].pc = "query" BY <2>1 DEF ListCarriers, Good
  <2>5. /\ local \in Local /\ local.pc = "more" /\ local.user = req[r].user /\ local.shown = shown
        /\ local.owned = req[r].owned /\ local.late = req[r].late /\ local.copy = req[r].copy
    BY <2>3, <2>4 DEF Local
  <2>6. req' = [req EXCEPT ![r] = local] BY <1>2 DEF ListCarriers, shown
  <2> HIDE DEF local
  <2>7. Only(r) /\ req'[r] = local BY <1>2, <2>1, <2>5, <2>6 DEF Only, ListCarriers
  <2>8. Own(req[r].user)' = Own(req[r].user)
    <3>1. PICK u : u = req[r].user OBVIOUS
    <3>2. Own(u)' = Own(u) BY <2>7 DEF Own, Only
    <3>3. req'[r].user = u BY <2>5, <2>7, <3>1
    <3> QED BY <3>1, <3>2, <3>3 DEF Own, Only
  <2>9. QueryOwned(r)' BY <2>1, <2>3, <2>4, <2>5, <2>7, <2>8 DEF Good, QueryOwned
  <2>10. CopyCurrent(r)' /\ InTime(r)' BY <2>1, <2>4, <2>5, <2>7 DEF Good, CopyCurrent, InTime
  <2>11. Good(r)' BY <2>5, <2>7, <2>9, <2>10 DEF Good
  <2> QED BY <2>7, <2>11, OnlyOne
<1> QED BY <1>1, <1>2

LEMMA ListMoreInv == ASSUME ApiInv, NEW r \in Request, ListMore(r) PROVE ApiInv'
<1> DEFINE shown == [c \in Carrier |-> req[r].shown[c] + Once(List(req[r].copy))[c]]
<1>1. Good(r) BY InvIsGood
<1>2. Once(List(req[r].copy)) \in [Carrier -> 0 .. 1] BY OnceTyped
<1>3. \A c \in Carrier : req[r].shown[c] \in 0 .. 1 BY <1>1 DEF ListMore, Good, QueryOwned, Local
<1>4. shown \in [Carrier -> 0 .. 2] BY <1>2, <1>3
<1> QED BY <1>4, EndsGood DEF ListMore, Answer

LEMMA GetInv ==
    ASSUME ApiInv, NEW r \in Request, NEW c \in Carrier, GetCarrier(r, c) \/ RefuseCarrier(r, c)
    PROVE  ApiInv'
<1>1. Once({c}) \in [Carrier -> 0 .. 2] BY OnceTyped
<1>2. CASE GetCarrier(r, c) BY <1>1, <1>2, EndsGood DEF GetCarrier, Answer
<1>3. CASE RefuseCarrier(r, c) BY <1>3, EndsIdle DEF RefuseCarrier
<1> QED BY <1>2, <1>3

LEMMA FailInv == ASSUME ApiInv, NEW r \in Request, Fail(r) PROVE ApiInv'
BY EndsIdle DEF Fail

\* A step that may outdate copies: the handlers that are about to save token t
\* see that its row becomes u. Saving(q, t) and the row are what counts.
LEMMA OutdateGood ==
    ASSUME ApiInv, NEW t \in Token, NEW u \in ApiToken, NEW q \in Request,
           row' = [row EXCEPT ![t] = u],
           req'[q] = Outdate(t, u)[q],
           UNCHANGED <<expired, owner>>,
           u # None, u = row[t] \/ Exists(t)
    PROVE  Good(q)'
<1>1. Good(q) /\ RowsTyped BY InvIsGood
<1>2. PICK st \in BOOLEAN : st = (req[q].stale \/ (Saving(q, t) /\ u # row[t]))
  <2>1. CASE req[q].stale \/ (Saving(q, t) /\ u # row[t]) BY <2>1
  <2>2. CASE ~(req[q].stale \/ (Saving(q, t) /\ u # row[t])) BY <2>2
  <2> QED BY <2>1, <2>2
<1>3. req'[q] = [req[q] EXCEPT !.stale = st] BY <1>2 DEF Outdate
<1>4. /\ req'[q] \in Local /\ req'[q].pc = req[q].pc /\ req'[q].token = req[q].token
      /\ req'[q].user = req[q].user /\ req'[q].copy = req[q].copy /\ req'[q].shown = req[q].shown
      /\ req'[q].late = req[q].late /\ req'[q].owned = req[q].owned /\ req'[q].stale = st
  BY <1>1, <1>3 DEF Good, Local
<1>5. QueryOwned(q)' /\ InTime(q)'
  <2>1. PICK v : v = req[q].user OBVIOUS
  <2>2. Own(v)' = Own(v) BY DEF Own
  <2> QED BY <1>1, <1>4, <2>1, <2>2 DEF Good, QueryOwned, InTime
<1>6. CopyCurrent(q)'
  <2> SUFFICES ASSUME req[q].pc \in {"check", "save"} PROVE CopyCurrent(q)' BY <1>4 DEF CopyCurrent
  <2>1. PICK s : s = req[q].token OBVIOUS
  <2>2. /\ s \in Token /\ row[s] # None /\ req[q].user \in User
        /\ req[q].late => s \in expired /\ (req[q].pc = "save" => req[q].copy.revoked)
        /\ ~req[q].stale =>
              \/ req[q].copy = row[s]
              \/ /\ req[q].pc = "save" /\ s \in expired
                 /\ req[q].copy = [row[s] EXCEPT !.revoked = TRUE]
    BY <1>1, <2>1 DEF Good, CopyCurrent, Exists
  <2>3. row'[s] # None BY <1>1, <2>2 DEF RowsTyped
  <2>4. ~st => ~req[q].stale /\ row'[s] = row[s]
    BY <1>1, <1>2, <2>1, <2>2 DEF RowsTyped, Saving
  <2>5. req'[q].late => s \in expired' /\ (req'[q].pc = "save" => req'[q].copy.revoked)
    BY <1>4, <2>2
  <2>6. ASSUME ~req'[q].stale
        PROVE  \/ req'[q].copy = row'[s]
               \/ /\ req'[q].pc = "save" /\ s \in expired'
                  /\ req'[q].copy = [row'[s] EXCEPT !.revoked = TRUE]
    <3>1. ~st BY <1>4, <2>6
    <3>2. ~req[q].stale /\ row'[s] = row[s] BY <2>4, <3>1
    <3> QED BY <1>4, <2>2, <3>2
  <2>7. req'[q].token = s /\ req'[q].user \in User BY <1>4, <2>1, <2>2
  <2> QED BY <2>2, <2>3, <2>5, <2>6, <2>7 DEF CopyCurrent, Exists
<1> QED BY <1>4, <1>5, <1>6 DEF Good

\* The parts make up the invariant.
LEMMA Together ==
    ASSUME ApiInv, RowsTyped', GrantsStand', req' \in [Request -> Local],
           \A q \in Request : Good(q)'
    PROVE  ApiInv'
BY DEF ApiInv, TypeOK, RowsTyped, NoneServedLate, Good, InTime

LEMMA RegisterInv == ASSUME ApiInv, NEW t \in Token, RegisterAPIToken(t) PROVE ApiInv'
<1> USE DEF RegisterAPIToken
<1>1. RowsTyped /\ GrantsStand /\ Slots /\ \A q \in Request : Good(q) BY InvIsGood
<1>2. NoRights \in ApiToken BY DEF NoRights, ApiToken
<1>3. RowsTyped' BY <1>1, <1>2 DEF RowsTyped
<1>4. GrantsStand'
  <2>1. ASSUME NEW s \in Token, s # t PROVE row'[s] = row[s] /\ granted'[s] = granted[s]
    BY <1>1, <2>1 DEF RowsTyped
  <2>2. row'[t] = NoRights /\ granted'[t] = NoRights BY <1>1 DEF RowsTyped
  <2> QED BY <1>1, <2>1, <2>2 DEF GrantsStand
<1>5. ASSUME NEW q \in Request PROVE Good(q)'
  <2>1. Good(q) BY <1>1
  <2>2. PICK v, s : v = req[q].user /\ s = req[q].token OBVIOUS
  <2>3. Own(v)' = Own(v) BY DEF Own
  <2>4. s \in Token /\ row[s] # None => row'[s] = row[s] BY <1>1 DEF RowsTyped, Exists
  <2> QED BY <2>1, <2>2, <2>3, <2>4 DEF Good, CopyCurrent, QueryOwned, InTime, Exists
<1> QED BY <1>1, <1>3, <1>4, <1>5, Together DEF Slots

LEMMA AdministerInv ==
    ASSUME ApiInv, ApiAssumption, NEW t \in Token, NEW u \in ApiToken, u # None, Administer(t, u)
    PROVE  ApiInv'
<1> USE DEF Administer
<1>1. RowsTyped /\ GrantsStand /\ Slots /\ \A q \in Request : Good(q) BY InvIsGood
<1>2. RowsTyped' BY <1>1 DEF RowsTyped
<1>3. GrantsStand'
  <2>1. ASSUME NEW s \in Token, s # t PROVE row'[s] = row[s] /\ granted'[s] = granted[s]
    BY <1>1, <2>1 DEF RowsTyped
  <2>2. row'[t] = u /\ granted'[t] = u BY <1>1 DEF RowsTyped
  <2> QED BY <1>1, <2>1, <2>2 DEF GrantsStand
<1>4. ASSUME NEW q \in Request PROVE Good(q)'
  <2>1. req'[q] = Outdate(t, u)[q] OBVIOUS
  <2> QED BY <2>1, OutdateGood
<1>5. req' \in [Request -> Local] BY <1>4 DEF Outdate, Good
<1> QED BY <1>2, <1>3, <1>4, <1>5, Together

LEMMA ExpireInv == ASSUME ApiInv, NEW t \in Token, Expire(t) PROVE ApiInv'
<1> USE DEF Expire
<1>1. RowsTyped /\ GrantsStand /\ Slots /\ \A q \in Request : Good(q) BY InvIsGood
<1>2. RowsTyped' /\ GrantsStand' BY <1>1 DEF RowsTyped, GrantsStand
<1>3. ASSUME NEW q \in Request PROVE Good(q)'
  <2>1. Good(q) BY <1>1
  <2>2. PICK v : v = req[q].user OBVIOUS
  <2>3. Own(v)' = Own(v) BY DEF Own
  <2> QED BY <2>1, <2>2, <2>3 DEF Good, CopyCurrent, QueryOwned, InTime, Exists
<1> QED BY <1>1, <1>2, <1>3, Together DEF Slots

LEMMA SetOwnerInv ==
    ASSUME ApiInv, NEW c \in Carrier, NEW u \in User \cup {None}, SetOwner(c, u)
    PROVE  ApiInv'
<1> USE DEF SetOwner
<1>1. RowsTyped /\ GrantsStand /\ Slots /\ \A q \in Request : Good(q) BY InvIsGood
<1>2. RowsTyped' BY <1>1 DEF RowsTyped
<1>3. GrantsStand' BY <1>1 DEF GrantsStand
<1>4. ASSUME NEW q \in Request PROVE Good(q)'
  <2> DEFINE owned == req[q].owned \cup (IF Asks(q, u) THEN {c} ELSE {})
  <2>1. Good(q) BY <1>1
  <2>2. owned \subseteq Carrier BY <2>1 DEF Good, Local
  <2>3. req'[q] = [req[q] EXCEPT !.owned = owned] OBVIOUS
  <2>4. req[q].owned \subseteq owned /\ (Asks(q, u) => c \in owned) OBVIOUS
  <2> HIDE DEF owned
  <2>5. /\ req'[q] \in Local /\ req'[q].pc = req[q].pc /\ req'[q].token = req[q].token
        /\ req'[q].user = req[q].user /\ req'[q].copy = req[q].copy /\ req'[q].shown = req[q].shown
        /\ req'[q].late = req[q].late /\ req'[q].owned = owned /\ req'[q].stale = req[q].stale
    BY <2>1, <2>2, <2>3 DEF Good, Local
  <2>6. CopyCurrent(q)' /\ InTime(q)'
    <3>1. InTime(q)' BY <2>1, <2>5 DEF Good, InTime
    <3>2. row' = row /\ expired' = expired OBVIOUS
    <3>3. CopyCurrent(q) BY <2>1 DEF Good
    <3>4. CopyCurrent(q)' BY <2>5, <3>2, <3>3 DEF CopyCurrent, Exists
    <3> QED BY <3>1, <3>4
  <2>7. PICK v : v = req[q].user OBVIOUS
  <2>8. Own(v)' \subseteq Own(v) \cup (IF v = u THEN {c} ELSE {})
    BY <1>1 DEF Own, RowsTyped
  <2>9. req[q].pc \in {"query", "more"} => Own(v)' \subseteq owned
    BY <2>1, <2>4, <2>7, <2>8 DEF Good, QueryOwned, Asks
  <2>10. QueryOwned(q)' BY <2>1, <2>5, <2>7, <2>9 DEF Good, QueryOwned
  <2> QED BY <2>5, <2>6, <2>10 DEF Good
<1>5. req' \in [Request -> Local] BY <1>4 DEF Good
<1> QED BY <1>2, <1>3, <1>4, <1>5, Together

\* A copy that is not outdated is what an operator wrote, or that but revoked
\* in time; so is the row when it is saved.
LEMMA SaveInv ==
    ASSUME ApiInv, ApiAssumption, NEW r \in Request, NEW t \in Token, SaveToken(r, t),
           req[r].copy # None
    PROVE  ApiInv'
<1> USE DEF SaveToken
<1> DEFINE u == req[r].copy
<1>1. RowsTyped /\ GrantsStand /\ Slots /\ \A q \in Request : Good(q) BY InvIsGood
<1>2. Good(r) /\ u \in ApiToken BY <1>1 DEF Good, Local
<1>3. /\ row[t] # None /\ req[r].user \in User
      /\ req[r].late => u.revoked
      /\ ~req[r].stale =>
            \/ u = row[t]
            \/ t \in expired /\ u = [row[t] EXCEPT !.revoked = TRUE]
  <2>1. CopyCurrent(r) /\ req[r].pc = "save" /\ req[r].token = t BY <1>2 DEF Good
  <2>2. row[t] # None /\ req[r].user \in User BY <2>1 DEF CopyCurrent, Exists
  <2>3. req[r].late => u.revoked BY <2>1 DEF CopyCurrent
  <2>4. ~req[r].stale =>
            \/ u = row[t]
            \/ t \in expired /\ u = [row[t] EXCEPT !.revoked = TRUE]
    BY <2>1 DEF CopyCurrent
  <2> QED BY <2>2, <2>3, <2>4
<1>4. RowsTyped' BY <1>1, <1>2 DEF RowsTyped
<1>5. GrantsStand'
  <2>1. ASSUME NEW s \in Token \ clobbered', s # t
        PROVE  \/ row'[s] = granted'[s]
               \/ s \in expired' /\ granted'[s] # None
                  /\ row'[s] = [granted'[s] EXCEPT !.revoked = TRUE]
    <3>1. s \in Token \ clobbered /\ row'[s] = row[s] BY <1>1, <2>1 DEF RowsTyped
    <3> QED BY <1>1, <3>1 DEF GrantsStand
  <2>2. ASSUME t \notin clobbered'
        PROVE  \/ row'[t] = granted'[t]
               \/ t \in expired' /\ granted'[t] # None
                  /\ row'[t] = [granted'[t] EXCEPT !.revoked = TRUE]
    <3>1. ~req[r].stale /\ t \notin clobbered BY <2>2
    <3>2. row'[t] = u BY <1>1 DEF RowsTyped
    <3>3. \/ row[t] = granted[t]
          \/ t \in expired /\ granted[t] # None /\ row[t] = [granted[t] EXCEPT !.revoked = TRUE]
      BY <1>1, <3>1 DEF GrantsStand
    <3>4. CASE u = row[t] BY <3>2, <3>3, <3>4
    <3>5. CASE t \in expired /\ u = [row[t] EXCEPT !.revoked = TRUE]
      <4>1. granted[t] # None /\ granted[t] \in ApiToken BY <1>1, <1>3, <3>3 DEF RowsTyped
      <4>2. u = [granted[t] EXCEPT !.revoked = TRUE] BY <3>3, <3>5, <4>1 DEF ApiToken
      <4> QED BY <3>2, <3>5, <4>1, <4>2
    <3> QED BY <1>3, <3>1, <3>4, <3>5
  <2> QED BY <2>1, <2>2 DEF GrantsStand
<1>6. ASSUME NEW q \in Request, q # r PROVE Good(q)'
  <2>1. req'[q] = Outdate(t, u)[q] BY <1>6 DEF Outdate
  <2>2. Exists(t) BY <1>3 DEF Exists
  <2> QED BY <1>2, <2>1, <2>2, OutdateGood
<1>7. Good(r)'
  <2>1. r \in DOMAIN Outdate(t, u) BY DEF Outdate
  <2>2. CASE u.revoked
    <3>1. req'[r] = Idle BY <2>1, <2>2
    <3> QED BY <3>1, IdleTyped DEF Good, CopyCurrent, QueryOwned, InTime
  <2>3. CASE ~u.revoked
    <3>1. req'[r] = Serve(r) BY <2>1, <2>3
    <3>2. PICK v : v = req[r].user OBVIOUS
    <3>3. Own(v) \subseteq Carrier /\ Own(v)' = Own(v) BY DEF Own
    <3>4. req[r].shown = Nothing BY <1>2 DEF Good, QueryOwned
    <3>5. /\ Serve(r) \in Local /\ Serve(r).pc = "query" /\ Serve(r).user = v
          /\ Serve(r).owned = Own(v) /\ Serve(r).shown = Nothing
          /\ Serve(r).copy = u /\ Serve(r).late = req[r].late
      BY <1>2, <3>2, <3>3, <3>4 DEF Good, Local, Serve
    <3>6. ~req[r].late BY <1>3, <2>3
    <3> QED BY <1>3, <2>3, <3>1, <3>2, <3>3, <3>5, <3>6 DEF Good, CopyCurrent, QueryOwned, InTime
  <2> QED BY <2>2, <2>3
<1>8. req' \in [Request -> Local] BY <1>6, <1>7 DEF Outdate, Good
<1> QED BY <1>4, <1>5, <1>6, <1>7, <1>8, Together

------------------------------------------------------------------------------
\* Theorems

\* No step breaks the invariant.
LEMMA ApiStep == ASSUME ApiInv, ApiAssumption, Next PROVE ApiInv'
<1>1. ASSUME NEW r \in Request, NEW t \in Token, SaveToken(r, t) PROVE ApiInv'
  <2>1. req[r].copy \in ApiToken BY DEF ApiInv, TypeOK, Local
  <2>2. req[r].copy # None BY <2>1 DEF ApiAssumption
  <2> QED BY <1>1, <2>2, SaveInv
<1>2. ASSUME NEW t \in Token, NEW u \in ApiToken, Administer(t, u) PROVE ApiInv'
  <2>1. u # None BY DEF ApiAssumption
  <2> QED BY <1>2, <2>1, AdministerInv
<1> QED
  BY <1>1, <1>2, RegisterInv, ExpireInv, SetOwnerInv, AuthenticateInv, AuthorizeInv, CheckInv,
     ListInv, ListMoreInv, GetInv, FailInv
  DEF Next

\* Initially there are neither tokens nor requests.
LEMMA ApiInit == ASSUME Init PROVE ApiInv
<1> USE DEF Init
<1>1. RowsTyped BY DEF RowsTyped
<1>2. GrantsStand BY DEF GrantsStand
<1>3. Slots BY IdleTyped DEF Slots
<1>4. ASSUME NEW r \in Request PROVE Good(r)
  <2>1. req[r] = Idle OBVIOUS
  <2> QED BY <2>1, IdleTyped, FreeIsGood
<1> QED BY <1>1, <1>2, <1>3, <1>4, InvIsGood

LEMMA ApiStutters == ASSUME ApiInv, UNCHANGED vars PROVE ApiInv'
<1> USE DEF vars
<1>1. RowsTyped /\ GrantsStand /\ Slots /\ \A q \in Request : Good(q) BY InvIsGood
<1>2. RowsTyped' /\ GrantsStand' BY <1>1 DEF RowsTyped, GrantsStand
<1>3. ASSUME NEW q \in Request PROVE Good(q)'
  <2>1. PICK v : v = req[q].user OBVIOUS
  <2>2. Own(v)' = Own(v) BY DEF Own
  <2> QED BY <1>1, <2>1, <2>2 DEF Good, CopyCurrent, QueryOwned, InTime, Exists
<1> QED BY <1>1, <1>2, <1>3, Together DEF Slots

\* The inductive invariant of API tokens and their requests (token.go:43-98,
\* index.go:37-66, getter.go:16-84).
THEOREM ApiInvariant == Spec => []ApiInv
<1>1. Init => ApiInv BY ApiInit
<1>2. ApiInv /\ [Next]_vars => ApiInv' BY ApiStep, ApiStutters, ApiAssumption
<1> QED BY <1>1, <1>2, PTL DEF Spec

\* Only a Save of an outdated copy undoes what an operator did to a token
\* (checkTokenExpired, token.go:93).
THEOREM GrantsAlwaysStand == Spec => []GrantsStand
<1>1. ApiInv => GrantsStand BY DEF ApiInv
<1> QED BY <1>1, ApiInvariant, PTL

\* A token that had expired when the request came, or that was read as
\* revoked, opens nothing (checkTokenExpired, token.go:84-98).
THEOREM NoneEverServedLate == Spec => []NoneServedLate
<1>1. ApiInv => NoneServedLate BY DEF ApiInv
<1> QED BY <1>1, ApiInvariant, PTL

\* A step that adds a carrier to an answer has a right to it.
LEMMA StepShowsByRight ==
    ASSUME ApiInv, ApiAssumption, Next, NEW r \in Request, NEW c \in Carrier,
           req'[r].shown[c] > req[r].shown[c]
    PROVE  SeesAll(r) \/ c \in req[r].owned \/ c \in List(req[r].copy)
<1>1. Good(r) /\ Slots BY InvIsGood
<1>2. req[r].shown \in [Carrier -> 0 .. 2] BY <1>1 DEF Good, Local
<1>3. req'[r].shown # req[r].shown /\ req'[r].shown[c] # 0 BY <1>2
<1>4. req'[r].shown # Nothing BY <1>3, NothingShown
<1>5. ~\E q \in Request : q # r /\ \E local : req' = [req EXCEPT ![q] = local]
  <2>1. ASSUME NEW q \in Request, NEW local, q # r, req' = [req EXCEPT ![q] = local] PROVE FALSE
    <3>1. req'[r] = req[r] BY <1>1, <2>1 DEF Slots
    <3> QED BY <1>3, <3>1
  <2> QED BY <2>1
<1>6. ASSUME NEW u, u = req[r].user, c \in Own(u), req[r].pc = "query" PROVE c \in req[r].owned
  BY <1>1, <1>6 DEF Good, QueryOwned
<1>7. ASSUME NEW t \in Token, NEW u, req' = Outdate(t, u) PROVE FALSE
  <2>1. req'[r] = [req[r] EXCEPT !.stale = req'[r].stale] BY <1>1, <1>7 DEF Outdate, Good, Local
  <2>2. req'[r].shown = req[r].shown BY <1>1, <2>1 DEF Good, Local
  <2> QED BY <1>3, <2>2
<1>8. ASSUME NEW t \in Token, RegisterAPIToken(t) \/ Expire(t) PROVE FALSE
  BY <1>3, <1>8 DEF RegisterAPIToken, Expire
<1>9. ASSUME NEW t \in Token, NEW u \in ApiToken, Administer(t, u) PROVE FALSE
  BY <1>7, <1>9 DEF Administer
<1>10. ASSUME NEW d \in Carrier, NEW u \in User \cup {None}, SetOwner(d, u) PROVE FALSE
  <2>1. \E owned : req'[r] = [req[r] EXCEPT !.owned = owned] BY <1>10 DEF SetOwner
  <2>2. req'[r].shown = req[r].shown BY <1>1, <2>1 DEF Good, Local
  <2> QED BY <1>3, <2>2
<1>11. ASSUME NEW q \in Request, NEW t \in Token, AuthenticateApiToken(q, t) PROVE FALSE
  <2>1. q = r BY <1>5, <1>11 DEF AuthenticateApiToken
  <2>2. req'[r].shown = Idle.shown BY <1>1, <1>11, <2>1, IdleTyped DEF AuthenticateApiToken, Slots, Local
  <2> QED BY <1>4, <2>2, IdleTyped
<1>12. ASSUME NEW q \in Request, NEW u \in User, Authorize(q, u) PROVE FALSE
  <2>1. q = r BY <1>5, <1>12 DEF Authorize
  <2>2. req'[r].shown = Idle.shown BY <1>1, <1>12, <2>1, IdleTyped DEF Authorize, Slots, Local
  <2> QED BY <1>4, <2>2, IdleTyped
<1>13. ASSUME NEW q \in Request, NEW t \in Token, CheckTokenExpired(q, t) PROVE FALSE
  <2>1. q = r BY <1>5, <1>13 DEF CheckTokenExpired
  <2>2. req'[r] = Idle \/ req'[r].shown = req[r].shown
    BY <1>1, <1>13, <2>1 DEF CheckTokenExpired, Slots, Good, Local
  <2> QED BY <1>3, <1>4, <2>2, IdleTyped
<1>14. ASSUME NEW q \in Request, NEW t \in Token, SaveToken(q, t) PROVE FALSE
  <2>1. CASE q = r
    <3>1. r \in DOMAIN Outdate(t, req[r].copy) BY DEF Outdate
    <3>2. req'[r] = Idle \/ req'[r] = Serve(r) BY <1>14, <2>1, <3>1 DEF SaveToken
    <3>3. Serve(r).shown = req[r].shown BY <1>1 DEF Serve, Good, Local
    <3> QED BY <1>3, <1>4, <3>2, <3>3, IdleTyped
  <2>2. CASE q # r
    <3>1. req'[r] = Outdate(t, req[q].copy)[r] BY <1>14, <2>2 DEF SaveToken, Outdate
    <3>2. \E st : req'[r] = [req[r] EXCEPT !.stale = st] BY <3>1 DEF Outdate
    <3>3. req'[r].shown = req[r].shown BY <1>1, <3>2 DEF Good, Local
    <3> QED BY <1>3, <3>3
  <2> QED BY <2>1, <2>2
<1>15. ASSUME NEW q \in Request, NEW d \in Carrier, RefuseCarrier(q, d) PROVE FALSE
  <2>1. req' = [req EXCEPT ![q] = Idle] BY <1>15 DEF RefuseCarrier
  <2>2. q = r BY <1>5, <2>1
  <2>3. req'[r] = Idle BY <1>1, <2>1, <2>2 DEF Slots
  <2> QED BY <1>4, <2>3, IdleTyped
<1>16. ASSUME NEW q \in Request, Fail(q) PROVE FALSE
  <2>1. req' = [req EXCEPT ![q] = Idle] BY <1>16 DEF Fail
  <2>2. q = r BY <1>5, <2>1
  <2>3. req'[r] = Idle BY <1>1, <2>1, <2>2 DEF Slots
  <2> QED BY <1>4, <2>3, IdleTyped
<1>17. ASSUME NEW q \in Request, NEW shown, Answer(q, shown) PROVE q = r /\ req'[r].shown = shown
  <2>1. q = r BY <1>5, <1>17 DEF Answer
  <2> QED BY <1>1, <1>17, <2>1 DEF Answer, Slots, Idle
<1>18. ASSUME NEW q \in Request, NEW d \in Carrier, GetCarrier(q, d)
       PROVE  SeesAll(r) \/ c \in req[r].owned \/ c \in List(req[r].copy)
  <2>1. q = r /\ req'[r].shown = Once({d}) BY <1>17, <1>18 DEF GetCarrier
  <2>2. c = d BY <1>3, <2>1 DEF Once
  <2>3. req[r].pc = "query" BY <1>18, <2>1 DEF GetCarrier
  <2>4. PICK u : u = req[r].user OBVIOUS
  <2>5. SeesAll(r) \/ owner[c] = u \/ c \in List(req[r].copy) BY <1>18, <2>1, <2>2, <2>4 DEF GetCarrier
  <2> QED BY <1>6, <2>3, <2>4, <2>5 DEF Own
<1>19. ASSUME NEW q \in Request, ListCarriers(q)
       PROVE  SeesAll(r) \/ c \in req[r].owned \/ c \in List(req[r].copy)
  <2>1. q = r BY <1>5, <1>17, <1>19 DEF ListCarriers
  <2>2. CASE ~SeesAll(r)
    <3>1. req' = [req EXCEPT ![r].pc = "more", ![r].shown = Once(Own(req[r].user))]
      BY <1>19, <2>1, <2>2 DEF ListCarriers
    <3>2. req'[r].shown = Once(Own(req[r].user)) BY <1>1, <3>1 DEF Slots, Good, Local
    <3>3. c \in Own(req[r].user) BY <1>3, <3>2 DEF Once
    <3> QED BY <1>6, <1>19, <2>1, <3>3 DEF ListCarriers
  <2> QED BY <2>2
<1>20. ASSUME NEW q \in Request, ListMore(q)
       PROVE  SeesAll(r) \/ c \in req[r].owned \/ c \in List(req[r].copy)
  <2>1. /\ q = r
        /\ req'[r].shown = [d \in Carrier |-> req[r].shown[d] + Once(List(req[r].copy))[d]]
    <3>1. q = r BY <1>17, <1>20 DEF ListMore
    <3> QED BY <1>17, <1>20, <3>1 DEF ListMore
  <2>2. req'[r].shown[c] = req[r].shown[c] + Once(List(req[r].copy))[c] BY <2>1
  <2>3. Once(List(req[r].copy))[c] # 0 BY <1>2, <2>2
  <2> QED BY <2>3 DEF Once
<1> QED
  BY <1>8, <1>9, <1>10, <1>11, <1>12, <1>13, <1>14, <1>15, <1>16, <1>18, <1>19, <1>20 DEF Next

\* Answers only show carriers of the user, or what the token that was read
\* has a right to (getter.go:24-49, getter.go:75-82).
THEOREM CarriersShownByRight == Spec => ShownByRight
<1>1. ApiInv /\ ApiAssumption /\ [Next]_vars
        => [\A r \in Request, c \in Carrier :
              req'[r].shown[c] > req[r].shown[c] =>
                  SeesAll(r) \/ c \in req[r].owned \/ c \in List(req[r].copy)]_vars
  BY StepShowsByRight
<1> QED BY <1>1, ApiInvariant, ApiAssumption, PTL DEF Spec, ShownByRight
==============================================================================
