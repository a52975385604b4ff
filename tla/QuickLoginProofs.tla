--------------------------- MODULE QuickLoginProofs ---------------------------
(***************************************************************************)
(* What TLAPS proves about QuickLogin, for any number of accounts, numbers *)
(* and requests: QuickInv is an invariant. A step concerns one number; the *)
(* others keep what the invariant says of them (OthersOrdered).            *)
(***************************************************************************)
EXTENDS QuickLogin, TLAPS

\* What the invariant says of a number that is not disturbed.
Ordered(n) ==
    /\ Alone(n)
    /\ KeysOrdered(n)
    /\ \A r \in Request : RequestOrdered(n, r) /\ VerifyOrdered(n, r) /\ CompleteOrdered(n, r)
    /\ \A s \in Session : LoginsOrdered(n, s)

LEMMA InvParts ==
    QuickInv <=> TypeOK /\ SessionsDrawn /\ \A n \in Number \ disturbed : Ordered(n)
BY DEF QuickInv, Ordered

------------------------------------------------------------------------------
\* The types

Key == [ttl : 0 .. SessionTTL, by : 0 .. MaxSessions, user : User \cup {NoUser}]

Local == [pc : {"idle", "setPending", "setSession", "delPending", "setVerified",
                "delVerified", "getSession", "delSession", "login"},
          num : Number \cup {NoNumber}, sid : 0 .. MaxSessions,
          user : User \cup {NoUser}, by : 0 .. MaxSessions, left : 0 .. PendingTTL,
          stored : 0 .. MaxSessions]

LEMMA Typed ==
    TypeOK <=> /\ issued \in 0 .. MaxSessions
               /\ drawn \in [Session -> Number \cup {NoNumber}]
               /\ shown \subseteq Session
               /\ pending \in [Number -> Key]
               /\ session \in [Number -> Key]
               /\ verified \in [Number -> Key]
               /\ req \in [Request -> Local]
               /\ logins \in [Session -> 0 .. 2]
               /\ disturbed \subseteq Number
BY DEF TypeOK, Key, Local

LEMMA TypedNext ==
    ASSUME issued' \in 0 .. MaxSessions,
           drawn' \in [Session -> Number \cup {NoNumber}],
           shown' \subseteq Session,
           pending' \in [Number -> Key],
           session' \in [Number -> Key],
           verified' \in [Number -> Key],
           req' \in [Request -> Local],
           logins' \in [Session -> 0 .. 2],
           disturbed' \subseteq Number
    PROVE  TypeOK'
BY DEF TypeOK, Key, Local

LEMMA IdleTyped == Idle \in Local /\ NoKey \in Key
BY QuickLoginAssumption DEF Idle, NoKey, Local, Key, SessionTTL, PendingTTL

LEMMA GotoTyped ==
    ASSUME NEW l \in Local,
           NEW pc \in {"idle", "setPending", "setSession", "delPending", "setVerified",
                       "delVerified", "getSession", "delSession", "login"}
    PROVE  [l EXCEPT !.pc = pc] \in Local
BY DEF Local

\* A handler with a number is running, and the other way round.
LEMMA RunningFacts ==
    ASSUME TypeOK, SessionsDrawn, NEW r \in Request, Running(r)
    PROVE  /\ req[r] \in Local /\ req[r].num \in Number
           /\ pending[req[r].num] \in Key /\ session[req[r].num] \in Key
           /\ verified[req[r].num] \in Key
<1>1. req[r].num \in Number BY DEF SessionsDrawn
<1> QED BY <1>1, Typed

LEMMA InitTyped == Init => TypeOK
<1> SUFFICES ASSUME Init PROVE TypeOK OBVIOUS
<1>1. MaxSessions \in Nat BY QuickLoginAssumption
<1>2. Session \subseteq Nat BY <1>1 DEF Session
<1> QED BY <1>1, <1>2, IdleTyped, Typed DEF Init

LEMMA InitDrawn == Init => SessionsDrawn
<1> SUFFICES ASSUME Init PROVE SessionsDrawn OBVIOUS
<1>1. MaxSessions \in Nat BY QuickLoginAssumption
<1>2. \A s \in Session : ~(s <= 0) BY <1>1 DEF Session
<1> QED
  BY <1>1, <1>2
  DEF Init, SessionsDrawn, Live, NoKey, Idle, Running, Requesting, Completing, Verifying,
      PendingTTL, VerifiedTTL

LEMMA InitOrdered == ASSUME Init, NEW n \in Number PROVE Ordered(n)
BY QuickLoginAssumption
DEF Init, Ordered, Alone, KeysOrdered, RequestOrdered, VerifyOrdered, CompleteOrdered,
    LoginsOrdered, At, Live, NoKey, Idle, Requesting, Completing, Verifying

------------------------------------------------------------------------------
\* Each step keeps the types

LEMMA AgeTyped == ASSUME NEW key \in Key PROVE Age(key) \in Key
<1>1. MaxSessions \in Nat BY QuickLoginAssumption
<1> QED BY <1>1, IdleTyped DEF Age, Key, SessionTTL

\* A SET or DEL of handler r.
LEMMA WriteTyped ==
    ASSUME TypeOK, NEW keys \in [Number -> Key], NEW key \in Key, NEW r \in Request,
           NEW lost \in BOOLEAN
    PROVE  Write(r, keys, key, lost) \in [Number -> Key]
BY DEF Write

LEMMA NoticedTyped ==
    ASSUME TypeOK, NEW r \in Request, req[r].num \in Number, NEW lost \in BOOLEAN, Noticed(r, lost)
    PROVE  disturbed' \subseteq Number
BY Typed DEF Noticed

LEMMA OverlapTyped == ASSUME NEW n \in Number, NEW kind PROVE Overlap(n, kind) \subseteq Number
BY DEF Overlap

LEMMA BeginRequestTyped ==
    ASSUME TypeOK, NEW r \in Request, NEW n \in Number, BeginRequest(r, n)
    PROVE  TypeOK'
<1>1. MaxSessions \in Nat /\ issued \in Nat /\ issued < MaxSessions
  BY QuickLoginAssumption, Typed DEF BeginRequest
<1>2. issued + 1 \in 0 .. MaxSessions /\ issued + 1 \in Session BY <1>1 DEF Session
<1>3. PICK l : l = [Idle EXCEPT !.pc = "setPending", !.num = n, !.sid = issued + 1] OBVIOUS
<1>4. l \in Local BY <1>2, <1>3, IdleTyped DEF Local
<1>5. req' = [req EXCEPT ![r] = l] BY <1>3 DEF BeginRequest
<1>6. req' \in [Request -> Local] BY <1>4, <1>5, Typed
<1> QED BY <1>2, <1>6, OverlapTyped, Typed, TypedNext DEF BeginRequest

LEMMA SetPendingTyped ==
    ASSUME TypeOK, SessionsDrawn, NEW r \in Request, NEW lost \in BOOLEAN, SetPending(r, lost)
    PROVE  TypeOK'
<1>1. req[r] \in Local /\ req[r].num \in Number BY RunningFacts DEF SetPending, Running
<1>2. PICK key : key = [NoKey EXCEPT !.ttl = PendingTTL, !.by = req[r].sid] OBVIOUS
<1>3. key \in Key
  <2>1. key = [ttl |-> 3, by |-> req[r].sid, user |-> NoUser] BY <1>2 DEF NoKey, PendingTTL
  <2> QED BY <1>1, <2>1 DEF Key, Local, SessionTTL
<1>4. pending' \in [Number -> Key] BY <1>2, <1>3, WriteTyped, Typed DEF SetPending
<1>5. req' \in [Request -> Local] BY <1>1, GotoTyped, Typed DEF SetPending, Goto
<1> QED BY <1>1, <1>4, <1>5, NoticedTyped, Typed, TypedNext DEF SetPending

LEMMA SetSessionTyped ==
    ASSUME TypeOK, SessionsDrawn, NEW r \in Request, NEW lost \in BOOLEAN, SetSession(r, lost)
    PROVE  TypeOK'
<1>1. req[r] \in Local /\ req[r].num \in Number BY RunningFacts DEF SetSession, Running
<1>2. PICK key : key = [NoKey EXCEPT !.ttl = SessionTTL, !.by = req[r].sid] OBVIOUS
<1>3. key \in Key
  <2>1. key = [ttl |-> 5, by |-> req[r].sid, user |-> NoUser] BY <1>2 DEF NoKey, SessionTTL
  <2> QED BY <1>1, <2>1 DEF Key, Local, SessionTTL
<1>4. session' \in [Number -> Key] BY <1>2, <1>3, WriteTyped, Typed DEF SetSession
<1>5. req' \in [Request -> Local] BY IdleTyped, Typed DEF SetSession, End
<1>6. req[r].sid \in Session
  <2>1. Drew(req[r].sid, req[r].num) BY DEF SetSession, SessionsDrawn, Requesting
  <2>2. issued \in 0 .. MaxSessions /\ MaxSessions \in Nat BY QuickLoginAssumption, Typed
  <2> QED BY <2>1, <2>2 DEF Drew, Session
<1> QED BY <1>1, <1>4, <1>5, <1>6, NoticedTyped, Typed, TypedNext DEF SetSession

LEMMA BeginVerifyTyped ==
    ASSUME TypeOK, SessionsDrawn, NEW r \in Request, NEW n \in Number, NEW u \in User,
           BeginVerify(r, u, n)
    PROVE  TypeOK'
<1>1. PICK l : l = [Idle EXCEPT !.pc = "delPending", !.num = n, !.user = u,
                                !.by = pending[n].by, !.left = pending[n].ttl]
  OBVIOUS
<1>2. pending[n] \in Key /\ pending[n].ttl \in 0 .. PendingTTL
  BY Typed DEF SessionsDrawn, Key, PendingTTL, SessionTTL
<1>3. l \in Local BY <1>1, <1>2, IdleTyped DEF Local, Key
<1>4. req' = [req EXCEPT ![r] = l] BY <1>1 DEF BeginVerify
<1>5. req' \in [Request -> Local] BY <1>3, <1>4, Typed
<1> QED BY <1>5, OverlapTyped, Typed, TypedNext DEF BeginVerify

LEMMA DelPendingTyped ==
    ASSUME TypeOK, SessionsDrawn, NEW r \in Request, NEW lost \in BOOLEAN, DelPending(r, lost)
    PROVE  TypeOK'
<1>1. req[r] \in Local /\ req[r].num \in Number BY RunningFacts DEF DelPending, Running
<1>2. pending' \in [Number -> Key] BY IdleTyped, WriteTyped, Typed DEF DelPending
<1>3. req' \in [Request -> Local] BY <1>1, GotoTyped, Typed DEF DelPending, Goto
<1> QED BY <1>1, <1>2, <1>3, NoticedTyped, Typed, TypedNext DEF DelPending

LEMMA SetVerifiedTyped ==
    ASSUME TypeOK, SessionsDrawn, NEW r \in Request, NEW lost \in BOOLEAN, SetVerified(r, lost)
    PROVE  TypeOK'
<1>1. req[r] \in Local /\ req[r].num \in Number BY RunningFacts DEF SetVerified, Running
<1>2. PICK key : key = [ttl |-> VerifiedTTL, by |-> req[r].by, user |-> req[r].user] OBVIOUS
<1>3. key \in Key BY <1>1, <1>2 DEF Key, Local, VerifiedTTL, SessionTTL
<1>4. verified' \in [Number -> Key] BY <1>2, <1>3, WriteTyped, Typed DEF SetVerified
<1>5. req' \in [Request -> Local] BY IdleTyped, Typed DEF SetVerified, End
<1> QED BY <1>1, <1>4, <1>5, NoticedTyped, Typed, TypedNext DEF SetVerified

LEMMA BeginCompleteTyped ==
    ASSUME TypeOK, NEW r \in Request, NEW s \in 0 .. MaxSessions, NEW n \in Number,
           BeginComplete(r, s, n)
    PROVE  TypeOK'
<1>1. PICK l : l = [Idle EXCEPT !.pc = "delVerified", !.num = n, !.sid = s,
                                !.user = verified[n].user, !.by = verified[n].by]
  OBVIOUS
<1>2. verified[n] \in Key BY Typed
<1>3. l \in Local BY <1>1, <1>2, IdleTyped DEF Local, Key
<1>4. req' = [req EXCEPT ![r] = l] BY <1>1 DEF BeginComplete
<1>5. req' \in [Request -> Local] BY <1>3, <1>4, Typed
<1> QED BY <1>5, OverlapTyped, Typed, TypedNext DEF BeginComplete

LEMMA DelVerifiedTyped ==
    ASSUME TypeOK, SessionsDrawn, NEW r \in Request, NEW lost \in BOOLEAN, DelVerified(r, lost)
    PROVE  TypeOK'
<1>1. req[r] \in Local /\ req[r].num \in Number BY RunningFacts DEF DelVerified, Running
<1>2. verified' \in [Number -> Key] BY IdleTyped, WriteTyped, Typed DEF DelVerified
<1>3. req' \in [Request -> Local] BY <1>1, GotoTyped, Typed DEF DelVerified, Goto
<1> QED BY <1>1, <1>2, <1>3, NoticedTyped, Typed, TypedNext DEF DelVerified

LEMMA GetSessionTyped ==
    ASSUME TypeOK, SessionsDrawn, NEW r \in Request, GetSession(r)
    PROVE  TypeOK'
<1>1. req[r] \in Local /\ session[req[r].num] \in Key BY RunningFacts DEF GetSession, Running
<1>2. PICK l : l = [req[r] EXCEPT !.pc = "delSession", !.stored = session[req[r].num].by] OBVIOUS
<1>3. l \in Local BY <1>1, <1>2 DEF Local, Key
<1>4. req' = [req EXCEPT ![r] = l] \/ req' = [req EXCEPT ![r] = Idle]
  BY <1>2 DEF GetSession, End
<1>5. req' \in [Request -> Local] BY <1>3, <1>4, IdleTyped, Typed
<1> QED BY <1>5, Typed, TypedNext DEF GetSession

LEMMA DelSessionTyped ==
    ASSUME TypeOK, SessionsDrawn, NEW r \in Request, NEW lost \in BOOLEAN, DelSession(r, lost)
    PROVE  TypeOK'
<1>1. req[r] \in Local /\ req[r].num \in Number BY RunningFacts DEF DelSession, Running
<1>2. session' \in [Number -> Key] BY IdleTyped, WriteTyped, Typed DEF DelSession
<1>3. req' \in [Request -> Local]
  BY <1>1, GotoTyped, IdleTyped, Typed DEF DelSession, Goto, End
<1> QED BY <1>1, <1>2, <1>3, NoticedTyped, Typed, TypedNext DEF DelSession

LEMMA LoginTyped ==
    ASSUME TypeOK, NEW r \in Request, NEW allowed \in BOOLEAN, Login(r, allowed)
    PROVE  TypeOK'
<1>1. req' \in [Request -> Local] BY IdleTyped, Typed DEF Login, End
<1>2. logins' \in [Session -> 0 .. 2]
  <2>1. \A k \in 0 .. 2 : (IF k < 2 THEN k + 1 ELSE k) \in 0 .. 2 OBVIOUS
  <2>2. PICK b : b = req[r].by OBVIOUS
  <2>3. logins' = logins \/ logins' = [logins EXCEPT ![b] = IF @ < 2 THEN @ + 1 ELSE @]
    BY <2>2 DEF Login
  <2> QED BY <2>1, <2>3, Typed
<1> QED BY <1>1, <1>2, Typed, TypedNext DEF Login

LEMMA CrashTyped ==
    ASSUME TypeOK, SessionsDrawn, NEW r \in Request, Crash(r)
    PROVE  TypeOK'
<1>1. req[r].num \in Number BY RunningFacts DEF Crash
<1>2. req' \in [Request -> Local] BY IdleTyped, Typed DEF Crash, End
<1> QED BY <1>1, <1>2, Typed, TypedNext DEF Crash

\* The locals of a handler after a Tick.
Waiting(l) == [l EXCEPT !.left = IF @ > 0 THEN @ - 1 ELSE 0]

LEMMA WaitingTyped ==
    ASSUME NEW l \in Local
    PROVE  /\ Waiting(l) \in Local
           /\ Waiting(l).pc = l.pc /\ Waiting(l).num = l.num /\ Waiting(l).sid = l.sid
           /\ Waiting(l).by = l.by /\ Waiting(l).stored = l.stored
           /\ l.left > 1 => Waiting(l).left = l.left - 1 /\ Waiting(l).left > 0
<1>1. l.left \in 0 .. 3 BY DEF Local, PendingTTL
<1>2. (IF l.left > 0 THEN l.left - 1 ELSE 0) \in 0 .. 3 BY <1>1
<1> QED BY <1>1, <1>2 DEF Waiting, Local, PendingTTL

LEMMA TickTyped == ASSUME TypeOK, Tick PROVE TypeOK'
<1>1. req' = [r \in Request |-> Waiting(req[r])] BY DEF Tick, Waiting
<1>2. req' \in [Request -> Local] BY <1>1, WaitingTyped, Typed
<1> QED BY <1>2, AgeTyped, Typed, TypedNext DEF Tick
------------------------------------------------------------------------------
\* Each step keeps what handlers, keys and logins say of who drew what

\* SessionsDrawn, one key and one handler at a time.
DrawnKey(key, n, max) == key.ttl <= max /\ (Live(key) => Drew(key.by, n))

DrawnLocal(l) ==
    /\ l.pc # "idle" => l.num \in Number
    /\ l.pc \in Requesting => Drew(l.sid, l.num)
    /\ l.pc \in Completing => l.sid \in shown \cup {0}
    /\ l.pc \in Verifying \cup Completing => Drew(l.by, l.num)

LEMMA DrawnParts ==
    ASSUME TypeOK
    PROVE  SessionsDrawn <=>
              /\ shown \subseteq 1 .. issued
              /\ \A s \in Session : IF s <= issued THEN drawn[s] \in Number
                                    ELSE drawn[s] = NoNumber /\ logins[s] = 0
              /\ \A n \in Number : /\ DrawnKey(pending[n], n, PendingTTL)
                                   /\ DrawnKey(verified[n], n, VerifiedTTL)
                                   /\ DrawnKey(session[n], n, SessionTTL)
              /\ \A r \in Request : DrawnLocal(req[r])
<1>1. \A n \in Number : session[n].ttl <= SessionTTL BY Typed DEF Key, SessionTTL
<1> QED BY <1>1 DEF SessionsDrawn, DrawnKey, DrawnLocal, Running

\* A step that draws no number and puts l in place of the locals of r, a drawn
\* key in place of a key.
LEMMA DrawnStep ==
    ASSUME TypeOK, TypeOK', SessionsDrawn, NEW r \in Request, NEW l,
           issued' = issued, drawn' = drawn, shown \subseteq shown', shown' \subseteq 1 .. issued,
           \A s \in Session : s > issued => logins'[s] = 0,
           \A n \in Number :
              /\ pending'[n] = pending[n] \/ DrawnKey(pending'[n], n, PendingTTL)
              /\ verified'[n] = verified[n] \/ DrawnKey(verified'[n], n, VerifiedTTL)
              /\ session'[n] = session[n] \/ DrawnKey(session'[n], n, SessionTTL),
           req' = [req EXCEPT ![r] = l], DrawnLocal(l)
    PROVE  SessionsDrawn'
<1>1. \A s \in Session : s <= issued \/ s > issued
  BY QuickLoginAssumption, Typed DEF Session
<1>2. \A s \in Session : IF s <= issued' THEN drawn'[s] \in Number
                         ELSE drawn'[s] = NoNumber /\ logins'[s] = 0
  BY <1>1 DEF SessionsDrawn
<1>3. \A key, n, max : DrawnKey(key, n, max) => DrawnKey(key, n, max)'
  BY DEF DrawnKey, Drew, Live
<1>4. \A n \in Number : /\ DrawnKey(pending[n], n, PendingTTL)
                        /\ DrawnKey(verified[n], n, VerifiedTTL)
                        /\ DrawnKey(session[n], n, SessionTTL)
  BY DrawnParts
<1>5. \A n \in Number : /\ DrawnKey(pending[n], n, PendingTTL)'
                        /\ DrawnKey(verified[n], n, VerifiedTTL)'
                        /\ DrawnKey(session[n], n, SessionTTL)'
  BY <1>3, <1>4
<1>6. \A q \in Request : DrawnLocal(req[q])'
  BY DrawnParts, Typed DEF DrawnLocal, Drew
<1> QED BY <1>2, <1>5, <1>6 DEF SessionsDrawn, DrawnKey, DrawnLocal, Running
LEMMA DrawnFacts ==
    ASSUME TypeOK, SessionsDrawn
    PROVE  /\ shown \subseteq 1 .. issued
           /\ \A s \in Session : s > issued => logins[s] = 0
<1>1. issued \in Nat /\ Session \subseteq Nat BY QuickLoginAssumption, Typed DEF Session
<1>2. \A s \in Session : s > issued => ~(s <= issued) BY <1>1
<1> QED BY <1>2 DEF SessionsDrawn

LEMMA WriteDrawn ==
    ASSUME NEW r \in Request, NEW keys \in [Number -> Key], NEW key, NEW lost \in BOOLEAN, NEW max,
           DrawnKey(key, req[r].num, max)
    PROVE  \A n \in Number : \/ Write(r, keys, key, lost)[n] = keys[n]
                             \/ DrawnKey(Write(r, keys, key, lost)[n], n, max)
BY DEF Write

LEMMA NoKeyDrawn == \A n : DrawnKey(NoKey, n, PendingTTL) /\ DrawnKey(NoKey, n, VerifiedTTL)
                           /\ DrawnKey(NoKey, n, SessionTTL)
BY DEF DrawnKey, NoKey, Live, PendingTTL, VerifiedTTL, SessionTTL

LEMMA IdleDrawn == DrawnLocal(Idle)
BY DEF DrawnLocal, Idle, Requesting, Completing, Verifying

LEMMA BeginRequestDrawn ==
    ASSUME TypeOK, TypeOK', SessionsDrawn, NEW r \in Request, NEW n \in Number, BeginRequest(r, n)
    PROVE  SessionsDrawn'
<1>1. issued \in Nat /\ issued + 1 \in Session /\ issued' = issued + 1 /\ Session \subseteq Nat
  BY QuickLoginAssumption, Typed DEF BeginRequest, Session
<1>2. drawn' = [drawn EXCEPT ![issued + 1] = n] BY DEF BeginRequest
<1>3. /\ drawn'[issued + 1] = n
      /\ \A s \in Session : s # issued + 1 => drawn'[s] = drawn[s]
  BY <1>1, <1>2, Typed
<1>4. \A s : s \in 1 .. issued => s \in Session /\ s # issued + 1 /\ s \in 1 .. issued + 1
  BY <1>1, QuickLoginAssumption DEF Session
<1>5. \A s, m : Drew(s, m) => Drew(s, m)' BY <1>1, <1>3, <1>4 DEF Drew
<1>0. PICK k : k = issued + 1 OBVIOUS
<1>6. Drew(k, n)' BY <1>1, <1>3, <1>0 DEF Drew
<1>7. shown' \subseteq 1 .. issued' BY <1>1, <1>4 DEF BeginRequest, SessionsDrawn
<1>8. \A s \in Session : IF s <= issued' THEN drawn'[s] \in Number
                         ELSE drawn'[s] = NoNumber /\ logins'[s] = 0
  BY <1>1, <1>3 DEF SessionsDrawn, BeginRequest
<1>9. \A m \in Number :
          /\ pending'[m].ttl <= PendingTTL /\ verified'[m].ttl <= VerifiedTTL
          /\ Live(pending'[m]) => Drew(pending[m].by, m)'
          /\ Live(verified'[m]) => Drew(verified[m].by, m)'
          /\ Live(session'[m]) => Drew(session[m].by, m)'
  BY <1>5 DEF SessionsDrawn, BeginRequest
<1>10. PICK l : l = [Idle EXCEPT !.pc = "setPending", !.num = n, !.sid = issued + 1] OBVIOUS
<1>11. l.pc = "setPending" /\ l.num = n /\ l.sid = issued + 1 BY <1>10 DEF Idle
<1>12. req' = [req EXCEPT ![r] = l] BY <1>10 DEF BeginRequest
<1>13. \A q \in Request : DrawnLocal(req[q])'
  <2> SUFFICES ASSUME NEW q \in Request PROVE DrawnLocal(req[q])' OBVIOUS
  <2>1. CASE q = r
    <3>1. req'[q] = l BY <2>1, <1>12, Typed
    <3> QED BY <3>1, <1>6, <1>11, <1>0 DEF DrawnLocal, Requesting, Completing, Verifying
  <2>2. CASE q # r
    <3>1. req'[q] = req[q] /\ shown' = shown BY <2>2, <1>12, Typed DEF BeginRequest
    <3>2. DrawnLocal(req[q]) BY DrawnParts
    <3> QED BY <3>1, <3>2, <1>5 DEF DrawnLocal
  <2> QED BY <2>1, <2>2
<1> QED
  BY <1>7, <1>8, <1>9, <1>13
  DEF SessionsDrawn, DrawnLocal, Running, BeginRequest

LEMMA SetPendingDrawn ==
    ASSUME TypeOK, TypeOK', SessionsDrawn, NEW r \in Request, NEW lost \in BOOLEAN,
           SetPending(r, lost)
    PROVE  SessionsDrawn'
<1>1. req[r] \in Local BY Typed
<1>2. Drew(req[r].sid, req[r].num) /\ req[r].num \in Number
  BY DEF SetPending, SessionsDrawn, Requesting, Running
<1>3. PICK key : key = [NoKey EXCEPT !.ttl = PendingTTL, !.by = req[r].sid] OBVIOUS
<1>4. key = [ttl |-> 3, by |-> req[r].sid, user |-> NoUser] BY <1>3 DEF NoKey, PendingTTL
<1>5. DrawnKey(key, req[r].num, PendingTTL) BY <1>2, <1>4 DEF DrawnKey, PendingTTL
<1>6. \A n \in Number : pending'[n] = pending[n] \/ DrawnKey(pending'[n], n, PendingTTL)
  BY <1>3, <1>5, WriteDrawn, Typed DEF SetPending
<1>7. PICK l : l = [req[r] EXCEPT !.pc = "setSession"] OBVIOUS
<1>8. req' = [req EXCEPT ![r] = l] BY <1>7 DEF SetPending, Goto
<1>9. DrawnLocal(l)
  BY <1>1, <1>2, <1>7 DEF DrawnLocal, Local, Requesting, Completing, Verifying
<1> QED BY <1>6, <1>8, <1>9, DrawnFacts, DrawnStep DEF SetPending

LEMMA SetSessionDrawn ==
    ASSUME TypeOK, TypeOK', SessionsDrawn, NEW r \in Request, NEW lost \in BOOLEAN,
           SetSession(r, lost)
    PROVE  SessionsDrawn'
<1>2. Drew(req[r].sid, req[r].num) /\ req[r].num \in Number
  BY DEF SetSession, SessionsDrawn, Requesting, Running
<1>3. PICK key : key = [NoKey EXCEPT !.ttl = SessionTTL, !.by = req[r].sid] OBVIOUS
<1>4. key = [ttl |-> 5, by |-> req[r].sid, user |-> NoUser] BY <1>3 DEF NoKey, SessionTTL
<1>5. DrawnKey(key, req[r].num, SessionTTL) BY <1>2, <1>4 DEF DrawnKey, SessionTTL
<1>6. \A n \in Number : session'[n] = session[n] \/ DrawnKey(session'[n], n, SessionTTL)
  BY <1>3, <1>5, WriteDrawn, Typed DEF SetSession
<1>7. req' = [req EXCEPT ![r] = Idle] BY DEF SetSession, End
<1>8. shown \subseteq shown' /\ shown' \subseteq 1 .. issued
  BY <1>2 DEF SetSession, SessionsDrawn, Drew
<1> QED BY <1>6, <1>7, <1>8, IdleDrawn, DrawnFacts, DrawnStep DEF SetSession

LEMMA BeginVerifyDrawn ==
    ASSUME TypeOK, TypeOK', SessionsDrawn, NEW r \in Request, NEW n \in Number, NEW u \in User,
           BeginVerify(r, u, n)
    PROVE  SessionsDrawn'
<1>1. Drew(pending[n].by, n) BY DEF BeginVerify, SessionsDrawn
<1>2. PICK l : l = [Idle EXCEPT !.pc = "delPending", !.num = n, !.user = u,
                                !.by = pending[n].by, !.left = pending[n].ttl]
  OBVIOUS
<1>3. req' = [req EXCEPT ![r] = l] BY <1>2 DEF BeginVerify
<1>4. l.pc = "delPending" /\ l.num = n /\ l.by = pending[n].by BY <1>2 DEF Idle
<1>5. DrawnLocal(l) BY <1>1, <1>4 DEF DrawnLocal, Requesting, Completing, Verifying
<1> QED BY <1>3, <1>5, DrawnFacts, DrawnStep DEF BeginVerify

LEMMA DelPendingDrawn ==
    ASSUME TypeOK, TypeOK', SessionsDrawn, NEW r \in Request, NEW lost \in BOOLEAN,
           DelPending(r, lost)
    PROVE  SessionsDrawn'
<1>1. req[r] \in Local BY Typed
<1>2. Drew(req[r].by, req[r].num) /\ req[r].num \in Number
  BY DEF DelPending, SessionsDrawn, Verifying, Running
<1>3. \A n \in Number : pending'[n] = pending[n] \/ DrawnKey(pending'[n], n, PendingTTL)
  BY NoKeyDrawn, WriteDrawn, Typed DEF DelPending
<1>4. PICK l : l = [req[r] EXCEPT !.pc = "setVerified"] OBVIOUS
<1>5. req' = [req EXCEPT ![r] = l] BY <1>4 DEF DelPending, Goto
<1>6. DrawnLocal(l)
  BY <1>1, <1>2, <1>4 DEF DrawnLocal, Local, Requesting, Completing, Verifying
<1> QED BY <1>3, <1>5, <1>6, DrawnFacts, DrawnStep DEF DelPending

LEMMA SetVerifiedDrawn ==
    ASSUME TypeOK, TypeOK', SessionsDrawn, NEW r \in Request, NEW lost \in BOOLEAN,
           SetVerified(r, lost)
    PROVE  SessionsDrawn'
<1>1. Drew(req[r].by, req[r].num) /\ req[r].num \in Number
  BY DEF SetVerified, SessionsDrawn, Verifying, Running
<1>2. PICK key : key = [ttl |-> VerifiedTTL, by |-> req[r].by, user |-> req[r].user] OBVIOUS
<1>3. DrawnKey(key, req[r].num, VerifiedTTL) BY <1>1, <1>2 DEF DrawnKey, VerifiedTTL
<1>4. \A n \in Number : verified'[n] = verified[n] \/ DrawnKey(verified'[n], n, VerifiedTTL)
  BY <1>2, <1>3, WriteDrawn, Typed DEF SetVerified
<1>5. req' = [req EXCEPT ![r] = Idle] BY DEF SetVerified, End
<1> QED BY <1>4, <1>5, IdleDrawn, DrawnFacts, DrawnStep DEF SetVerified

LEMMA BeginCompleteDrawn ==
    ASSUME TypeOK, TypeOK', SessionsDrawn, NEW r \in Request, NEW s \in 0 .. MaxSessions,
           NEW n \in Number, BeginComplete(r, s, n)
    PROVE  SessionsDrawn'
<1>1. PICK l : l = [Idle EXCEPT !.pc = "delVerified", !.num = n, !.sid = s,
                                !.user = verified[n].user, !.by = verified[n].by]
  OBVIOUS
<1>2. l.pc = "delVerified" /\ l.num = n /\ l.sid = s /\ l.by = verified[n].by BY <1>1 DEF Idle
<1>3. s \in shown \cup {0} /\ Drew(verified[n].by, n) BY DEF BeginComplete, SessionsDrawn
<1>4. DrawnLocal(l) BY <1>2, <1>3 DEF DrawnLocal, Requesting, Completing, Verifying
<1>5. req' = [req EXCEPT ![r] = l] BY <1>1 DEF BeginComplete
<1> QED BY <1>4, <1>5, DrawnFacts, DrawnStep DEF BeginComplete

LEMMA DelVerifiedDrawn ==
    ASSUME TypeOK, TypeOK', SessionsDrawn, NEW r \in Request, NEW lost \in BOOLEAN,
           DelVerified(r, lost)
    PROVE  SessionsDrawn'
<1>1. req[r] \in Local BY Typed
<1>2. DrawnLocal(req[r]) BY DrawnParts
<1>3. \A n \in Number : verified'[n] = verified[n] \/ DrawnKey(verified'[n], n, VerifiedTTL)
  BY NoKeyDrawn, WriteDrawn, Typed DEF DelVerified
<1>4. PICK l : l = [req[r] EXCEPT !.pc = "getSession"] OBVIOUS
<1>5. req' = [req EXCEPT ![r] = l] BY <1>4 DEF DelVerified, Goto
<1>6. DrawnLocal(l)
  BY <1>1, <1>2, <1>4 DEF DelVerified, DrawnLocal, Local, Requesting, Completing, Verifying
<1> QED BY <1>3, <1>5, <1>6, DrawnFacts, DrawnStep DEF DelVerified

LEMMA GetSessionDrawn ==
    ASSUME TypeOK, TypeOK', SessionsDrawn, NEW r \in Request, GetSession(r)
    PROVE  SessionsDrawn'
<1>1. req[r] \in Local BY Typed
<1>2. DrawnLocal(req[r]) BY DrawnParts
<1>3. PICK l : l = [req[r] EXCEPT !.pc = "delSession", !.stored = session[req[r].num].by] OBVIOUS
<1>4. DrawnLocal(l)
  BY <1>1, <1>2, <1>3 DEF GetSession, DrawnLocal, Local, Requesting, Completing, Verifying
<1>5. req' = [req EXCEPT ![r] = l] \/ req' = [req EXCEPT ![r] = Idle]
  BY <1>3 DEF GetSession, End
<1> QED BY <1>4, <1>5, IdleDrawn, DrawnFacts, DrawnStep DEF GetSession

LEMMA DelSessionDrawn ==
    ASSUME TypeOK, TypeOK', SessionsDrawn, NEW r \in Request, NEW lost \in BOOLEAN,
           DelSession(r, lost)
    PROVE  SessionsDrawn'
<1>1. req[r] \in Local BY Typed
<1>2. DrawnLocal(req[r]) BY DrawnParts
<1>3. \A n \in Number : session'[n] = session[n] \/ DrawnKey(session'[n], n, SessionTTL)
  BY NoKeyDrawn, WriteDrawn, Typed DEF DelSession
<1>4. PICK l : l = [req[r] EXCEPT !.pc = "login"] OBVIOUS
<1>5. req' = [req EXCEPT ![r] = l] \/ req' = [req EXCEPT ![r] = Idle]
  BY <1>4 DEF DelSession, Goto, End
<1>6. DrawnLocal(l)
  BY <1>1, <1>2, <1>4 DEF DelSession, DrawnLocal, Local, Requesting, Completing, Verifying
<1> QED BY <1>3, <1>5, <1>6, IdleDrawn, DrawnFacts, DrawnStep DEF DelSession

LEMMA LoginDrawn ==
    ASSUME TypeOK, TypeOK', SessionsDrawn, NEW r \in Request, NEW allowed \in BOOLEAN,
           Login(r, allowed)
    PROVE  SessionsDrawn'
<1>1. Drew(req[r].by, req[r].num) BY DEF Login, SessionsDrawn, Completing
<1>2. issued \in Nat BY QuickLoginAssumption, Typed
<1>3. PICK b : b = req[r].by OBVIOUS
<1>4. b <= issued BY <1>1, <1>2, <1>3 DEF Drew
<1>5. logins' = logins \/ logins' = [logins EXCEPT ![b] = IF @ < 2 THEN @ + 1 ELSE @]
  BY <1>3 DEF Login
<1>6. \A s \in Session : s > issued => s # b /\ ~(s <= issued)
  BY <1>2, <1>4, QuickLoginAssumption DEF Session
<1>7. \A s \in Session : s > issued => logins'[s] = 0
  BY <1>5, <1>6, Typed DEF SessionsDrawn
<1>8. req' = [req EXCEPT ![r] = Idle] BY DEF Login, End
<1> QED BY <1>7, <1>8, IdleDrawn, DrawnFacts, DrawnStep DEF Login

LEMMA CrashDrawn ==
    ASSUME TypeOK, TypeOK', SessionsDrawn, NEW r \in Request, Crash(r)
    PROVE  SessionsDrawn'
<1>1. req' = [req EXCEPT ![r] = Idle] BY DEF Crash, End
<1> QED BY <1>1, IdleDrawn, DrawnFacts, DrawnStep DEF Crash

LEMMA AgeDrawn ==
    ASSUME NEW key \in Key, NEW n, NEW max \in Nat, DrawnKey(key, n, max)
    PROVE  DrawnKey(Age(key), n, max)
BY DEF DrawnKey, Age, NoKey, Live, Key

LEMMA TickDrawn ==
    ASSUME TypeOK, TypeOK', SessionsDrawn, Tick
    PROVE  SessionsDrawn'
<1>1. \A n \in Number : /\ DrawnKey(pending[n], n, PendingTTL)
                        /\ DrawnKey(verified[n], n, VerifiedTTL)
                        /\ DrawnKey(session[n], n, SessionTTL)
  BY DrawnParts
<1>2. PendingTTL \in Nat /\ VerifiedTTL \in Nat /\ SessionTTL \in Nat
  BY DEF PendingTTL, VerifiedTTL, SessionTTL
<1>3. \A n \in Number : /\ DrawnKey(pending'[n], n, PendingTTL)
                        /\ DrawnKey(verified'[n], n, VerifiedTTL)
                        /\ DrawnKey(session'[n], n, SessionTTL)
  BY <1>1, <1>2, AgeDrawn, Typed DEF Tick
<1>4. issued' = issued /\ drawn' = drawn /\ shown' = shown /\ logins' = logins BY DEF Tick
<1>5. \A r \in Request : req'[r] = Waiting(req[r]) BY DEF Tick, Waiting
<1>6. \A r \in Request : DrawnLocal(req[r]) /\ DrawnLocal(req'[r])
  BY <1>5, DrawnParts, WaitingTyped, Typed DEF DrawnLocal
<1> QED BY <1>3, <1>4, <1>6 DEF SessionsDrawn, DrawnKey, DrawnLocal, Drew, Running
------------------------------------------------------------------------------
\* What the invariant says of a number, after a step: the parts of Ordered(n)'
\* with the primes on the variables.

AtNext(r, n, kind) == req'[r].num = n /\ req'[r].pc \in kind

BackedNext(n, s, t) ==
    \/ session'[n].by = s /\ s \in shown' /\ session'[n].ttl >= t
    \/ \E r \in Request : AtNext(r, n, {"setSession"}) /\ req'[r].sid = s

SpentNext(n, s) ==
    /\ Live(pending'[n]) => pending'[n].by # s
    /\ Live(verified'[n]) => verified'[n].by # s
    /\ \A r \in Request : AtNext(r, n, Verifying) => req'[r].by # s

SettledNext(n) == ~Live(pending'[n]) /\ \A r \in Request : ~AtNext(r, n, Verifying)

AloneNext(n) ==
    \A kind \in {Requesting, Verifying, Completing} :
        \A q, r \in Request : AtNext(q, n, kind) /\ AtNext(r, n, kind) => q = r

KeysNext(n) ==
    /\ Live(pending'[n]) =>
          ~Live(verified'[n]) /\ BackedNext(n, pending'[n].by, pending'[n].ttl + 2)
    /\ Live(verified'[n]) => BackedNext(n, verified'[n].by, verified'[n].ttl)

RequestNext(n, r) == AtNext(r, n, Requesting) => ~Live(session'[n]) /\ req'[r].sid \notin shown'

VerifyNext(n, r) ==
    /\ AtNext(r, n, Verifying) =>
          ~Live(verified'[n]) /\ req'[r].left > 0 /\ BackedNext(n, req'[r].by, req'[r].left + 2)
    /\ AtNext(r, n, {"setVerified"}) => ~Live(pending'[n])

CompleteNext(n, r) ==
    /\ AtNext(r, n, {"delVerified"}) /\ Live(verified'[n]) => verified'[n].by = req'[r].by
    /\ AtNext(r, n, {"delVerified", "getSession", "delSession"}) =>
          SettledNext(n) /\ BackedNext(n, req'[r].by, 1)
    /\ AtNext(r, n, {"getSession", "delSession", "login"}) => SpentNext(n, req'[r].by)
    /\ AtNext(r, n, {"delSession"}) => Live(session'[n]) /\ req'[r].stored = req'[r].by
    /\ AtNext(r, n, {"login"}) => req'[r].by = req'[r].sid

LoginsNext(n, s) ==
    drawn'[s] = n /\ logins'[s] > 0 =>
        /\ logins'[s] = 1 /\ s \in shown' /\ SpentNext(n, s)
        /\ \A r \in Request : AtNext(r, n, Completing) => req'[r].by # s

LEMMA OrderedNext ==
    ASSUME NEW n, AloneNext(n), KeysNext(n),
           \A r \in Request : RequestNext(n, r) /\ VerifyNext(n, r) /\ CompleteNext(n, r),
           \A s \in Session : LoginsNext(n, s)
    PROVE  Ordered(n)'
<1>1. Alone(n)' BY DEF Alone, AloneNext, At, AtNext
<1>2. KeysOrdered(n)' BY DEF KeysOrdered, KeysNext, Backed, BackedNext, At, AtNext
<1>3. ASSUME NEW r \in Request
      PROVE  RequestOrdered(n, r)' /\ VerifyOrdered(n, r)' /\ CompleteOrdered(n, r)'
  <2>1. RequestNext(n, r) /\ VerifyNext(n, r) /\ CompleteNext(n, r) OBVIOUS
  <2>2. RequestOrdered(n, r)' BY <2>1 DEF RequestOrdered, RequestNext, At, AtNext
  <2>3. VerifyOrdered(n, r)'
    BY <2>1 DEF VerifyOrdered, VerifyNext, Backed, BackedNext, At, AtNext
  <2>4. CompleteOrdered(n, r)'
    BY <2>1
    DEF CompleteOrdered, CompleteNext, Backed, BackedNext, Spent, SpentNext, Settled, SettledNext,
        At, AtNext
  <2> QED BY <2>2, <2>3, <2>4
<1>4. \A s \in Session : LoginsOrdered(n, s)'
  BY DEF LoginsOrdered, LoginsNext, Spent, SpentNext, At, AtNext
<1> QED BY <1>1, <1>2, <1>3, <1>4 DEF Ordered

\* A step of a handler that works on another number, or did nothing.
Off(l, n) == l.pc = "idle" \/ l.num # n

Untouched(n) ==
    /\ pending'[n] = pending[n] /\ session'[n] = session[n] /\ verified'[n] = verified[n]
    /\ \A q \in Request : req'[q] = req[q] \/ (Off(req[q], n) /\ Off(req'[q], n))
    /\ shown \subseteq shown' /\ \A s \in shown' : s \in shown \/ drawn[s] # n
    /\ \A s \in Session : drawn'[s] = n => drawn[s] = n /\ logins'[s] = logins[s]

LEMMA OthersOrdered ==
    ASSUME TypeOK, SessionsDrawn, NEW n \in Number, Ordered(n), Untouched(n)
    PROVE  Ordered(n)'
<1>1. \A q \in Request :
          /\ AtNext(q, n, Requesting) <=> At(q, n, Requesting)
          /\ AtNext(q, n, Verifying) <=> At(q, n, Verifying)
          /\ AtNext(q, n, Completing) <=> At(q, n, Completing)
          /\ \A kind : "idle" \notin kind /\ AtNext(q, n, kind) => At(q, n, kind) /\ req'[q] = req[q]
          /\ \A kind : "idle" \notin kind /\ At(q, n, kind) => AtNext(q, n, kind) /\ req'[q] = req[q]
  BY DEF Untouched, Off, At, AtNext, Requesting, Verifying, Completing
<1>2. \A s, t : Backed(n, s, t) => BackedNext(n, s, t)
  BY <1>1 DEF Untouched, Backed, BackedNext
<1>3. (\A s : Spent(n, s) => SpentNext(n, s)) /\ (Settled(n) => SettledNext(n))
  BY <1>1 DEF Untouched, Spent, SpentNext, Settled, SettledNext, Verifying
<1>4. AloneNext(n) BY <1>1 DEF Ordered, Alone, AloneNext
<1>5. KeysNext(n) BY <1>2 DEF Untouched, Ordered, KeysOrdered, KeysNext
<1>6. ASSUME NEW q \in Request
      PROVE  RequestNext(n, q) /\ VerifyNext(n, q) /\ CompleteNext(n, q)
  <2>1. RequestOrdered(n, q) /\ VerifyOrdered(n, q) /\ CompleteOrdered(n, q) BY DEF Ordered
  <2>2. RequestNext(n, q)
    <3>1. At(q, n, Requesting) => drawn[req[q].sid] = n
      BY DEF SessionsDrawn, At, Requesting, Drew
    <3> QED BY <1>1, <2>1, <3>1 DEF Untouched, RequestOrdered, RequestNext, Requesting
  <2>3. VerifyNext(n, q)
    BY <1>1, <1>2, <2>1 DEF Untouched, VerifyOrdered, VerifyNext, Verifying
  <2>4. CompleteNext(n, q)
    BY <1>1, <1>2, <1>3, <2>1 DEF Untouched, CompleteOrdered, CompleteNext
  <2> QED BY <2>2, <2>3, <2>4
<1>7. ASSUME NEW s \in Session PROVE LoginsNext(n, s)
  BY <1>1, <1>3 DEF Untouched, Ordered, LoginsOrdered, LoginsNext, Completing
<1> QED BY <1>4, <1>5, <1>6, <1>7, OrderedNext
------------------------------------------------------------------------------
\* Each step keeps the order of every number that is not disturbed after it

LEMMA Moved ==
    ASSUME TypeOK, NEW r \in Request, NEW l, req' = [req EXCEPT ![r] = l]
    PROVE  req'[r] = l /\ \A q \in Request : q # r => req'[q] = req[q]
BY Typed

LEMMA MovedElsewhere ==
    ASSUME TypeOK, NEW r \in Request, NEW l, req' = [req EXCEPT ![r] = l], NEW n,
           req[r].pc = "idle" \/ req[r].num # n, l.pc = "idle" \/ l.num # n
    PROVE  \A q \in Request : req'[q] = req[q] \/ (Off(req[q], n) /\ Off(req'[q], n))
<1> SUFFICES ASSUME NEW q \in Request
             PROVE  req'[q] = req[q] \/ (Off(req[q], n) /\ Off(req'[q], n))
  OBVIOUS
<1>1. CASE q = r
  <2>1. req'[q] = l BY <1>1, Typed
  <2> QED BY <1>1, <2>1 DEF Off
<1>2. CASE q # r BY <1>2, Typed
<1> QED BY <1>1, <1>2

\* A command on another number, or a lost one, leaves the keys of n; a lost one
\* disturbs its number.
LEMMA WriteElsewhere ==
    ASSUME NEW r \in Request, NEW keys \in [Number -> Key], NEW key, NEW lost \in BOOLEAN,
           NEW n \in Number
    PROVE  /\ req[r].num # n => Write(r, keys, key, lost)[n] = keys[n]
           /\ req[r].num = n /\ ~lost => Write(r, keys, key, lost)[n] = key
BY DEF Write

LEMMA NotLost ==
    ASSUME NEW r \in Request, NEW lost \in BOOLEAN, Noticed(r, lost),
           NEW n \in Number \ disturbed', req[r].num = n
    PROVE  ~lost
BY DEF Noticed

\* Handlers at work on n, and what they have in hand, in the words of the types.
LEMMA KeyFacts ==
    ASSUME TypeOK, SessionsDrawn, NEW n \in Number
    PROVE  /\ pending[n].ttl \in 0 .. 3 /\ verified[n].ttl \in 0 .. 3 /\ session[n].ttl \in 0 .. 5
           /\ Live(pending[n]) => pending[n].ttl \in 1 .. 3
           /\ Live(verified[n]) => verified[n].ttl \in 1 .. 3
BY Typed DEF Key, SessionTTL, PendingTTL, VerifiedTTL, SessionsDrawn, Live

LEMMA LeftFacts == ASSUME TypeOK, NEW q \in Request PROVE req[q].left \in 0 .. 3
BY Typed DEF Local, PendingTTL

\* Without a session key and without a request that is about to set one,
\* nothing is backed.
LEMMA NothingBacked ==
    ASSUME TypeOK, SessionsDrawn, NEW n \in Number, ~Live(session[n]), Ordered(n),
           \A q \in Request : ~At(q, n, {"setSession"})
    PROVE  /\ \A s : \A t \in 1 .. 5 : ~Backed(n, s, t)
           /\ ~Live(pending[n]) /\ ~Live(verified[n])
           /\ \A q \in Request : ~At(q, n, Verifying)
           /\ \A q \in Request : ~At(q, n, {"delVerified", "getSession", "delSession"})
<1>1. session[n].ttl \in 0 .. 5 /\ ~(session[n].ttl > 0) BY KeyFacts DEF Live
<1>2. \A s : \A t \in 1 .. 5 : ~Backed(n, s, t) BY <1>1 DEF Backed
<1>3. ~Live(pending[n])
  <2> SUFFICES ASSUME Live(pending[n]) PROVE FALSE OBVIOUS
  <2>1. Backed(n, pending[n].by, pending[n].ttl + 2) BY DEF Ordered, KeysOrdered
  <2>2. pending[n].ttl + 2 \in 1 .. 5 BY KeyFacts
  <2> QED BY <1>2, <2>1, <2>2
<1>4. ~Live(verified[n])
  <2> SUFFICES ASSUME Live(verified[n]) PROVE FALSE OBVIOUS
  <2>1. Backed(n, verified[n].by, verified[n].ttl) BY DEF Ordered, KeysOrdered
  <2>2. verified[n].ttl \in 1 .. 5 BY KeyFacts
  <2> QED BY <1>2, <2>1, <2>2
<1>5. ASSUME NEW q \in Request
      PROVE  ~At(q, n, Verifying) /\ ~At(q, n, {"delVerified", "getSession", "delSession"})
  <2>1. VerifyOrdered(n, q) /\ CompleteOrdered(n, q) BY DEF Ordered
  <2>2. req[q].left > 0 => req[q].left + 2 \in 1 .. 5 BY LeftFacts
  <2> QED BY <1>2, <2>1, <2>2 DEF VerifyOrdered, CompleteOrdered
<1> QED BY <1>2, <1>3, <1>4, <1>5

\* A handler that logs a device in for its own request: its id was answered.
LEMMA LoginShown ==
    ASSUME TypeOK, SessionsDrawn, NEW q \in Request, req[q].pc = "login", req[q].by = req[q].sid
    PROVE  req[q].sid \in shown
<1>1. req[q].sid \in shown \cup {0} /\ req[q].by \in 1 .. issued
  BY DEF SessionsDrawn, Completing, Drew
<1>2. 0 \notin 1 .. issued BY QuickLoginAssumption, Typed
<1> QED BY <1>1, <1>2

LEMMA SetPendingOrdered ==
    ASSUME TypeOK, SessionsDrawn, NEW n \in Number \ disturbed', Ordered(n),
           NEW r \in Request, NEW lost \in BOOLEAN, SetPending(r, lost)
    PROVE  Ordered(n)'
<1> DEFINE l == [req[r] EXCEPT !.pc = "setSession"]
<1>1. req[r] \in Local BY Typed
<1>2. l.pc = "setSession" /\ l.num = req[r].num /\ l.sid = req[r].sid BY <1>1 DEF Local
<1>3. req' = [req EXCEPT ![r] = l] BY DEF SetPending, Goto
<1> HIDE DEF l
<1>4. req'[r] = l /\ \A q \in Request : q # r => req'[q] = req[q] BY <1>3, Moved
<1>5. CASE req[r].num # n
  <2>1. pending'[n] = pending[n] BY <1>5, WriteElsewhere, Typed DEF SetPending
  <2>2. Untouched(n) BY <1>2, <1>3, <1>5, <2>1, MovedElsewhere DEF SetPending, Untouched
  <2> QED BY <2>2, OthersOrdered
<1>6. CASE req[r].num = n
  <2>1. At(r, n, Requesting) BY <1>6 DEF SetPending, At, Requesting
  <2>2. ~Live(session[n]) /\ req[r].sid \notin shown BY <2>1 DEF Ordered, RequestOrdered
  <2>3. \A q \in Request : At(q, n, Requesting) => q = r BY <2>1 DEF Ordered, Alone
  <2>4. \A q \in Request : ~At(q, n, {"setSession"})
    BY <2>3 DEF SetPending, At, Requesting
  <2>5. /\ ~Live(pending[n]) /\ ~Live(verified[n])
        /\ \A q \in Request : ~At(q, n, Verifying)
        /\ \A q \in Request : ~At(q, n, {"delVerified", "getSession", "delSession"})
    BY <2>2, <2>4, NothingBacked
  <2>6. /\ pending'[n].ttl = 3 /\ pending'[n].by = req[r].sid
        /\ session' = session /\ verified' = verified /\ shown' = shown
        /\ drawn' = drawn /\ logins' = logins
    <3>1. ~lost BY <1>6, NotLost DEF SetPending
    <3>2. pending'[n] = [NoKey EXCEPT !.ttl = PendingTTL, !.by = req[r].sid]
      BY <1>6, <3>1, WriteElsewhere, Typed DEF SetPending
    <3> QED BY <3>2 DEF SetPending, NoKey, PendingTTL
  <2>7. \A q \in Request : /\ ~AtNext(q, n, Verifying)
                           /\ ~AtNext(q, n, {"delVerified", "getSession", "delSession"})
                           /\ AtNext(q, n, Completing) => At(q, n, {"login"}) /\ req'[q] = req[q]
                           /\ AtNext(q, n, Requesting) => q = r
    BY <1>2, <1>4, <2>3, <2>5 DEF At, AtNext, Requesting, Verifying, Completing
  <2>8. \A s : Spent(n, s) /\ s # req[r].sid => SpentNext(n, s)
    BY <2>6, <2>7 DEF Spent, SpentNext
  <2>9. AloneNext(n)
    BY <1>4, <2>7 DEF AloneNext, Ordered, Alone, At, AtNext, Completing
  <2>10. KeysNext(n) BY <1>2, <1>4, <1>6, <2>5, <2>6 DEF KeysNext, BackedNext, AtNext
  <2>11. ASSUME NEW q \in Request
         PROVE  RequestNext(n, q) /\ VerifyNext(n, q) /\ CompleteNext(n, q)
    <3>1. RequestNext(n, q) BY <1>2, <1>4, <2>2, <2>6, <2>7 DEF RequestNext
    <3>2. VerifyNext(n, q) BY <2>7 DEF VerifyNext, AtNext, Verifying
    <3>3. CASE AtNext(q, n, {"login"})
      <4>1. At(q, n, {"login"}) /\ req'[q] = req[q]
        BY <2>7, <3>3 DEF AtNext, Completing
      <4>2. req[q].by = req[q].sid /\ Spent(n, req[q].by) BY <4>1 DEF Ordered, CompleteOrdered, At
      <4>0. req[q].sid \in shown BY <4>1, <4>2, LoginShown DEF At
      <4>3. SpentNext(n, req'[q].by) BY <2>2, <2>8, <4>0, <4>1, <4>2
      <4> QED BY <3>1, <3>2, <3>3, <4>1, <4>2, <4>3 DEF CompleteNext, AtNext
    <3>4. CASE ~AtNext(q, n, {"login"})
      <4>1. ~AtNext(q, n, {"delVerified", "getSession", "delSession"}) BY <2>7
      <4> QED BY <3>1, <3>2, <3>4, <4>1 DEF CompleteNext, AtNext
    <3> QED BY <3>1, <3>2, <3>3, <3>4
  <2>12. ASSUME NEW s \in Session PROVE LoginsNext(n, s)
    BY <2>2, <2>6, <2>7, <2>8 DEF LoginsNext, Ordered, LoginsOrdered, At, Completing
  <2> QED BY <2>9, <2>10, <2>11, <2>12, OrderedNext
<1> QED BY <1>5, <1>6
\* A session key, and the requests that are about to set one, stay.
LEMMA BackedKept ==
    ASSUME NEW n, session'[n] = session[n], shown \subseteq shown',
           \A q \in Request : At(q, n, {"setSession"}) => req'[q] = req[q]
    PROVE  \A s, t : Backed(n, s, t) => BackedNext(n, s, t)
BY DEF Backed, BackedNext, At, AtNext

LEMMA BeginRequestOrdered ==
    ASSUME TypeOK, SessionsDrawn, NEW n \in Number \ disturbed', Ordered(n),
           NEW r \in Request, NEW m \in Number, BeginRequest(r, m)
    PROVE  Ordered(n)'
<1>1. PICK k : k = issued + 1 OBVIOUS
<1>2. PICK l : l = [Idle EXCEPT !.pc = "setPending", !.num = m, !.sid = k] OBVIOUS
<1>3. l.pc = "setPending" /\ l.num = m /\ l.sid = k BY <1>2 DEF Idle
<1>4. req' = [req EXCEPT ![r] = l] BY <1>1, <1>2 DEF BeginRequest
<1>5. req'[r] = l /\ \A q \in Request : q # r => req'[q] = req[q] BY <1>4, Moved
<1>6. k \in Session /\ k > issued
  BY <1>1, QuickLoginAssumption, Typed DEF BeginRequest, Session
<1>7. k \notin shown /\ logins[k] = 0
  BY <1>1, <1>6, DrawnFacts, QuickLoginAssumption, Typed
<1>8. drawn'[k] = m /\ \A s \in Session : s # k => drawn'[s] = drawn[s]
  BY <1>1, <1>6, Typed DEF BeginRequest
<1>9. /\ shown' = shown /\ pending' = pending /\ session' = session /\ verified' = verified
      /\ logins' = logins /\ req[r].pc = "idle"
  BY DEF BeginRequest
<1>10. CASE m # n
  <2>1. \A s \in Session : drawn'[s] = n => drawn[s] = n BY <1>8, <1>10
  <2>2. Untouched(n)
    BY <1>3, <1>4, <1>9, <1>10, <2>1, MovedElsewhere DEF Untouched
  <2> QED BY <2>2, OthersOrdered
<1>11. CASE m = n
  <2>1. \A q \in Request : ~At(q, n, Requesting) BY <1>11 DEF BeginRequest, Overlap, At
  <2>2. ~Live(session[n]) BY <1>11 DEF BeginRequest
  <2>3. \A q \in Request : /\ AtNext(q, n, Requesting) => q = r
                           /\ AtNext(q, n, Verifying) => At(q, n, Verifying) /\ q # r
                           /\ AtNext(q, n, Completing) => At(q, n, Completing) /\ q # r
    BY <1>3, <1>5, <2>1 DEF At, AtNext, Requesting, Verifying, Completing
  <2>4. \A s, t : Backed(n, s, t) => BackedNext(n, s, t)
    BY <1>5, <1>9, BackedKept DEF BeginRequest, At
  <2>5. (\A s : Spent(n, s) => SpentNext(n, s)) /\ (Settled(n) => SettledNext(n))
    BY <1>5, <1>9, <2>3 DEF Spent, SpentNext, Settled, SettledNext
  <2>6. AloneNext(n) BY <2>3 DEF AloneNext, Ordered, Alone
  <2>7. KeysNext(n) BY <1>9, <2>4 DEF KeysNext, Ordered, KeysOrdered
  <2>8. ASSUME NEW q \in Request
        PROVE  RequestNext(n, q) /\ VerifyNext(n, q) /\ CompleteNext(n, q)
    <3>1. RequestNext(n, q) BY <1>3, <1>5, <1>7, <1>9, <2>2, <2>3 DEF RequestNext
    <3>2. CASE q = r
      BY <1>3, <1>5, <3>1, <3>2 DEF VerifyNext, CompleteNext, AtNext, Verifying
    <3>3. CASE q # r
      <4>1. req'[q] = req[q] BY <1>5, <3>3
      <4>2. VerifyOrdered(n, q) /\ CompleteOrdered(n, q) BY DEF Ordered
      <4>3. VerifyNext(n, q)
        BY <1>9, <2>4, <4>1, <4>2 DEF VerifyNext, VerifyOrdered, At, AtNext
      <4>4. CompleteNext(n, q)
        BY <1>9, <2>4, <2>5, <4>1, <4>2 DEF CompleteNext, CompleteOrdered, At, AtNext
      <4> QED BY <3>1, <4>3, <4>4
    <3> QED BY <3>2, <3>3
  <2>9. ASSUME NEW s \in Session PROVE LoginsNext(n, s)
    <3> SUFFICES ASSUME drawn'[s] = n, logins'[s] > 0 PROVE LoginsNext(n, s) BY DEF LoginsNext
    <3>1. s # k BY <1>7, <1>9
    <3>2. drawn[s] = n /\ logins[s] > 0 BY <1>8, <1>9, <3>1
    <3>3. LoginsOrdered(n, s) BY DEF Ordered
    <3> QED BY <1>5, <1>9, <2>3, <2>5, <3>2, <3>3 DEF LoginsNext, LoginsOrdered
  <2> QED BY <2>6, <2>7, <2>8, <2>9, OrderedNext
<1> QED BY <1>10, <1>11

LEMMA SetSessionOrdered ==
    ASSUME TypeOK, SessionsDrawn, NEW n \in Number \ disturbed', Ordered(n),
           NEW r \in Request, NEW lost \in BOOLEAN, SetSession(r, lost)
    PROVE  Ordered(n)'
<1>1. req' = [req EXCEPT ![r] = Idle] BY DEF SetSession, End
<1>2. req'[r] = Idle /\ \A q \in Request : q # r => req'[q] = req[q] BY <1>1, Moved
<1>3. Idle.pc = "idle" BY DEF Idle
<1>4. /\ shown' = shown \cup {req[r].sid} /\ pending' = pending /\ verified' = verified
      /\ drawn' = drawn /\ logins' = logins
  BY DEF SetSession
<1>5. Drew(req[r].sid, req[r].num) BY DEF SetSession, SessionsDrawn, Requesting
<1>6. CASE req[r].num # n
  <2>1. session'[n] = session[n] BY <1>6, WriteElsewhere, Typed DEF SetSession
  <2>2. \A s \in shown' : s \in shown \/ drawn[s] # n BY <1>4, <1>5, <1>6 DEF Drew
  <2>3. Untouched(n) BY <1>1, <1>3, <1>4, <1>6, <2>1, <2>2, MovedElsewhere DEF Untouched
  <2> QED BY <2>3, OthersOrdered
<1>7. CASE req[r].num = n
  <2>1. PICK sid : sid = req[r].sid OBVIOUS
  <2>2. At(r, n, Requesting) BY <1>7 DEF SetSession, At, Requesting
  <2>3. ~Live(session[n]) BY <2>2 DEF Ordered, RequestOrdered
  <2>4. \A q \in Request : At(q, n, Requesting) => q = r BY <2>2 DEF Ordered, Alone
  <2>5. session'[n].ttl = 5 /\ session'[n].by = sid
    <3>1. ~lost BY <1>7, NotLost DEF SetSession
    <3>2. session'[n] = [NoKey EXCEPT !.ttl = SessionTTL, !.by = req[r].sid]
      BY <1>7, <3>1, WriteElsewhere, Typed DEF SetSession
    <3> QED BY <2>1, <3>2 DEF NoKey, SessionTTL
  <2>6. \A q \in Request : /\ ~AtNext(q, n, Requesting)
                           /\ AtNext(q, n, Verifying) => At(q, n, Verifying) /\ q # r
                           /\ AtNext(q, n, Completing) => At(q, n, Completing) /\ q # r
    BY <1>2, <1>3, <2>4 DEF At, AtNext, Requesting, Verifying, Completing
  <2>7. \A s : \A t \in 1 .. 5 : Backed(n, s, t) => BackedNext(n, s, t)
    <3> SUFFICES ASSUME NEW s, NEW t \in 1 .. 5, Backed(n, s, t) PROVE BackedNext(n, s, t)
      OBVIOUS
    <3>1. ~(session[n].ttl >= t) BY <2>3, KeyFacts DEF Live
    <3>2. s = sid BY <2>1, <2>4, <3>1 DEF Backed, At, Requesting
    <3> QED BY <1>4, <2>1, <2>5, <3>2 DEF BackedNext
  <2>8. (\A s : Spent(n, s) => SpentNext(n, s)) /\ (Settled(n) => SettledNext(n))
    BY <1>2, <1>4, <2>6 DEF Spent, SpentNext, Settled, SettledNext
  <2>9. AloneNext(n) BY <2>6 DEF AloneNext, Ordered, Alone
  <2>10. KeysNext(n)
    <3>1. Live(pending[n]) => pending[n].ttl + 2 \in 1 .. 5 BY KeyFacts
    <3>2. Live(verified[n]) => verified[n].ttl \in 1 .. 5 BY KeyFacts
    <3> QED BY <1>4, <2>7, <3>1, <3>2 DEF KeysNext, Ordered, KeysOrdered
  <2>11. ASSUME NEW q \in Request
         PROVE  RequestNext(n, q) /\ VerifyNext(n, q) /\ CompleteNext(n, q)
    <3>1. RequestNext(n, q) BY <2>6 DEF RequestNext
    <3>2. CASE q = r
      BY <1>2, <1>3, <3>1, <3>2 DEF VerifyNext, CompleteNext, AtNext, Verifying
    <3>3. CASE q # r
      <4>1. req'[q] = req[q] BY <1>2, <3>3
      <4>2. VerifyOrdered(n, q) /\ CompleteOrdered(n, q) BY DEF Ordered
      <4>0. req[q].left > 0 => req[q].left + 2 \in 1 .. 5 BY LeftFacts
      <4>3. VerifyNext(n, q)
        BY <1>4, <2>7, <4>0, <4>1, <4>2 DEF VerifyNext, VerifyOrdered, At, AtNext
      <4>4. ~At(q, n, {"delSession"}) BY <2>3, <4>2 DEF CompleteOrdered
      <4>5. CompleteNext(n, q)
        BY <1>4, <2>7, <2>8, <4>1, <4>2, <4>4 DEF CompleteNext, CompleteOrdered, At, AtNext
      <4> QED BY <3>1, <4>3, <4>5
    <3> QED BY <3>2, <3>3
  <2>12. ASSUME NEW s \in Session PROVE LoginsNext(n, s)
    BY <1>2, <1>4, <2>6, <2>8 DEF LoginsNext, Ordered, LoginsOrdered
  <2> QED BY <2>9, <2>10, <2>11, <2>12, OrderedNext
<1> QED BY <1>6, <1>7

LEMMA BeginVerifyOrdered ==
    ASSUME TypeOK, SessionsDrawn, NEW n \in Number \ disturbed', Ordered(n),
           NEW r \in Request, NEW u \in User, NEW m \in Number, BeginVerify(r, u, m)
    PROVE  Ordered(n)'
<1>1. PICK by : by = pending[m].by OBVIOUS
<1>2. PICK l : l = [Idle EXCEPT !.pc = "delPending", !.num = m, !.user = u,
                                !.by = by, !.left = pending[m].ttl]
  OBVIOUS
<1>3. l.pc = "delPending" /\ l.num = m /\ l.by = by /\ l.left = pending[m].ttl
  BY <1>2 DEF Idle
<1>4. req' = [req EXCEPT ![r] = l] BY <1>1, <1>2 DEF BeginVerify
<1>5. req'[r] = l /\ \A q \in Request : q # r => req'[q] = req[q] BY <1>4, Moved
<1>6. /\ shown' = shown /\ pending' = pending /\ session' = session /\ verified' = verified
      /\ logins' = logins /\ drawn' = drawn /\ req[r].pc = "idle"
  BY DEF BeginVerify
<1>7. CASE m # n
  <2>1. Untouched(n) BY <1>3, <1>4, <1>6, <1>7, MovedElsewhere DEF Untouched
  <2> QED BY <2>1, OthersOrdered
<1>8. CASE m = n
  <2>1. \A q \in Request : ~At(q, n, Verifying) BY <1>8 DEF BeginVerify, Overlap, At
  <2>2. Live(pending[n]) BY <1>8 DEF BeginVerify
  <2>3. \A q \in Request : /\ AtNext(q, n, Requesting) => At(q, n, Requesting) /\ q # r
                           /\ AtNext(q, n, Verifying) => q = r
                           /\ AtNext(q, n, Completing) => At(q, n, Completing) /\ q # r
    BY <1>3, <1>5, <2>1 DEF At, AtNext, Requesting, Verifying, Completing
  <2>4. \A s, t : Backed(n, s, t) => BackedNext(n, s, t)
    BY <1>5, <1>6, BackedKept DEF At
  <2>5. (\A s : Spent(n, s) => SpentNext(n, s)) /\ (Settled(n) => SettledNext(n))
    BY <1>1, <1>3, <1>5, <1>6, <1>8, <2>2, <2>3 DEF Spent, SpentNext, Settled, SettledNext
  <2>6. AloneNext(n) BY <2>3 DEF AloneNext, Ordered, Alone
  <2>7. KeysNext(n) BY <1>6, <2>4 DEF KeysNext, Ordered, KeysOrdered
  <2>8. ASSUME NEW q \in Request
        PROVE  RequestNext(n, q) /\ VerifyNext(n, q) /\ CompleteNext(n, q)
    <3>1. CASE q = r
      <4>1. ~Live(verified[n]) /\ Backed(n, by, pending[n].ttl + 2)
        BY <1>1, <1>8, <2>2 DEF Ordered, KeysOrdered
      <4>2. BackedNext(n, by, pending[n].ttl + 2) BY <2>4, <4>1
      <4>3. VerifyNext(n, q)
        BY <1>3, <1>5, <1>6, <1>8, <2>2, <3>1, <4>1, <4>2 DEF VerifyNext, AtNext, Live
      <4> QED BY <1>3, <1>5, <3>1, <4>3 DEF RequestNext, CompleteNext, AtNext, Requesting
    <3>2. CASE q # r
      <4>1. req'[q] = req[q] BY <1>5, <3>2
      <4>2. RequestOrdered(n, q) /\ CompleteOrdered(n, q) BY DEF Ordered
      <4>3. RequestNext(n, q)
        BY <1>6, <4>1, <4>2 DEF RequestNext, RequestOrdered, At, AtNext
      <4>4. VerifyNext(n, q) BY <2>3, <3>2 DEF VerifyNext, AtNext, Verifying
      <4>5. CompleteNext(n, q)
        BY <1>6, <2>4, <2>5, <4>1, <4>2 DEF CompleteNext, CompleteOrdered, At, AtNext
      <4> QED BY <4>3, <4>4, <4>5
    <3> QED BY <3>1, <3>2
  <2>9. ASSUME NEW s \in Session PROVE LoginsNext(n, s)
    BY <1>5, <1>6, <2>3, <2>5 DEF LoginsNext, Ordered, LoginsOrdered
  <2> QED BY <2>6, <2>7, <2>8, <2>9, OrderedNext
<1> QED BY <1>7, <1>8
LEMMA DelPendingOrdered ==
    ASSUME TypeOK, SessionsDrawn, NEW n \in Number \ disturbed', Ordered(n),
           NEW r \in Request, NEW lost \in BOOLEAN, DelPending(r, lost)
    PROVE  Ordered(n)'
<1>1. req[r] \in Local BY Typed
<1>2. PICK l : l = [req[r] EXCEPT !.pc = "setVerified"] OBVIOUS
<1>3. l.pc = "setVerified" /\ l.num = req[r].num /\ l.by = req[r].by /\ l.left = req[r].left
  BY <1>1, <1>2 DEF Local
<1>4. req' = [req EXCEPT ![r] = l] BY <1>2 DEF DelPending, Goto
<1>5. req'[r] = l /\ \A q \in Request : q # r => req'[q] = req[q] BY <1>4, Moved
<1>6. /\ shown' = shown /\ session' = session /\ verified' = verified
      /\ logins' = logins /\ drawn' = drawn /\ req[r].pc = "delPending"
  BY DEF DelPending
<1>7. CASE req[r].num # n
  <2>1. pending'[n] = pending[n] BY <1>7, WriteElsewhere, Typed DEF DelPending
  <2>2. Untouched(n) BY <1>3, <1>4, <1>6, <1>7, <2>1, MovedElsewhere DEF Untouched
  <2> QED BY <2>2, OthersOrdered
<1>8. CASE req[r].num = n
  <2>1. At(r, n, Verifying) BY <1>6, <1>8 DEF At, Verifying
  <2>2. \A q \in Request : At(q, n, Verifying) => q = r BY <2>1 DEF Ordered, Alone
  <2>3. ~Live(pending'[n])
    <3>1. ~lost BY <1>8, NotLost DEF DelPending
    <3>2. pending'[n] = NoKey BY <1>8, <3>1, WriteElsewhere, Typed DEF DelPending
    <3> QED BY <3>2 DEF NoKey, Live
  <2>4. \A q \in Request : /\ AtNext(q, n, Requesting) => At(q, n, Requesting) /\ q # r
                           /\ AtNext(q, n, Verifying) => q = r
                           /\ AtNext(q, n, Completing) => At(q, n, Completing) /\ q # r
    BY <1>3, <1>5, <2>2 DEF At, AtNext, Requesting, Verifying, Completing
  <2>5. \A s, t : Backed(n, s, t) => BackedNext(n, s, t)
    BY <1>5, <1>6, BackedKept DEF At
  <2>6. (\A s : Spent(n, s) => SpentNext(n, s)) /\ (Settled(n) => SettledNext(n))
    BY <1>3, <1>5, <1>6, <2>1, <2>3, <2>4 DEF Spent, SpentNext, Settled, SettledNext
  <2>7. AloneNext(n) BY <2>4 DEF AloneNext, Ordered, Alone
  <2>8. KeysNext(n) BY <1>6, <2>3, <2>5 DEF KeysNext, Ordered, KeysOrdered
  <2>9. ASSUME NEW q \in Request
        PROVE  RequestNext(n, q) /\ VerifyNext(n, q) /\ CompleteNext(n, q)
    <3>1. RequestOrdered(n, q) /\ VerifyOrdered(n, q) /\ CompleteOrdered(n, q) BY DEF Ordered
    <3>2. CASE q = r
      <4>1. VerifyNext(n, q)
        BY <1>3, <1>5, <1>6, <2>1, <2>3, <2>5, <3>1, <3>2
        DEF VerifyNext, VerifyOrdered, At, AtNext
      <4> QED BY <1>3, <1>5, <3>2, <4>1 DEF RequestNext, CompleteNext, AtNext, Requesting
    <3>3. CASE q # r
      <4>1. req'[q] = req[q] BY <1>5, <3>3
      <4>2. RequestNext(n, q)
        BY <1>6, <3>1, <4>1 DEF RequestNext, RequestOrdered, At, AtNext
      <4>3. VerifyNext(n, q) BY <2>4, <3>3 DEF VerifyNext, AtNext, Verifying
      <4>4. CompleteNext(n, q)
        BY <1>6, <2>5, <2>6, <3>1, <4>1 DEF CompleteNext, CompleteOrdered, At, AtNext
      <4> QED BY <4>2, <4>3, <4>4
    <3> QED BY <3>2, <3>3
  <2>10. ASSUME NEW s \in Session PROVE LoginsNext(n, s)
    BY <1>5, <1>6, <2>4, <2>6 DEF LoginsNext, Ordered, LoginsOrdered
  <2> QED BY <2>7, <2>8, <2>9, <2>10, OrderedNext
<1> QED BY <1>7, <1>8

LEMMA SetVerifiedOrdered ==
    ASSUME TypeOK, SessionsDrawn, NEW n \in Number \ disturbed', Ordered(n),
           NEW r \in Request, NEW lost \in BOOLEAN, SetVerified(r, lost)
    PROVE  Ordered(n)'
<1>1. req' = [req EXCEPT ![r] = Idle] BY DEF SetVerified, End
<1>2. req'[r] = Idle /\ \A q \in Request : q # r => req'[q] = req[q] BY <1>1, Moved
<1>3. Idle.pc = "idle" BY DEF Idle
<1>4. /\ shown' = shown /\ session' = session /\ pending' = pending
      /\ logins' = logins /\ drawn' = drawn /\ req[r].pc = "setVerified"
  BY DEF SetVerified
<1>5. CASE req[r].num # n
  <2>1. verified'[n] = verified[n] BY <1>5, WriteElsewhere, Typed DEF SetVerified
  <2>2. Untouched(n) BY <1>1, <1>3, <1>4, <1>5, <2>1, MovedElsewhere DEF Untouched
  <2> QED BY <2>2, OthersOrdered
<1>6. CASE req[r].num = n
  <2>1. PICK by : by = req[r].by OBVIOUS
  <2>2. At(r, n, Verifying) /\ At(r, n, {"setVerified"}) BY <1>4, <1>6 DEF At, Verifying
  <2>3. \A q \in Request : At(q, n, Verifying) => q = r BY <2>2 DEF Ordered, Alone
  <2>4. ~Live(pending[n]) /\ ~Live(verified[n]) /\ Backed(n, by, 3)
    <3>1. /\ ~Live(pending[n]) /\ ~Live(verified[n])
          /\ req[r].left > 0 /\ Backed(n, by, req[r].left + 2)
      BY <2>1, <2>2 DEF Ordered, VerifyOrdered
    <3>2. session[n].ttl >= req[r].left + 2 => session[n].ttl >= 3
      BY <3>1, KeyFacts, LeftFacts
    <3> QED BY <3>1, <3>2 DEF Backed
  <2>5. verified'[n].ttl = 3 /\ verified'[n].by = by
    <3>1. ~lost BY <1>6, NotLost DEF SetVerified
    <3>2. verified'[n] = [ttl |-> VerifiedTTL, by |-> req[r].by, user |-> req[r].user]
      BY <1>6, <3>1, WriteElsewhere, Typed DEF SetVerified
    <3> QED BY <2>1, <3>2 DEF VerifiedTTL
  <2>6. \A q \in Request : /\ AtNext(q, n, Requesting) => At(q, n, Requesting) /\ q # r
                           /\ ~AtNext(q, n, Verifying)
                           /\ AtNext(q, n, Completing) => At(q, n, Completing) /\ q # r
    BY <1>2, <1>3, <2>3 DEF At, AtNext, Requesting, Verifying, Completing
  <2>7. \A s, t : Backed(n, s, t) => BackedNext(n, s, t)
    BY <1>2, <1>4, BackedKept DEF At
  <2>8. (\A s : Spent(n, s) => SpentNext(n, s)) /\ (Settled(n) => SettledNext(n))
    BY <1>4, <2>1, <2>2, <2>5, <2>6 DEF Spent, SpentNext, Settled, SettledNext
  <2>9. AloneNext(n) BY <2>6 DEF AloneNext, Ordered, Alone
  <2>10. KeysNext(n) BY <1>4, <2>4, <2>5, <2>7 DEF KeysNext
  <2>11. ASSUME NEW q \in Request
         PROVE  RequestNext(n, q) /\ VerifyNext(n, q) /\ CompleteNext(n, q)
    <3>1. RequestOrdered(n, q) /\ CompleteOrdered(n, q) BY DEF Ordered
    <3>2. VerifyNext(n, q) BY <2>6 DEF VerifyNext, AtNext, Verifying
    <3>3. CASE q = r
      BY <1>2, <1>3, <3>2, <3>3 DEF RequestNext, CompleteNext, AtNext, Requesting
    <3>4. CASE q # r
      <4>1. req'[q] = req[q] BY <1>2, <3>4
      <4>2. RequestNext(n, q)
        BY <1>4, <3>1, <4>1 DEF RequestNext, RequestOrdered, At, AtNext
      <4>3. ~At(q, n, {"delVerified"}) BY <2>2, <3>1 DEF CompleteOrdered, Settled, At
      <4>4. CompleteNext(n, q)
        BY <1>4, <2>7, <2>8, <3>1, <4>1, <4>3 DEF CompleteNext, CompleteOrdered, At, AtNext
      <4> QED BY <3>2, <4>2, <4>4
    <3> QED BY <3>3, <3>4
  <2>12. ASSUME NEW s \in Session PROVE LoginsNext(n, s)
    BY <1>2, <1>4, <2>6, <2>8 DEF LoginsNext, Ordered, LoginsOrdered
  <2> QED BY <2>9, <2>10, <2>11, <2>12, OrderedNext
<1> QED BY <1>5, <1>6

LEMMA BeginCompleteOrdered ==
    ASSUME TypeOK, SessionsDrawn, NEW n \in Number \ disturbed', Ordered(n),
           NEW r \in Request, NEW s0 \in 0 .. MaxSessions, NEW m \in Number,
           BeginComplete(r, s0, m)
    PROVE  Ordered(n)'
<1>2. PICK by : by = verified[m].by OBVIOUS
<1>3. PICK l : l = [Idle EXCEPT !.pc = "delVerified", !.num = m, !.sid = s0,
                                !.user = verified[m].user, !.by = by]
  OBVIOUS
<1>4. l.pc = "delVerified" /\ l.num = m /\ l.by = by BY <1>3 DEF Idle
<1>5. req' = [req EXCEPT ![r] = l] BY <1>2, <1>3 DEF BeginComplete
<1>6. req'[r] = l /\ \A q \in Request : q # r => req'[q] = req[q] BY <1>5, Moved
<1>7. /\ shown' = shown /\ pending' = pending /\ session' = session /\ verified' = verified
      /\ logins' = logins /\ drawn' = drawn /\ req[r].pc = "idle"
  BY DEF BeginComplete
<1>8. CASE m # n
  <2>1. Untouched(n) BY <1>4, <1>5, <1>7, <1>8, MovedElsewhere DEF Untouched
  <2> QED BY <2>1, OthersOrdered
<1>9. CASE m = n
  <2>1. \A q \in Request : ~At(q, n, Completing) BY <1>9 DEF BeginComplete, Overlap, At
  <2>2. Live(verified[n]) BY <1>9 DEF BeginComplete
  <2>3. \A q \in Request : /\ AtNext(q, n, Requesting) => At(q, n, Requesting) /\ q # r
                           /\ AtNext(q, n, Verifying) => At(q, n, Verifying) /\ q # r
                           /\ AtNext(q, n, Completing) => q = r
    BY <1>4, <1>6, <2>1 DEF At, AtNext, Requesting, Verifying, Completing
  <2>4. \A s, t : Backed(n, s, t) => BackedNext(n, s, t)
    BY <1>6, <1>7, BackedKept DEF At
  <2>5. (\A s : Spent(n, s) => SpentNext(n, s)) /\ (Settled(n) => SettledNext(n))
    BY <1>6, <1>7, <2>3 DEF Spent, SpentNext, Settled, SettledNext
  <2>6. AloneNext(n) BY <2>3 DEF AloneNext, Ordered, Alone
  <2>7. KeysNext(n) BY <1>7, <2>4 DEF KeysNext, Ordered, KeysOrdered
  <2>8. ASSUME NEW q \in Request
        PROVE  RequestNext(n, q) /\ VerifyNext(n, q) /\ CompleteNext(n, q)
    <3>1. CASE q = r
      <4>1. Backed(n, by, verified[n].ttl)
        BY <1>2, <1>9, <2>2 DEF Ordered, KeysOrdered
      <4>2. Backed(n, by, 1)
        <5>1. session[n].ttl >= verified[n].ttl => session[n].ttl >= 1 BY <2>2, KeyFacts
        <5> QED BY <4>1, <5>1 DEF Backed
      <4>0. Settled(n) BY <2>2 DEF Ordered, KeysOrdered, VerifyOrdered, Settled
      <4>3. CompleteNext(n, q)
        BY <4>0, <2>5, <1>2, <1>4, <1>6, <1>7, <1>9, <2>2, <2>4, <3>1, <4>2 DEF CompleteNext, AtNext
      <4> QED BY <1>4, <1>6, <3>1, <4>3 DEF RequestNext, VerifyNext, AtNext, Requesting, Verifying
    <3>2. CASE q # r
      <4>1. req'[q] = req[q] BY <1>6, <3>2
      <4>2. RequestOrdered(n, q) /\ VerifyOrdered(n, q) BY DEF Ordered
      <4>3. RequestNext(n, q)
        BY <1>7, <4>1, <4>2 DEF RequestNext, RequestOrdered, At, AtNext
      <4>4. VerifyNext(n, q)
        BY <1>7, <2>4, <4>1, <4>2 DEF VerifyNext, VerifyOrdered, At, AtNext
      <4>5. CompleteNext(n, q) BY <2>3, <3>2 DEF CompleteNext, AtNext, Completing
      <4> QED BY <4>3, <4>4, <4>5
    <3> QED BY <3>1, <3>2
  <2>9. ASSUME NEW s \in Session PROVE LoginsNext(n, s)
    <3> SUFFICES ASSUME drawn'[s] = n, logins'[s] > 0 PROVE LoginsNext(n, s) BY DEF LoginsNext
    <3>1. LoginsOrdered(n, s) BY DEF Ordered
    <3>2. logins[s] = 1 /\ s \in shown /\ Spent(n, s) BY <1>7, <3>1 DEF LoginsOrdered
    <3>3. by # s BY <1>2, <1>9, <2>2, <3>2 DEF Spent
    <3> QED BY <1>4, <1>6, <1>7, <2>3, <2>5, <3>2, <3>3 DEF LoginsNext
  <2> QED BY <2>6, <2>7, <2>8, <2>9, OrderedNext
<1> QED BY <1>8, <1>9
LEMMA DelVerifiedOrdered ==
    ASSUME TypeOK, SessionsDrawn, NEW n \in Number \ disturbed', Ordered(n),
           NEW r \in Request, NEW lost \in BOOLEAN, DelVerified(r, lost)
    PROVE  Ordered(n)'
<1>1. req[r] \in Local BY Typed
<1>2. PICK l : l = [req[r] EXCEPT !.pc = "getSession"] OBVIOUS
<1>3. l.pc = "getSession" /\ l.num = req[r].num /\ l.by = req[r].by BY <1>1, <1>2 DEF Local
<1>4. req' = [req EXCEPT ![r] = l] BY <1>2 DEF DelVerified, Goto
<1>5. req'[r] = l /\ \A q \in Request : q # r => req'[q] = req[q] BY <1>4, Moved
<1>6. /\ shown' = shown /\ session' = session /\ pending' = pending
      /\ logins' = logins /\ drawn' = drawn /\ req[r].pc = "delVerified"
  BY DEF DelVerified
<1>7. CASE req[r].num # n
  <2>1. verified'[n] = verified[n] BY <1>7, WriteElsewhere, Typed DEF DelVerified
  <2>2. Untouched(n) BY <1>3, <1>4, <1>6, <1>7, <2>1, MovedElsewhere DEF Untouched
  <2> QED BY <2>2, OthersOrdered
<1>8. CASE req[r].num = n
  <2>1. At(r, n, Completing) /\ At(r, n, {"delVerified"}) BY <1>6, <1>8 DEF At, Completing
  <2>2. \A q \in Request : At(q, n, Completing) => q = r BY <2>1 DEF Ordered, Alone
  <2>3. Settled(n) /\ Backed(n, req[r].by, 1)
    <3>1. CompleteOrdered(n, r) BY DEF Ordered
    <3> QED BY <1>6, <1>8, <3>1 DEF CompleteOrdered, At
  <2>4. ~Live(pending[n]) BY <2>3 DEF Settled
  <2>5. \A q \in Request : ~At(q, n, Verifying) BY <2>3 DEF Settled
  <2>6. ~Live(verified'[n])
    <3>1. ~lost BY <1>8, NotLost DEF DelVerified
    <3>2. verified'[n] = NoKey BY <1>8, <3>1, WriteElsewhere, Typed DEF DelVerified
    <3> QED BY <3>2 DEF NoKey, Live
  <2>7. \A q \in Request : /\ AtNext(q, n, Requesting) => At(q, n, Requesting) /\ q # r
                           /\ ~AtNext(q, n, Verifying)
                           /\ AtNext(q, n, Completing) => q = r
    BY <1>3, <1>5, <2>2, <2>5 DEF At, AtNext, Requesting, Verifying, Completing
  <2>8. \A s, t : Backed(n, s, t) => BackedNext(n, s, t)
    BY <1>5, <1>6, BackedKept DEF At
  <2>9. SettledNext(n) /\ \A s : SpentNext(n, s)
    BY <1>6, <2>4, <2>6, <2>7 DEF SpentNext, SettledNext
  <2>10. AloneNext(n) BY <2>7 DEF AloneNext, Ordered, Alone
  <2>11. KeysNext(n) BY <1>6, <2>4, <2>6 DEF KeysNext
  <2>12. ASSUME NEW q \in Request
         PROVE  RequestNext(n, q) /\ VerifyNext(n, q) /\ CompleteNext(n, q)
    <3>1. VerifyNext(n, q) BY <2>7 DEF VerifyNext, AtNext, Verifying
    <3>2. CASE q = r
      <4>1. CompleteNext(n, q)
        BY <1>3, <1>5, <2>3, <2>8, <2>9, <3>2 DEF CompleteNext, AtNext
      <4> QED BY <1>3, <1>5, <3>1, <3>2, <4>1 DEF RequestNext, AtNext, Requesting
    <3>3. CASE q # r
      <4>1. req'[q] = req[q] BY <1>5, <3>3
      <4>2. RequestOrdered(n, q) BY DEF Ordered
      <4>3. RequestNext(n, q)
        BY <1>6, <4>1, <4>2 DEF RequestNext, RequestOrdered, At, AtNext
      <4>4. CompleteNext(n, q) BY <2>7, <3>3 DEF CompleteNext, AtNext, Completing
      <4> QED BY <3>1, <4>3, <4>4
    <3> QED BY <3>2, <3>3
  <2>13. ASSUME NEW s \in Session PROVE LoginsNext(n, s)
    BY <1>3, <1>5, <1>6, <2>1, <2>7, <2>9 DEF LoginsNext, Ordered, LoginsOrdered
  <2> QED BY <2>10, <2>11, <2>12, <2>13, OrderedNext
<1> QED BY <1>7, <1>8

\* A handler that ends, and does not owe its session key, leaves the rest as it is.
LEMMA EndOrdered ==
    ASSUME TypeOK, SessionsDrawn, NEW n \in Number, Ordered(n),
           NEW r \in Request, req' = [req EXCEPT ![r] = Idle],
           UNCHANGED <<shown, session, pending, verified, drawn, logins>>,
           ~At(r, n, {"setSession"})
    PROVE  Ordered(n)'
<1>1. req'[r] = Idle /\ \A q \in Request : q # r => req'[q] = req[q] BY Moved
<1>2. Idle.pc = "idle" BY DEF Idle
<1>3. \A q \in Request : /\ AtNext(q, n, Requesting) => At(q, n, Requesting) /\ q # r
                         /\ AtNext(q, n, Verifying) => At(q, n, Verifying) /\ q # r
                         /\ AtNext(q, n, Completing) => At(q, n, Completing) /\ q # r
  BY <1>1, <1>2 DEF At, AtNext, Requesting, Verifying, Completing
<1>4. \A s, t : Backed(n, s, t) => BackedNext(n, s, t)
  BY <1>1, BackedKept
<1>5. (\A s : Spent(n, s) => SpentNext(n, s)) /\ (Settled(n) => SettledNext(n))
  BY <1>1, <1>3 DEF Spent, SpentNext, Settled, SettledNext
<1>6. AloneNext(n) BY <1>3 DEF AloneNext, Ordered, Alone
<1>7. KeysNext(n) BY <1>4 DEF KeysNext, Ordered, KeysOrdered
<1>8. ASSUME NEW q \in Request
      PROVE  RequestNext(n, q) /\ VerifyNext(n, q) /\ CompleteNext(n, q)
  <2>1. CASE q = r
    BY <1>1, <1>2, <2>1
    DEF RequestNext, VerifyNext, CompleteNext, AtNext, Requesting, Verifying
  <2>2. CASE q # r
    <3>1. req'[q] = req[q] BY <1>1, <2>2
    <3>2. RequestOrdered(n, q) /\ VerifyOrdered(n, q) /\ CompleteOrdered(n, q) BY DEF Ordered
    <3>3. RequestNext(n, q) BY <3>1, <3>2 DEF RequestNext, RequestOrdered, At, AtNext
    <3>4. VerifyNext(n, q) BY <1>4, <3>1, <3>2 DEF VerifyNext, VerifyOrdered, At, AtNext
    <3>5. CompleteNext(n, q)
      BY <1>4, <1>5, <3>1, <3>2 DEF CompleteNext, CompleteOrdered, At, AtNext
    <3> QED BY <3>3, <3>4, <3>5
  <2> QED BY <2>1, <2>2
<1>9. ASSUME NEW s \in Session PROVE LoginsNext(n, s)
  BY <1>1, <1>3, <1>5 DEF LoginsNext, Ordered, LoginsOrdered
<1> QED BY <1>6, <1>7, <1>8, <1>9, OrderedNext

LEMMA GetSessionOrdered ==
    ASSUME TypeOK, SessionsDrawn, NEW n \in Number \ disturbed', Ordered(n),
           NEW r \in Request, GetSession(r)
    PROVE  Ordered(n)'
<1>1. req[r] \in Local BY Typed
<1>2. /\ shown' = shown /\ session' = session /\ pending' = pending /\ verified' = verified
      /\ logins' = logins /\ drawn' = drawn /\ req[r].pc = "getSession"
  BY DEF GetSession
<1>3. CASE ~Live(session[req[r].num])
  <2>1. req' = [req EXCEPT ![r] = Idle] BY <1>3 DEF GetSession, End
  <2> QED BY <1>2, <2>1, EndOrdered DEF At
<1>4. CASE Live(session[req[r].num])
  <2>1. PICK stored : stored = session[req[r].num].by OBVIOUS
  <2>2. PICK l : l = [req[r] EXCEPT !.pc = "delSession", !.stored = stored] OBVIOUS
  <2>3. l.pc = "delSession" /\ l.num = req[r].num /\ l.by = req[r].by /\ l.stored = stored
    BY <1>1, <2>2 DEF Local
  <2>4. req' = [req EXCEPT ![r] = l] BY <1>4, <2>1, <2>2 DEF GetSession
  <2>5. req'[r] = l /\ \A q \in Request : q # r => req'[q] = req[q] BY <2>4, Moved
  <2>6. CASE req[r].num # n
    <3>1. Untouched(n) BY <1>2, <2>3, <2>4, <2>6, MovedElsewhere DEF Untouched
    <3> QED BY <3>1, OthersOrdered
  <2>7. CASE req[r].num = n
    <3>1. At(r, n, Completing) /\ At(r, n, {"getSession"}) BY <1>2, <2>7 DEF At, Completing
    <3>2. \A q \in Request : At(q, n, Completing) => q = r BY <3>1 DEF Ordered, Alone
    <3>3. Settled(n) /\ Backed(n, req[r].by, 1) /\ Spent(n, req[r].by)
      <4>1. CompleteOrdered(n, r) BY DEF Ordered
      <4> QED BY <1>2, <2>7, <4>1 DEF CompleteOrdered, At
    <3>4. \A q \in Request : ~At(q, n, {"setSession"})
      BY <1>4, <2>7 DEF Ordered, RequestOrdered, At, Requesting
    <3>5. stored = req[r].by BY <2>1, <2>7, <3>3, <3>4 DEF Backed
    <3>6. \A q \in Request : /\ AtNext(q, n, Requesting) => At(q, n, Requesting) /\ q # r
                             /\ AtNext(q, n, Verifying) => At(q, n, Verifying) /\ q # r
                             /\ AtNext(q, n, Completing) => q = r
      BY <2>3, <2>5, <3>2 DEF At, AtNext, Requesting, Verifying, Completing
    <3>7. \A s, t : Backed(n, s, t) => BackedNext(n, s, t)
      BY <1>2, <2>5, BackedKept DEF At
    <3>8. (\A s : Spent(n, s) => SpentNext(n, s)) /\ (Settled(n) => SettledNext(n))
      BY <1>2, <2>5, <3>6 DEF Spent, SpentNext, Settled, SettledNext
    <3>9. AloneNext(n) BY <3>6 DEF AloneNext, Ordered, Alone
    <3>10. KeysNext(n) BY <1>2, <3>7 DEF KeysNext, Ordered, KeysOrdered
    <3>11. ASSUME NEW q \in Request
           PROVE  RequestNext(n, q) /\ VerifyNext(n, q) /\ CompleteNext(n, q)
      <4>1. CASE q = r
        <5>1. CompleteNext(n, q)
          BY <1>2, <1>4, <2>3, <2>5, <2>7, <3>3, <3>5, <3>7, <3>8, <4>1 DEF CompleteNext, AtNext
        <5> QED
          BY <2>3, <2>5, <4>1, <5>1 DEF RequestNext, VerifyNext, AtNext, Requesting, Verifying
      <4>2. CASE q # r
        <5>1. req'[q] = req[q] BY <2>5, <4>2
        <5>2. RequestOrdered(n, q) /\ VerifyOrdered(n, q) BY DEF Ordered
        <5>3. RequestNext(n, q)
          BY <1>2, <5>1, <5>2 DEF RequestNext, RequestOrdered, At, AtNext
        <5>4. VerifyNext(n, q)
          BY <1>2, <3>7, <5>1, <5>2 DEF VerifyNext, VerifyOrdered, At, AtNext
        <5>5. CompleteNext(n, q) BY <3>6, <4>2 DEF CompleteNext, AtNext, Completing
        <5> QED BY <5>3, <5>4, <5>5
      <4> QED BY <4>1, <4>2
    <3>12. ASSUME NEW s \in Session PROVE LoginsNext(n, s)
      BY <1>2, <2>3, <2>5, <3>1, <3>6, <3>8 DEF LoginsNext, Ordered, LoginsOrdered
    <3> QED BY <3>9, <3>10, <3>11, <3>12, OrderedNext
  <2> QED BY <2>6, <2>7
<1> QED BY <1>3, <1>4
LEMMA DelSessionOrdered ==
    ASSUME TypeOK, SessionsDrawn, NEW n \in Number \ disturbed', Ordered(n),
           NEW r \in Request, NEW lost \in BOOLEAN, DelSession(r, lost)
    PROVE  Ordered(n)'
<1>1. req[r] \in Local BY Typed
<1>2. PICK to : to = [req[r] EXCEPT !.pc = "login"] OBVIOUS
<1>3. /\ to.pc = "login" /\ to.num = req[r].num /\ to.by = req[r].by /\ to.sid = req[r].sid
  BY <1>1, <1>2 DEF Local
<1>4. PICK l : l = IF req[r].sid = req[r].stored THEN to ELSE Idle OBVIOUS
<1>5. /\ l.pc = "idle" \/ (l.num = req[r].num /\ l.by = req[r].by /\ l.sid = req[r].sid)
      /\ l.pc = "idle" \/ (l.pc = "login" /\ req[r].sid = req[r].stored)
  BY <1>3, <1>4 DEF Idle
<1>6. req' = [req EXCEPT ![r] = l] BY <1>2, <1>4 DEF DelSession, Goto, End
<1>7. req'[r] = l /\ \A q \in Request : q # r => req'[q] = req[q] BY <1>6, Moved
<1>8. /\ shown' = shown /\ pending' = pending /\ verified' = verified
      /\ logins' = logins /\ drawn' = drawn /\ req[r].pc = "delSession"
  BY DEF DelSession
<1>9. CASE req[r].num # n
  <2>1. session'[n] = session[n] BY <1>9, WriteElsewhere, Typed DEF DelSession
  <2>2. Untouched(n) BY <1>5, <1>6, <1>8, <1>9, <2>1, MovedElsewhere DEF Untouched
  <2> QED BY <2>2, OthersOrdered
<1>10. CASE req[r].num = n
  <2>1. PICK by : by = req[r].by OBVIOUS
  <2>2. At(r, n, Completing) /\ At(r, n, {"delSession"}) BY <1>8, <1>10 DEF At, Completing
  <2>3. \A q \in Request : At(q, n, Completing) => q = r BY <2>2 DEF Ordered, Alone
  <2>4. Live(session[n]) /\ req[r].stored = by /\ Backed(n, by, 1) /\ Spent(n, by)
    <3>1. CompleteOrdered(n, r) BY DEF Ordered
    <3> QED BY <1>8, <1>10, <2>1, <3>1 DEF CompleteOrdered, At
  <2>5. \A q \in Request : ~At(q, n, Requesting) BY <2>4 DEF Ordered, RequestOrdered
  <2>6. \A q \in Request : ~At(q, n, {"setSession"}) BY <2>5 DEF At, Requesting
  <2>7. \A s, t : Backed(n, s, t) => s = by BY <2>4, <2>6 DEF Backed
  <2>8. ~Live(pending[n]) /\ ~Live(verified[n])
    BY <2>4, <2>7 DEF Ordered, KeysOrdered, Spent
  <2>9. \A q \in Request : ~At(q, n, Verifying)
    BY <2>4, <2>7 DEF Ordered, VerifyOrdered, Spent
  <2>10. ~Live(session'[n])
    <3>1. ~lost BY <1>10, NotLost DEF DelSession
    <3>2. session'[n] = NoKey BY <1>10, <3>1, WriteElsewhere, Typed DEF DelSession
    <3> QED BY <3>2 DEF NoKey, Live
  <2>11. \A q \in Request : /\ ~AtNext(q, n, Requesting)
                            /\ ~AtNext(q, n, Verifying)
                            /\ AtNext(q, n, Completing) => q = r
    BY <1>5, <1>7, <2>3, <2>5, <2>9 DEF At, AtNext, Requesting, Verifying, Completing
  <2>12. \A s : SpentNext(n, s) BY <1>8, <2>8, <2>11 DEF SpentNext
  <2>13. AloneNext(n) BY <2>11 DEF AloneNext
  <2>14. KeysNext(n) BY <1>8, <2>8 DEF KeysNext
  <2>15. ASSUME NEW q \in Request
         PROVE  RequestNext(n, q) /\ VerifyNext(n, q) /\ CompleteNext(n, q)
    <3>1. RequestNext(n, q) BY <2>11 DEF RequestNext
    <3>2. VerifyNext(n, q) BY <2>11 DEF VerifyNext, AtNext, Verifying
    <3>3. CASE q = r
      <4>1. CompleteNext(n, q)
        BY <1>5, <1>7, <2>1, <2>4, <2>12, <3>3 DEF CompleteNext, AtNext
      <4> QED BY <3>1, <3>2, <4>1
    <3>4. CASE q # r
      BY <2>11, <3>1, <3>2, <3>4 DEF CompleteNext, AtNext, Completing
    <3> QED BY <3>3, <3>4
  <2>16. ASSUME NEW s \in Session PROVE LoginsNext(n, s)
    <3> SUFFICES ASSUME drawn'[s] = n, logins'[s] > 0 PROVE LoginsNext(n, s) BY DEF LoginsNext
    <3>1. LoginsOrdered(n, s) BY DEF Ordered
    <3>2. logins[s] = 1 /\ s \in shown /\ by # s BY <1>8, <2>1, <2>2, <3>1 DEF LoginsOrdered
    <3>3. \A q \in Request : AtNext(q, n, Completing) => req'[q].by = by
      BY <1>5, <1>7, <2>1, <2>11 DEF AtNext, Completing
    <3> QED BY <1>8, <2>12, <3>2, <3>3 DEF LoginsNext
  <2> QED BY <2>13, <2>14, <2>15, <2>16, OrderedNext
<1> QED BY <1>9, <1>10

LEMMA LoginOrdered ==
    ASSUME TypeOK, SessionsDrawn, NEW n \in Number \ disturbed', Ordered(n),
           NEW r \in Request, NEW allowed \in BOOLEAN, Login(r, allowed)
    PROVE  Ordered(n)'
<1>1. PICK by : by = req[r].by OBVIOUS
<1>2. req' = [req EXCEPT ![r] = Idle] BY DEF Login, End
<1>3. req'[r] = Idle /\ \A q \in Request : q # r => req'[q] = req[q] BY <1>2, Moved
<1>4. Idle.pc = "idle" BY DEF Idle
<1>5. /\ shown' = shown /\ pending' = pending /\ verified' = verified /\ session' = session
      /\ drawn' = drawn /\ req[r].pc = "login"
  BY DEF Login
<1>6. Drew(by, req[r].num) BY <1>1, <1>5 DEF SessionsDrawn, Completing
<1>7. \A s \in Session : s # by => logins'[s] = logins[s] BY <1>1, Typed DEF Login
<1>8. CASE req[r].num # n
  <2>1. \A s \in Session : drawn'[s] = n => drawn[s] = n /\ logins'[s] = logins[s]
    BY <1>5, <1>6, <1>7, <1>8 DEF Drew
  <2>2. \A q \in Request : req'[q] = req[q] \/ (Off(req[q], n) /\ Off(req'[q], n))
    BY <1>2, <1>4, <1>8, MovedElsewhere
  <2>3. Untouched(n) BY <1>5, <2>1, <2>2 DEF Untouched
  <2> QED BY <2>3, OthersOrdered
<1>9. CASE req[r].num = n
  <2>1. At(r, n, Completing) /\ At(r, n, {"login"}) BY <1>5, <1>9 DEF At, Completing
  <2>2. \A q \in Request : At(q, n, Completing) => q = r BY <2>1 DEF Ordered, Alone
  <2>3. Spent(n, by) /\ by \in shown
    <3>1. CompleteOrdered(n, r) BY DEF Ordered
    <3>2. Spent(n, by) /\ req[r].by = req[r].sid
      BY <1>1, <1>5, <1>9, <3>1 DEF CompleteOrdered, At
    <3> QED BY <1>1, <1>5, <3>2, LoginShown
  <2>4. \A q \in Request : /\ AtNext(q, n, Requesting) => At(q, n, Requesting) /\ q # r
                           /\ AtNext(q, n, Verifying) => At(q, n, Verifying) /\ q # r
                           /\ ~AtNext(q, n, Completing)
    BY <1>3, <1>4, <1>5, <2>2 DEF At, AtNext, Requesting, Verifying, Completing
  <2>5. \A s, t : Backed(n, s, t) => BackedNext(n, s, t)
    BY <1>3, <1>5, BackedKept DEF At
  <2>6. (\A s : Spent(n, s) => SpentNext(n, s)) /\ (Settled(n) => SettledNext(n))
    BY <1>3, <1>5, <2>4 DEF Spent, SpentNext, Settled, SettledNext
  <2>7. AloneNext(n) BY <2>4 DEF AloneNext, Ordered, Alone
  <2>8. KeysNext(n) BY <1>5, <2>5 DEF KeysNext, Ordered, KeysOrdered
  <2>9. ASSUME NEW q \in Request
        PROVE  RequestNext(n, q) /\ VerifyNext(n, q) /\ CompleteNext(n, q)
    <3>1. CompleteNext(n, q) BY <2>4 DEF CompleteNext, AtNext, Completing
    <3>2. CASE q = r
      BY <1>3, <1>4, <3>1, <3>2 DEF RequestNext, VerifyNext, AtNext, Requesting, Verifying
    <3>3. CASE q # r
      <4>1. req'[q] = req[q] BY <1>3, <3>3
      <4>2. RequestOrdered(n, q) /\ VerifyOrdered(n, q) BY DEF Ordered
      <4>3. RequestNext(n, q)
        BY <1>5, <4>1, <4>2 DEF RequestNext, RequestOrdered, At, AtNext
      <4>4. VerifyNext(n, q)
        BY <1>5, <2>5, <4>1, <4>2 DEF VerifyNext, VerifyOrdered, At, AtNext
      <4> QED BY <3>1, <4>3, <4>4
    <3> QED BY <3>2, <3>3
  <2>10. ASSUME NEW s \in Session PROVE LoginsNext(n, s)
    <3> SUFFICES ASSUME drawn'[s] = n, logins'[s] > 0 PROVE LoginsNext(n, s) BY DEF LoginsNext
    <3>1. LoginsOrdered(n, s) BY DEF Ordered
    <3>2. CASE s = by
      <4>1. ~(logins[s] > 0) BY <1>1, <1>5, <2>1, <3>1, <3>2 DEF LoginsOrdered
      <4>2. logins[s] = 0 BY <4>1, Typed
      <4>3. logins'[s] = 1 BY <1>1, <3>2, <4>2, Typed DEF Login
      <4> QED BY <1>5, <2>3, <2>4, <2>6, <3>2, <4>3 DEF LoginsNext
    <3>3. CASE s # by
      BY <1>5, <1>7, <2>4, <2>6, <3>1, <3>3 DEF LoginsNext, LoginsOrdered
    <3> QED BY <3>2, <3>3
  <2> QED BY <2>7, <2>8, <2>9, <2>10, OrderedNext
<1> QED BY <1>8, <1>9

LEMMA CrashOrdered ==
    ASSUME TypeOK, SessionsDrawn, NEW n \in Number \ disturbed', Ordered(n),
           NEW r \in Request, Crash(r)
    PROVE  Ordered(n)'
<1>1. req' = [req EXCEPT ![r] = Idle] BY DEF Crash, End
<1>2. Idle.pc = "idle" BY DEF Idle
<1>3. req[r].num # n BY DEF Crash
<1>4. /\ shown' = shown /\ pending' = pending /\ verified' = verified /\ session' = session
      /\ drawn' = drawn /\ logins' = logins
  BY DEF Crash
<1>5. Untouched(n) BY <1>1, <1>2, <1>3, <1>4, MovedElsewhere DEF Untouched
<1> QED BY <1>5, OthersOrdered

LEMMA AgeFacts ==
    ASSUME NEW key \in Key
    PROVE  /\ Live(Age(key)) => key.ttl >= 2 /\ Age(key).ttl = key.ttl - 1 /\ Age(key).by = key.by
           /\ key.ttl >= 2 => Live(Age(key))
BY DEF Age, NoKey, Live, Key

LEMMA TickOrdered ==
    ASSUME TypeOK, SessionsDrawn, NEW n \in Number \ disturbed', Ordered(n), Tick
    PROVE  Ordered(n)'
<1>1. \A q \in Request :
          /\ req'[q].pc = req[q].pc /\ req'[q].num = req[q].num /\ req'[q].sid = req[q].sid
          /\ req'[q].by = req[q].by /\ req'[q].stored = req[q].stored
          /\ req[q].left > 1 => req'[q].left = req[q].left - 1 /\ req'[q].left > 0
  <2>1. \A q \in Request : req'[q] = Waiting(req[q]) BY DEF Tick, Waiting
  <2> QED BY <2>1, WaitingTyped, Typed
<1>2. \A q \in Request : \A kind : AtNext(q, n, kind) <=> At(q, n, kind) BY <1>1 DEF At, AtNext
<1>3. /\ pending'[n] = Age(pending[n]) /\ session'[n] = Age(session[n])
      /\ verified'[n] = Age(verified[n]) /\ shown' = shown /\ drawn' = drawn /\ logins' = logins
  BY DEF Tick
<1>4. /\ Live(pending'[n]) => /\ pending[n].ttl >= 2 /\ pending'[n].ttl = pending[n].ttl - 1
                              /\ pending'[n].by = pending[n].by
      /\ Live(verified'[n]) => /\ verified[n].ttl >= 2 /\ verified'[n].ttl = verified[n].ttl - 1
                               /\ verified'[n].by = verified[n].by
      /\ session[n].ttl >= 2 => /\ session'[n].ttl = session[n].ttl - 1
                                /\ session'[n].by = session[n].by
  BY <1>3, AgeFacts, Typed
<1>5. /\ pending[n].ttl \in Nat /\ verified[n].ttl \in Nat /\ session[n].ttl \in Nat
  BY KeyFacts
<1>0. /\ Live(pending'[n]) => Live(pending[n])
      /\ Live(verified'[n]) => Live(verified[n])
      /\ ~Live(session[n]) => ~Live(session'[n])
  BY <1>3, <1>4, <1>5, AgeFacts, Typed DEF Live
<1>6. ASSUME NEW s, NEW t \in Nat, t >= 2, Backed(n, s, t)
      PROVE  BackedNext(n, s, t - 1)
  <2>1. CASE session[n].by = s /\ s \in shown /\ session[n].ttl >= t
    <3>1. session[n].ttl >= 2 BY <1>5, <1>6, <2>1
    <3>2. session'[n].ttl >= t - 1 BY <1>4, <1>5, <2>1, <3>1
    <3> QED BY <1>3, <1>4, <2>1, <3>1, <3>2 DEF BackedNext
  <2>2. CASE \E r \in Request : At(r, n, {"setSession"}) /\ req[r].sid = s
    BY <1>1, <1>2, <2>2 DEF BackedNext
  <2> QED BY <1>6, <2>1, <2>2 DEF Backed
<1>7. KeysNext(n)
  <2>1. ASSUME Live(pending'[n])
        PROVE  ~Live(verified'[n]) /\ BackedNext(n, pending'[n].by, pending'[n].ttl + 2)
    <3>1. Live(pending[n]) BY <1>0, <2>1
    <3>2. ~Live(verified[n]) /\ Backed(n, pending[n].by, pending[n].ttl + 2)
      BY <3>1 DEF Ordered, KeysOrdered
    <3>3. BackedNext(n, pending[n].by, (pending[n].ttl + 2) - 1) BY <1>5, <1>6, <3>2
    <3>4. (pending[n].ttl + 2) - 1 = pending'[n].ttl + 2 BY <1>4, <1>5, <2>1
    <3> QED BY <1>0, <1>4, <2>1, <3>2, <3>3, <3>4
  <2>2. ASSUME Live(verified'[n])
        PROVE  BackedNext(n, verified'[n].by, verified'[n].ttl)
    <3>1. Backed(n, verified[n].by, verified[n].ttl) BY <1>0, <2>2 DEF Ordered, KeysOrdered
    <3>2. BackedNext(n, verified[n].by, verified[n].ttl - 1) BY <1>4, <1>5, <1>6, <2>2, <3>1
    <3> QED BY <1>4, <2>2, <3>2
  <2> QED BY <2>1, <2>2 DEF KeysNext
<1>8. (\A s : Spent(n, s) => SpentNext(n, s)) /\ (Settled(n) => SettledNext(n))
  BY <1>0, <1>1, <1>2, <1>4 DEF Spent, SpentNext, Settled, SettledNext
<1>9. AloneNext(n) BY <1>2 DEF AloneNext, Ordered, Alone
<1>10. ASSUME NEW q \in Request
       PROVE  RequestNext(n, q) /\ VerifyNext(n, q) /\ CompleteNext(n, q)
  <2>1. RequestOrdered(n, q) /\ VerifyOrdered(n, q) /\ CompleteOrdered(n, q) BY DEF Ordered
  <2>2. ~Overtaken(q, n) BY DEF Tick
  <2>3. RequestNext(n, q) BY <1>0, <1>1, <1>2, <1>3, <2>1 DEF RequestOrdered, RequestNext
  <2>4. VerifyNext(n, q)
    <3>1. AtNext(q, n, {"setVerified"}) => ~Live(pending'[n])
      BY <1>0, <1>2, <2>1 DEF VerifyOrdered
    <3>2. ASSUME AtNext(q, n, Verifying)
          PROVE  /\ ~Live(verified'[n]) /\ req'[q].left > 0
                 /\ BackedNext(n, req'[q].by, req'[q].left + 2)
      <4>1. At(q, n, Verifying) BY <1>2, <3>2
      <4>2. ~Live(verified[n]) /\ req[q].left > 0 /\ Backed(n, req[q].by, req[q].left + 2)
        BY <2>1, <4>1 DEF VerifyOrdered
      <4>3. req[q].left > 1 BY <2>2, <4>1, <4>2, LeftFacts DEF Overtaken
      <4>4. BackedNext(n, req[q].by, (req[q].left + 2) - 1) BY <1>6, <4>2, <4>3, LeftFacts
      <4>5. (req[q].left + 2) - 1 = req'[q].left + 2 BY <1>1, <4>3, LeftFacts
      <4> QED BY <1>0, <1>1, <4>2, <4>3, <4>4, <4>5
    <3> QED BY <3>1, <3>2 DEF VerifyNext
  <2>5. CompleteNext(n, q)
    <3>1. ASSUME At(q, n, {"delVerified", "getSession", "delSession"})
          PROVE  /\ SettledNext(n) /\ BackedNext(n, req'[q].by, 1)
                 /\ Live(session[n]) => Live(session'[n])
      <4>1. Settled(n) /\ Backed(n, req[q].by, 1) BY <2>1, <3>1 DEF CompleteOrdered
      <4>2. session[n].ttl # 1 BY <2>2, <3>1 DEF Overtaken, At, Completing
      <4>3. session[n].ttl >= 1 => session[n].ttl >= 2 BY <1>5, <4>2
      <4>4. Backed(n, req[q].by, 2) BY <4>1, <4>3 DEF Backed
      <4>5. BackedNext(n, req[q].by, 2 - 1) BY <1>6, <4>4
      <4>6. Live(session[n]) => Live(session'[n]) BY <1>3, <1>5, <4>3, AgeFacts, Typed DEF Live
      <4> QED BY <1>1, <1>8, <4>1, <4>5, <4>6
    <3>2. AtNext(q, n, {"delVerified", "getSession", "delSession"}) =>
             SettledNext(n) /\ BackedNext(n, req'[q].by, 1)
      BY <1>2, <3>1
    <3>3. AtNext(q, n, {"delSession"}) => Live(session'[n]) /\ req'[q].stored = req'[q].by
      BY <1>1, <1>2, <2>1, <3>1 DEF CompleteOrdered, At
    <3>4. AtNext(q, n, {"getSession", "delSession", "login"}) => SpentNext(n, req'[q].by)
      BY <1>1, <1>2, <1>8, <2>1 DEF CompleteOrdered
    <3>5. /\ AtNext(q, n, {"delVerified"}) /\ Live(verified'[n]) => verified'[n].by = req'[q].by
          /\ AtNext(q, n, {"login"}) => req'[q].by = req'[q].sid
      BY <1>0, <1>1, <1>2, <1>4, <2>1 DEF CompleteOrdered
    <3> QED BY <3>2, <3>3, <3>4, <3>5 DEF CompleteNext
  <2> QED BY <2>3, <2>4, <2>5
<1>11. ASSUME NEW s \in Session PROVE LoginsNext(n, s)
  BY <1>1, <1>2, <1>3, <1>8 DEF LoginsNext, Ordered, LoginsOrdered
<1> QED BY <1>7, <1>9, <1>10, <1>11, OrderedNext
------------------------------------------------------------------------------
\* The theorems

\* disturbed only grows, so a number that is not disturbed was not before.
LEMMA DisturbedGrows == Next => disturbed \subseteq disturbed'
<1> SUFFICES ASSUME Next PROVE disturbed \subseteq disturbed' OBVIOUS
<1>1. ASSUME NEW r \in Request, NEW lost \in BOOLEAN, Noticed(r, lost)
      PROVE  disturbed \subseteq disturbed'
  BY <1>1 DEF Noticed
<1>2. ASSUME NEW r \in Request, NEW n \in Number,
             BeginRequest(r, n) \/ \E u \in User : BeginVerify(r, u, n)
      PROVE  disturbed \subseteq disturbed'
  BY <1>2 DEF BeginRequest, BeginVerify
<1>3. ASSUME NEW r \in Request, NEW s \in 0 .. MaxSessions, NEW n \in Number,
             BeginComplete(r, s, n)
      PROVE  disturbed \subseteq disturbed'
  BY <1>3 DEF BeginComplete
<1>4. ASSUME NEW r \in Request, NEW lost \in BOOLEAN,
             \/ SetPending(r, lost) \/ SetSession(r, lost) \/ DelPending(r, lost)
             \/ SetVerified(r, lost) \/ DelVerified(r, lost) \/ DelSession(r, lost)
      PROVE  Noticed(r, lost)
  BY <1>4 DEF SetPending, SetSession, DelPending, SetVerified, DelVerified, DelSession
<1>5. ASSUME NEW r \in Request,
             GetSession(r) \/ Crash(r) \/ \E allowed \in BOOLEAN : Login(r, allowed)
      PROVE  disturbed \subseteq disturbed'
  BY <1>5 DEF GetSession, Crash, Login
<1>6. Tick => disturbed \subseteq disturbed' BY DEF Tick
<1> QED BY <1>1, <1>2, <1>3, <1>4, <1>5, <1>6 DEF Next

LEMMA InitInv == Init => QuickInv
BY InitTyped, InitDrawn, InitOrdered, InvParts

LEMMA StepInv == QuickInv /\ [Next]_vars => QuickInv'
<1> SUFFICES ASSUME QuickInv, [Next]_vars PROVE QuickInv' OBVIOUS
<1>1. TypeOK /\ SessionsDrawn /\ \A n \in Number \ disturbed : Ordered(n) BY InvParts
<1>2. CASE Next
  <2> DEFINE Kept == /\ TypeOK' /\ SessionsDrawn'
                     /\ \A n \in Number \ disturbed' : Ordered(n)'
  <2>0. \A n \in Number \ disturbed' : Ordered(n) BY <1>1, <1>2, DisturbedGrows
  <2>1. ASSUME NEW r \in Request, NEW m \in Number, BeginRequest(r, m) PROVE Kept
    BY <1>1, <2>0, <2>1, BeginRequestTyped, BeginRequestDrawn, BeginRequestOrdered
  <2>2. ASSUME NEW r \in Request, NEW lost \in BOOLEAN, SetPending(r, lost) PROVE Kept
    BY <1>1, <2>0, <2>2, SetPendingTyped, SetPendingDrawn, SetPendingOrdered
  <2>3. ASSUME NEW r \in Request, NEW lost \in BOOLEAN, SetSession(r, lost) PROVE Kept
    BY <1>1, <2>0, <2>3, SetSessionTyped, SetSessionDrawn, SetSessionOrdered
  <2>4. ASSUME NEW r \in Request, NEW m \in Number, NEW u \in User, BeginVerify(r, u, m)
        PROVE Kept
    BY <1>1, <2>0, <2>4, BeginVerifyTyped, BeginVerifyDrawn, BeginVerifyOrdered
  <2>5. ASSUME NEW r \in Request, NEW lost \in BOOLEAN, DelPending(r, lost) PROVE Kept
    BY <1>1, <2>0, <2>5, DelPendingTyped, DelPendingDrawn, DelPendingOrdered
  <2>6. ASSUME NEW r \in Request, NEW lost \in BOOLEAN, SetVerified(r, lost) PROVE Kept
    BY <1>1, <2>0, <2>6, SetVerifiedTyped, SetVerifiedDrawn, SetVerifiedOrdered
  <2>7. ASSUME NEW r \in Request, NEW s \in 0 .. MaxSessions, NEW m \in Number,
               BeginComplete(r, s, m)
        PROVE Kept
    BY <1>1, <2>0, <2>7, BeginCompleteTyped, BeginCompleteDrawn, BeginCompleteOrdered
  <2>8. ASSUME NEW r \in Request, NEW lost \in BOOLEAN, DelVerified(r, lost) PROVE Kept
    BY <1>1, <2>0, <2>8, DelVerifiedTyped, DelVerifiedDrawn, DelVerifiedOrdered
  <2>9. ASSUME NEW r \in Request, GetSession(r) PROVE Kept
    BY <1>1, <2>0, <2>9, GetSessionTyped, GetSessionDrawn, GetSessionOrdered
  <2>10. ASSUME NEW r \in Request, NEW lost \in BOOLEAN, DelSession(r, lost) PROVE Kept
    BY <1>1, <2>0, <2>10, DelSessionTyped, DelSessionDrawn, DelSessionOrdered
  <2>11. ASSUME NEW r \in Request, NEW allowed \in BOOLEAN, Login(r, allowed) PROVE Kept
    BY <1>1, <2>0, <2>11, LoginTyped, LoginDrawn, LoginOrdered
  <2>12. ASSUME NEW r \in Request, Crash(r) PROVE Kept
    BY <1>1, <2>0, <2>12, CrashTyped, CrashDrawn, CrashOrdered
  <2>13. ASSUME Tick PROVE Kept
    BY <1>1, <2>0, <2>13, TickTyped, TickDrawn, TickOrdered
  <2>14. Kept
    BY <1>2, <2>1, <2>2, <2>3, <2>4, <2>5, <2>6, <2>7, <2>8, <2>9, <2>10, <2>11, <2>12, <2>13
    DEF Next
  <2> HIDE DEF Kept
  <2>15. (TypeOK /\ SessionsDrawn /\ \A n \in Number \ disturbed : Ordered(n))'
    BY <2>14 DEF Kept
  <2> QED BY <2>15, InvParts, PTL
<1>3. CASE UNCHANGED vars
  BY <1>3
  DEF vars, QuickInv, TypeOK, SessionsDrawn, Drew, Running, Live, Alone, KeysOrdered,
      RequestOrdered, VerifyOrdered, CompleteOrdered, LoginsOrdered, Backed, Spent, Settled, At
<1> QED BY <1>2, <1>3

\* The invariant that explains the properties below: every key, handler and
\* login is about a session that drew its number, and for a number that is not
\* disturbed (quicklogin.go:37, 38 and 57, cache.go:76) the session key outlives
\* what may still be approved or completed on it.
THEOREM QuickInvariant == Spec => []QuickInv
BY InitInv, StepInv, PTL DEF Spec

\* The keys, the locals of the handlers and the histories keep their types: no
\* session is logged in more than twice.
THEOREM TypesHold == Spec => []TypeOK
<1>1. QuickInv => TypeOK BY DEF QuickInv
<1> QED BY <1>1, QuickInvariant, PTL

\* A device is logged in on the approval of its own request only, unless its
\* number is disturbed (completeQuickLogin, quicklogin.go:75).
THEOREM LoginsAreForOwnApproval == Spec => []LoginForOwnApproval
<1>1. QuickInv => LoginForOwnApproval
  <2> SUFFICES ASSUME QuickInv, NEW r \in Request, req[r].pc = "login", req[r].num \notin disturbed
               PROVE  req[r].by = req[r].sid
    BY DEF LoginForOwnApproval
  <2>1. req[r].num \in Number BY InvParts DEF SessionsDrawn, Running
  <2>2. CompleteOrdered(req[r].num, r) BY <2>1, InvParts DEF Ordered
  <2> QED BY <2>2 DEF CompleteOrdered, At
<1> QED BY <1>1, QuickInvariant, PTL

\* An approval opens one login (EndState, cache.go:76), for every number of
\* accounts, numbers and requests.
THEOREM ApprovalsOpenOneLogin == Spec => []OneLoginPerApproval
<1>1. QuickInv => OneLoginPerApproval
  <2> SUFFICES ASSUME QuickInv, NEW s \in Session, logins[s] > 1, drawn[s] \notin disturbed
               PROVE  FALSE
    BY DEF OneLoginPerApproval
  <2>1. TypeOK /\ SessionsDrawn BY InvParts
  <2>2. logins[s] \in 0 .. 2 BY <2>1, Typed
  <2>3. drawn[s] \in Number BY <2>1, <2>2 DEF SessionsDrawn
  <2>4. LoginsOrdered(drawn[s], s) BY <2>3, InvParts DEF Ordered
  <2> QED BY <2>2, <2>4 DEF LoginsOrdered
<1> QED BY <1>1, QuickInvariant, PTL

\* Of a number that is not disturbed, the approval never outlives the session
\* key it needs, however the handlers and the expiries of quicklogin.go:37, 38
\* and 57 interleave: an approval that does was written (57) after the pending
\* key read at 43 would have expired, or the number is disturbed otherwise.
THEOREM PromptApprovalsFit == Spec => []PromptApprovalFitsSession
<1>1. QuickInv => PromptApprovalFitsSession
  <2> SUFFICES ASSUME QuickInv, NEW n \in Number \ disturbed, Live(verified[n]),
                      verified[n].by \in shown
               PROVE  session[n].by = verified[n].by /\ session[n].ttl >= verified[n].ttl
    BY DEF PromptApprovalFitsSession
  <2>1. Ordered(n) BY InvParts
  <2>2. Backed(n, verified[n].by, verified[n].ttl) BY <2>1 DEF Ordered, KeysOrdered
  <2>3. \A r \in Request : At(r, n, {"setSession"}) => req[r].sid # verified[n].by
    BY <2>1 DEF Ordered, RequestOrdered, At, Requesting
  <2> QED BY <2>2, <2>3 DEF Backed
<1> QED BY <1>1, QuickInvariant, PTL

\* A number never waits for a user while an approval for it is open.
THEOREM NeverPendingAndVerified == Spec => []PendingOrVerified
<1>1. QuickInv => PendingOrVerified BY InvParts DEF PendingOrVerified, Ordered, KeysOrdered
<1> QED BY <1>1, QuickInvariant, PTL
==============================================================================
