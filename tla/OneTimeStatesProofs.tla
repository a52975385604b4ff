------------------------- MODULE OneTimeStatesProofs --------------------------
(***************************************************************************)
(* What TLAPS proves about OneTimeStates, for any number of accounts,      *)
(* identities, requests and states: a state serves two handlers only for a *)
(* cause, and what the flows leave in the database belongs to the account  *)
(* that began them. Payloads and proofs are never changed, so what was     *)
(* linked or stored for a reason keeps its reason.                         *)
(***************************************************************************)
EXTENDS OneTimeStates, TLAPS

\* The inductive invariant, in two halves: of the states in Redis, and of the
\* rows and the copies of rows.
Redis ==
    /\ begun \in Seq(Payload) /\ Len(begun) <= MaxStates
    /\ cache \subseteq DOMAIN begun
    /\ redeemed \subseteq DOMAIN begun /\ twice \subseteq State
    /\ contested \subseteq DOMAIN begun
    /\ \A s \in DOMAIN begun :
          /\ begun[s].category = "user_discord_link" =>
                \E a \in Account : begun[s] = Pay("user_discord_link", a, None)
          /\ begun[s].category = "fido2_register" =>
                \E a \in Account, name \in Name : begun[s] = Pay("fido2_register", a, name)

Saving(l) ==
    l.pc = "save" =>
        /\ l.account \in Account
        /\ l.image # None => LinkedBy(l.account, l.image)
        /\ ~l.links /\ ~l.stale => l.image = discord[l.account]

Handlers ==
    /\ req \in [Request -> Local]
    /\ \A r \in Request :
          /\ req[r].pc \in {"del", "act"} => req[r].state \in DOMAIN begun
          /\ Saving(req[r])

Database ==
    /\ proofs \subseteq Proof
    /\ \A p \in proofs : p.state \in DOMAIN begun
    /\ discord \in [Account -> Identity \cup {None}]
    /\ keys \subseteq Key
    /\ outcome \in [Account -> SUBSET (Identity \cup {None})]
    /\ LinkedByOwner
    /\ KeysOfBeginner
    /\ LinkStands

Exclusive == StatesExclusive /\ RedeemedTwiceForCause

Inv == Redis /\ Handlers /\ Database /\ Exclusive

LEMMA StatesInRange ==
    ASSUME begun \in Seq(Payload), Len(begun) <= MaxStates
    PROVE  DOMAIN begun = 1 .. Len(begun) /\ Len(begun) \in Nat /\ DOMAIN begun \subseteq State
<1>1. DOMAIN begun = 1 .. Len(begun) /\ Len(begun) \in Nat OBVIOUS
<1>2. MaxStates \in Nat BY StatesAssumption
<1> QED BY <1>1, <1>2 DEF State

LEMMA InvIsAll ==
    Inv <=> StatesInv /\ RedeemedTwiceForCause /\ LinkedByOwner /\ KeysOfBeginner /\ LinkStands
<1>1. begun \in Seq(Payload) /\ Len(begun) <= MaxStates => DOMAIN begun \subseteq State
  BY StatesInRange
<1> QED
  BY <1>1 DEF Inv, Redis, Handlers, Database, Exclusive, Saving, StatesInv, TypeOK, StatesBegun, RowsLinked

LEMMA IdleTyped == Idle \in Local /\ Idle.pc = "idle"
BY DEF Idle, Local

------------------------------------------------------------------------------
\* What is linked or stored for a reason keeps its reason.

Grown ==
    /\ DOMAIN begun \subseteq DOMAIN begun'
    /\ \A s \in DOMAIN begun : begun'[s] = begun[s]
    /\ proofs \subseteq proofs'

LEMMA LinkedGrows ==
    ASSUME Grown, Database, NEW a, NEW i, LinkedBy(a, i) PROVE LinkedBy(a, i)'
BY DEF Grown, Database, LinkedBy

LEMMA KeysGrow == ASSUME Grown, Database, keys' \subseteq keys PROVE KeysOfBeginner'
BY DEF Grown, Database, KeysOfBeginner

\* A handler that has not changed is as good as it was, while rows stay.
LEMMA SavingGrows ==
    ASSUME Grown, Database, NEW l, Saving(l), discord' = discord PROVE Saving(l)'
BY LinkedGrows DEF Saving

LEMMA DatabaseGrows ==
    ASSUME Grown, Database, UNCHANGED rows, keys' \subseteq keys,
           proofs' \subseteq Proof, \A p \in proofs' : p.state \in DOMAIN begun'
    PROVE  Database'
<1>1. KeysOfBeginner' BY KeysGrow
<1>2. LinkedByOwner'
  <2>1. ASSUME NEW a \in Account, discord'[a] # None PROVE LinkedBy(a, discord[a])'
    <3>1. PICK i : i = discord[a] OBVIOUS
    <3>2. LinkedBy(a, i) BY <2>1, <3>1 DEF Database, LinkedByOwner, rows
    <3>3. LinkedBy(a, i)' BY <3>2, LinkedGrows
    <3> QED BY <3>1, <3>3 DEF LinkedBy, rows
  <2> QED BY <2>1 DEF LinkedByOwner
<1> QED BY <1>1, <1>2 DEF Database, LinkStands, rows

LEMMA Unchanged == ASSUME UNCHANGED <<states, proofs>> PROVE Grown
BY DEF Grown, states

\* One handler goes on: to its Save, or it ends.
LEMMA OneHandler ==
    ASSUME Inv, NEW r \in Request, NEW local \in Local, local.pc \in {"idle", "save"},
           Saving(local), req' = [req EXCEPT ![r] = local],
           UNCHANGED <<states, proofs, rows, keys, histories>>
    PROVE  Inv'
<1>1. Redis' BY DEF Inv, Redis, states, histories
<1>2. Grown BY Unchanged
<1>3. Database' BY <1>2, DatabaseGrows DEF Inv, Database, states
<1>4. /\ req' \in [Request -> Local] /\ req'[r] = local
      /\ \A q \in Request : q # r => req'[q] = req[q]
  BY DEF Inv, Handlers
<1>5. Handlers'
  <2>1. ASSUME NEW q \in Request
        PROVE  /\ req'[q].pc \in {"del", "act"} => req'[q].state \in DOMAIN begun'
               /\ Saving(req[q])'
    <3>1. begun' = begun /\ discord' = discord BY DEF states, rows
    <3>2. PICK l : l = req'[q] OBVIOUS
    <3>3. Saving(l) BY <1>4, <3>2 DEF Inv, Handlers
    <3>4. Saving(l)' BY <1>2, <3>1, <3>3, SavingGrows DEF Inv
    <3>5. Saving(req[q])' BY <3>2, <3>4 DEF Saving, LinkedBy
    <3> QED BY <1>4, <3>1, <3>5 DEF Inv, Handlers
  <2> QED BY <1>4, <2>1 DEF Handlers
<1>6. Exclusive'
  <2>1. \A q \in Request : \A s : Holding(q, s)' => Holding(q, s) BY <1>4 DEF Holding
  <2>2. StatesExclusive' BY <2>1 DEF Inv, Exclusive, StatesExclusive, states, histories
  <2> QED BY <2>2 DEF Inv, Exclusive, RedeemedTwiceForCause, histories
<1> QED BY <1>1, <1>3, <1>5, <1>6 DEF Inv

LEMMA EndsIdle ==
    ASSUME Inv, NEW r \in Request, req' = [req EXCEPT ![r] = Idle],
           UNCHANGED <<states, proofs, rows, keys, histories>>
    PROVE  Inv'
BY OneHandler, IdleTyped DEF Saving

\* Handlers that are as they were, or idle, or have a state of Redis.
LEMMA HandlersGrow ==
    ASSUME Grown, Database, Handlers, discord' = discord, req' \in [Request -> Local],
           \A q \in Request : \/ req'[q] = req[q]
                              \/ req'[q].pc = "idle"
                              \/ req'[q].pc \in {"del", "act"} /\ req'[q].state \in DOMAIN begun'
    PROVE  Handlers'
<1>1. ASSUME NEW q \in Request
      PROVE  /\ req'[q].pc \in {"del", "act"} => req'[q].state \in DOMAIN begun'
             /\ Saving(req[q])'
  <2>1. CASE req'[q] = req[q]
    <3>1. PICK l : l = req'[q] OBVIOUS
    <3>2. Saving(l) BY <2>1, <3>1 DEF Handlers
    <3>3. Saving(l)' BY <3>2, SavingGrows
    <3>4. Saving(req[q])' BY <3>1, <3>3 DEF Saving, LinkedBy
    <3>5. req'[q].pc \in {"del", "act"} => req'[q].state \in DOMAIN begun'
      BY <2>1 DEF Handlers, Grown
    <3> QED BY <3>4, <3>5
  <2>2. CASE req'[q].pc = "idle" BY <2>2 DEF Saving
  <2>3. CASE req'[q].pc \in {"del", "act"} /\ req'[q].state \in DOMAIN begun'
    BY <2>3 DEF Saving
  <2> QED BY <2>1, <2>2, <2>3
<1> QED BY <1>1 DEF Handlers

------------------------------------------------------------------------------
\* First halves: a state is added that no handler has.

Fitting(payload) ==
    /\ payload \in Payload
    /\ payload.category = "user_discord_link" =>
          \E a \in Account : payload = Pay("user_discord_link", a, None)
    /\ payload.category = "fido2_register" =>
          \E a \in Account, name \in Name : payload = Pay("fido2_register", a, name)

LEMMA BeginsState ==
    ASSUME Inv, NEW payload, Fitting(payload), NEW lost \in BOOLEAN, BeginState(payload, lost),
           req' \in [Request -> Local],
           \A q \in Request : req'[q] = req[q] \/ req'[q].pc = "idle",
           UNCHANGED <<proofs, rows, keys, histories>>
    PROVE  Inv'
<1> DEFINE new == Len(begun) + 1
<1>1. /\ begun \in Seq(Payload) /\ Len(begun) < MaxStates /\ MaxStates \in Nat
      /\ begun' = Append(begun, payload) /\ payload \in Payload
      /\ cache' \subseteq cache \cup {new}
  BY StatesAssumption DEF Inv, Redis, BeginState, Fitting
<1>2. /\ DOMAIN begun = 1 .. Len(begun) /\ Len(begun) \in Nat
      /\ begun' \in Seq(Payload) /\ Len(begun') = new /\ Len(begun') <= MaxStates
      /\ DOMAIN begun' = DOMAIN begun \cup {new} /\ new \notin DOMAIN begun
      /\ begun'[new] = payload /\ \A s \in DOMAIN begun : begun'[s] = begun[s]
  <2>1. DOMAIN begun = 1 .. Len(begun) /\ Len(begun) \in Nat BY <1>1
  <2>2. begun' \in Seq(Payload) /\ Len(begun') = new BY <1>1
  <2>3. DOMAIN begun' = 1 .. new BY <2>2
  <2>4. begun'[new] = payload /\ \A s \in 1 .. Len(begun) : begun'[s] = begun[s] BY <1>1
  <2> QED BY <1>1, <2>1, <2>2, <2>3, <2>4
<1>3. Grown BY <1>2 DEF Grown
<1>4. Redis'
  <2>1. ASSUME NEW s \in DOMAIN begun'
        PROVE  /\ begun'[s].category = "user_discord_link" =>
                    \E a \in Account : begun'[s] = Pay("user_discord_link", a, None)
               /\ begun'[s].category = "fido2_register" =>
                    \E a \in Account, name \in Name : begun'[s] = Pay("fido2_register", a, name)
    <3>1. CASE s = new BY <1>2, <3>1 DEF Fitting
    <3>2. CASE s \in DOMAIN begun
      BY <1>2, <3>2 DEF Inv, Redis
    <3> QED BY <1>2, <3>1, <3>2
  <2>2. /\ cache' \subseteq DOMAIN begun' /\ redeemed' \subseteq DOMAIN begun'
        /\ twice' \subseteq State /\ contested' \subseteq DOMAIN begun'
    BY <1>1, <1>2 DEF Inv, Redis, histories
  <2>3. (\A s \in DOMAIN begun :
          /\ begun[s].category = "user_discord_link" =>
                \E a \in Account : begun[s] = Pay("user_discord_link", a, None)
          /\ begun[s].category = "fido2_register" =>
                \E a \in Account, name \in Name : begun[s] = Pay("fido2_register", a, name))'
    BY <2>1 DEF Pay
  <2> QED BY <1>2, <2>2, <2>3 DEF Redis
<1>5. Database'
  <2>1. \A p \in proofs : p.state \in DOMAIN begun' BY <1>2 DEF Inv, Database
  <2> QED BY <1>3, <2>1, DatabaseGrows DEF Inv, Database
<1>6. Handlers' BY <1>3, HandlersGrow DEF Inv, rows
<1>7. Exclusive'
  <2>1. \A q \in Request : \A s : Holding(q, s)' => Holding(q, s) /\ s \in DOMAIN begun
    BY DEF Holding, Inv, Handlers
  <2>2. \A s \in DOMAIN begun' \ contested' :
           s \in redeemed' => s \notin cache' /\ \A q \in Request : ~Holding(q, s)'
    <3>1. TAKE s \in DOMAIN begun' \ contested'
    <3>2. HAVE s \in redeemed'
    <3>3. s \in DOMAIN begun \ contested /\ s \in redeemed BY <3>2 DEF Inv, Redis, histories
    <3>4. s \notin cache /\ \A q \in Request : ~Holding(q, s)
      BY <3>3 DEF Inv, Exclusive, StatesExclusive
    <3> QED BY <1>1, <1>2, <2>1, <3>3, <3>4
  <2>3. \A s \in DOMAIN begun' \ contested' :
           \A r, q \in Request : Holding(r, s)' /\ Holding(q, s)' => r = q
    BY <2>1 DEF Inv, Exclusive, StatesExclusive, histories
  <2>4. StatesExclusive' BY <2>2, <2>3 DEF StatesExclusive
  <2> QED BY <2>4 DEF Inv, Exclusive, RedeemedTwiceForCause, histories
<1> QED BY <1>4, <1>5, <1>6, <1>7 DEF Inv

\* The first halves add payloads that fit.
LEMMA Begins ==
    ASSUME Inv, NEW payload, Fitting(payload), NEW lost \in BOOLEAN, Begin(payload, lost)
    PROVE  Inv'
BY BeginsState DEF Begin, Inv, Handlers

LEMMA BeginSteps ==
    ASSUME Inv, NEW lost \in BOOLEAN,
           \/ \E category \in Category : Login(category, lost)
           \/ BeginDiscordLogin(lost) \/ BeginFido2Login(lost)
           \/ \E a \in Account :
                BeginDiscordLink(a, lost) \/ \E name \in Name : BeginFido2Register(a, name, lost)
    PROVE  Inv'
<1>1. ASSUME NEW category \in Category, Login(category, lost) PROVE Inv'
  <2>1. Fitting(Pay(category, None, None)) BY <1>1 DEF Login, Fitting, Pay, Payload
  <2> QED BY <1>1, <2>1, Begins DEF Login
<1>2. ASSUME BeginDiscordLogin(lost) PROVE Inv'
  <2>1. Fitting(Pay("user_discord_login", None, None)) BY DEF Fitting, Pay, Payload, Category
  <2> QED BY <1>2, <2>1, Begins DEF BeginDiscordLogin
<1>3. ASSUME BeginFido2Login(lost) PROVE Inv'
  <2>1. Fitting(Pay("fido2_login", None, None)) BY DEF Fitting, Pay, Payload, Category
  <2> QED BY <1>3, <2>1, Begins DEF BeginFido2Login
<1>4. ASSUME NEW a \in Account, BeginDiscordLink(a, lost) PROVE Inv'
  <2>1. Fitting(Pay("user_discord_link", a, None)) BY DEF Fitting, Pay, Payload, Category
  <2> QED BY <1>4, <2>1, Begins DEF BeginDiscordLink
<1>5. ASSUME NEW a \in Account, NEW name \in Name, BeginFido2Register(a, name, lost) PROVE Inv'
  <2>1. Fitting(Pay("fido2_register", a, name)) BY DEF Fitting, Pay, Payload, Category
  <2> QED BY <1>5, <2>1, Begins DEF BeginFido2Register
<1> QED BY <1>1, <1>2, <1>3, <1>4, <1>5

LEMMA TryAgainStep ==
    ASSUME Inv, NEW r \in Request, NEW category \in Category, NEW lost \in BOOLEAN,
           TryAgain(r, category, lost)
    PROVE  Inv'
<1>1. Fitting(Pay(category, None, None)) BY DEF TryAgain, Fitting, Pay, Payload
<1>2. /\ req' \in [Request -> Local]
      /\ \A q \in Request : req'[q] = req[q] \/ req'[q].pc = "idle"
  BY IdleTyped DEF TryAgain, Inv, Handlers
<1> QED BY <1>1, <1>2, BeginsState DEF TryAgain

------------------------------------------------------------------------------
\* GET and DEL

LEMMA ExpireStep == ASSUME Inv, NEW s \in State, Expire(s) PROVE Inv'
<1>1. Grown BY DEF Expire, Grown
<1>2. Redis' BY DEF Expire, Inv, Redis, histories
<1>3. Database' BY <1>1, DatabaseGrows DEF Expire, Inv, Database
<1>4. Handlers' BY <1>1, HandlersGrow DEF Expire, Inv, Handlers, rows
<1>5. Exclusive'
  <2>1. \A q \in Request : \A t : Holding(q, t)' => Holding(q, t) BY DEF Expire, Holding
  <2>2. cache' \subseteq cache BY DEF Expire
  <2>3. StatesExclusive'
    BY <2>1, <2>2 DEF Expire, Inv, Exclusive, StatesExclusive, histories
  <2> QED BY <2>3 DEF Expire, Inv, Exclusive, RedeemedTwiceForCause, histories
<1> QED BY <1>2, <1>3, <1>4, <1>5 DEF Inv

\* Of a state that is not contested afterwards nobody else was between GET and
\* DEL, and as it is still in Redis nobody went on with it.
LEMMA GetStep == ASSUME Inv, NEW r \in Request, NEW s \in State, Get(r, s) PROVE Inv'
<1>1. Grown BY Unchanged DEF Get
<1>2. s \in DOMAIN begun BY DEF Get, Inv, Redis
<1>3. contested' \subseteq contested \cup {s} /\ contested \subseteq contested' BY DEF Get
<1>4. Redis' BY <1>2, <1>3 DEF Get, Inv, Redis, states
<1>5. Database' BY <1>1, DatabaseGrows DEF Get, Inv, Database, states
<1>6. /\ req' \in [Request -> Local]
      /\ req'[r].pc = "del" /\ req'[r].state = s
      /\ \A q \in Request : q # r => req'[q] = req[q]
  BY DEF Get, Inv, Handlers, Local
<1>7. Handlers' BY <1>1, <1>2, <1>6, HandlersGrow DEF Get, Inv, rows, states
<1>8. Exclusive'
  <2>1. ASSUME NEW t \in DOMAIN begun' \ contested'
        PROVE  /\ t \in redeemed' => t \notin cache' /\ \A q \in Request : ~Holding(q, t)'
               /\ \A p, q \in Request : Holding(p, t)' /\ Holding(q, t)' => p = q
    <3>1. t \in DOMAIN begun \ contested BY <1>3 DEF Get, states
    <3>2. /\ t \in redeemed => t \notin cache /\ \A q \in Request : ~Holding(q, t)
          /\ \A p, q \in Request : Holding(p, t) /\ Holding(q, t) => p = q
      BY <3>1 DEF Inv, Exclusive, StatesExclusive
    <3>3. CASE t = s
      <4>1. \A q \in Request : ~Holding(q, s) BY <3>3, <2>1 DEF Get, Holding
      <4>2. \A q \in Request : Holding(q, t)' => q = r BY <1>6, <3>3, <4>1 DEF Holding
      <4>3. t \notin redeemed BY <3>2, <3>3 DEF Get
      <4> QED BY <4>2, <4>3 DEF Get
    <3>4. CASE t # s
      <4>1. \A q \in Request : Holding(q, t)' => Holding(q, t) BY <1>6, <3>4 DEF Holding
      <4> QED BY <3>2, <4>1 DEF Get, states
    <3> QED BY <3>3, <3>4
  <2>2. StatesExclusive' BY <2>1 DEF StatesExclusive
  <2> QED BY <1>3, <2>2 DEF Inv, Exclusive, RedeemedTwiceForCause, Get
<1> QED BY <1>4, <1>5, <1>7, <1>8 DEF Inv

LEMMA DelStep == ASSUME Inv, NEW r \in Request, NEW lost \in BOOLEAN, Del(r, lost) PROVE Inv'
<1> DEFINE s == req[r].state
<1>1. Grown BY DEF Del, Grown
<1>2. s \in DOMAIN begun /\ s \in State /\ Holding(r, s)
  <2>1. s \in DOMAIN begun /\ Holding(r, s) BY DEF Del, Inv, Handlers, Holding
  <2> QED BY <2>1, StatesInRange DEF Inv, Redis
<1>3. /\ cache' \subseteq cache /\ redeemed' = redeemed \cup {s}
      /\ twice' \subseteq twice \cup {s} /\ contested \subseteq contested'
      /\ contested' \subseteq contested \cup {s}
  BY DEF Del, Took
<1>4. Redis' BY <1>2, <1>3 DEF Del, Inv, Redis
<1>5. Database' BY <1>1, DatabaseGrows DEF Del, Inv, Database
<1>6. /\ req' \in [Request -> Local]
      /\ req'[r].pc = "act" /\ req'[r].state = s
      /\ \A q \in Request : q # r => req'[q] = req[q]
  BY DEF Del, Inv, Handlers, Local
<1>7. Handlers' BY <1>1, <1>2, <1>6, HandlersGrow DEF Del, Inv, rows
<1>8. \A q \in Request : \A t : Holding(q, t)' => q # r /\ Holding(q, t) BY <1>6 DEF Holding
<1>9. Exclusive'
  <2>1. ASSUME NEW t \in DOMAIN begun' \ contested'
        PROVE  /\ t \in redeemed' => t \notin cache' /\ \A q \in Request : ~Holding(q, t)'
               /\ \A p, q \in Request : Holding(p, t)' /\ Holding(q, t)' => p = q
    <3>1. t \in DOMAIN begun \ contested BY <1>3 DEF Del
    <3>2. /\ t \in redeemed => t \notin cache /\ \A q \in Request : ~Holding(q, t)
          /\ \A p, q \in Request : Holding(p, t) /\ Holding(q, t) => p = q
      BY <3>1 DEF Inv, Exclusive, StatesExclusive
    <3>3. CASE t = s
      <4>1. t \notin cache' BY <2>1, <3>3 DEF Del
      <4>2. \A q \in Request : ~Holding(q, t)' BY <1>2, <1>8, <3>2, <3>3
      <4> QED BY <4>1, <4>2
    <3>4. CASE t # s BY <1>3, <1>8, <3>2, <3>4
    <3> QED BY <3>3, <3>4
  <2>2. StatesExclusive' BY <2>1 DEF StatesExclusive
  <2>3. s \in redeemed => s \in contested BY <1>2 DEF Inv, Exclusive, StatesExclusive
  <2>4. RedeemedTwiceForCause'
    BY <1>3, <2>3 DEF Del, Took, Inv, Exclusive, RedeemedTwiceForCause
  <2> QED BY <2>2, <2>4 DEF Exclusive
<1> QED BY <1>4, <1>5, <1>7, <1>9 DEF Inv

------------------------------------------------------------------------------
\* Steps that leave Redis and the handlers alone, or end one handler

LEMMA RedisStays ==
    ASSUME Inv, UNCHANGED <<states, histories>>, Grown, Database', discord' = discord,
           req' \in [Request -> Local],
           \A q \in Request : req'[q] = req[q] \/ req'[q].pc = "idle"
    PROVE  Inv'
<1>1. Redis' BY DEF Inv, Redis, states, histories
<1>2. Handlers' BY HandlersGrow DEF Inv
<1>3. Exclusive'
  <2>1. \A q \in Request : \A s : Holding(q, s)' => Holding(q, s) BY DEF Holding
  <2>2. StatesExclusive' BY <2>1 DEF Inv, Exclusive, StatesExclusive, states, histories
  <2> QED BY <2>2 DEF Inv, Exclusive, RedeemedTwiceForCause, histories
<1> QED BY <1>1, <1>2, <1>3 DEF Inv

LEMMA ProveStep == ASSUME Inv, NEW s \in State, NEW i \in Identity, Prove(s, i) PROVE Inv'
<1>1. Grown BY DEF Prove, Grown, states
<1>2. proofs' \subseteq Proof BY DEF Prove, Inv, Database, Proof
<1>3. \A p \in proofs' : p.state \in DOMAIN begun' BY DEF Prove, Inv, Database, states
<1>4. Database' BY <1>1, <1>2, <1>3, DatabaseGrows DEF Prove, Inv
<1> QED BY <1>1, <1>4, RedisStays DEF Prove, Inv, Handlers, rows

LEMMA DeleteFido2LoginStep ==
    ASSUME Inv, NEW a \in Account, NEW name \in Name, DeleteFido2Login(a, name) PROVE Inv'
<1>1. Grown BY Unchanged DEF DeleteFido2Login
<1>2. Database' BY <1>1, DatabaseGrows DEF DeleteFido2Login, Inv, Database, states
<1> QED BY <1>1, <1>2, RedisStays DEF DeleteFido2Login, Inv, Handlers, rows

LEMMA StoreKeyStep ==
    ASSUME Inv, NEW r \in Request, NEW i \in Identity, StoreKey(r, i) PROVE Inv'
<1> DEFINE s == req[r].state
           key == [account |-> begun[s].account, name |-> begun[s].name, credential |-> i]
           proof == [state |-> s, identity |-> i]
<1>1. Grown BY Unchanged DEF StoreKey
<1>2. s \in DOMAIN begun /\ begun[s].category = "fido2_register" /\ proof \in proofs
  BY DEF StoreKey, Acting, Proved, Inv, Handlers
<1>3. PICK a \in Account, name \in Name : begun[s] = Pay("fido2_register", a, name)
  BY <1>2 DEF Inv, Redis
<1>4. key = [account |-> a, name |-> name, credential |-> i] BY <1>3 DEF Pay
<1>5. keys' \subseteq keys \cup {key} BY DEF StoreKey, Payer
<1>6. begun' = begun /\ proofs' = proofs /\ discord' = discord /\ outcome' = outcome
  BY DEF StoreKey, states, rows
<1>7. KeysOfBeginner'
  <2>1. ASSUME NEW k \in keys'
        PROVE  \E p \in proofs : /\ p.identity = k.credential
                                 /\ begun[p.state] = Pay("fido2_register", k.account, k.name)
    <3>1. CASE k \in keys BY <3>1 DEF Inv, Database, KeysOfBeginner
    <3>2. CASE k = key BY <3>2, <1>2, <1>3, <1>4
    <3> QED BY <1>5, <3>1, <3>2
  <2> QED BY <1>6, <2>1 DEF KeysOfBeginner, Pay
<1>8. LinkedByOwner' /\ LinkStands'
  BY <1>6 DEF Inv, Database, LinkedByOwner, LinkedBy, LinkStands
<1>9. keys' \subseteq Key BY <1>4, <1>5 DEF Inv, Database, Key
<1>10. Database' BY <1>6, <1>7, <1>8, <1>9 DEF Inv, Database
<1>11. /\ req' \in [Request -> Local]
       /\ \A q \in Request : req'[q] = req[q] \/ req'[q].pc = "idle"
  BY IdleTyped DEF StoreKey, Inv, Handlers
<1> QED BY <1>1, <1>6, <1>10, <1>11, RedisStays DEF StoreKey

------------------------------------------------------------------------------
\* Rows

\* A row is read, to be saved with a Discord user that the account linked.
LEMMA ReadStep ==
    ASSUME Inv, NEW r \in Request, NEW a \in Account, NEW image \in Identity \cup {None},
           NEW links \in BOOLEAN, image # None => LinkedBy(a, image),
           ~links => image = discord[a], Read(r, a, image, links),
           UNCHANGED <<states, proofs, rows, keys, histories>>
    PROVE  Inv'
<1> DEFINE local == [Idle EXCEPT !.pc = "save", !.account = a, !.image = image, !.links = links]
<1>1. /\ local.pc = "save" /\ local.account = a /\ local.image = image /\ local.links = links
      /\ local \in Local
  BY DEF Idle, Local
<1>2. Saving(local) BY <1>1 DEF Saving
<1>3. req' = [req EXCEPT ![r] = local] BY DEF Read
<1> HIDE DEF local
<1> QED BY <1>1, <1>2, <1>3, OneHandler

LEMMA LinkDiscordStep ==
    ASSUME Inv, NEW r \in Request, NEW i \in Identity, LinkDiscord(r, i) PROVE Inv'
<1> DEFINE s == req[r].state
           proof == [state |-> s, identity |-> i]
<1>1. s \in DOMAIN begun /\ begun[s].category = "user_discord_link" /\ proof \in proofs
  BY DEF LinkDiscord, Acting, Proved, Inv, Handlers
<1>2. PICK a \in Account : begun[s] = Pay("user_discord_link", a, None)
  BY <1>1 DEF Inv, Redis
<1>3. begun[s].account = a BY <1>2 DEF Pay
<1>4. LinkedBy(a, i) BY <1>1, <1>2 DEF LinkedBy
<1>5. Read(r, a, i, TRUE) BY <1>3 DEF LinkDiscord, Payer
<1>6. UNCHANGED <<states, proofs, rows, keys, histories>> BY DEF LinkDiscord
<1> QED BY <1>4, <1>5, <1>6, ReadStep

LEMMA UnlinkStep ==
    ASSUME Inv, NEW r \in Request, NEW a \in Account, Unlink(r, a) PROVE Inv'
BY ReadStep DEF Unlink

LEMMA SaveOtherColumnsStep ==
    ASSUME Inv, NEW r \in Request, NEW a \in Account, SaveOtherColumns(r, a) PROVE Inv'
<1>1. discord[a] \in Identity \cup {None} /\ (discord[a] # None => LinkedBy(a, discord[a]))
  BY DEF Inv, Database, LinkedByOwner
<1> QED BY <1>1, ReadStep DEF SaveOtherColumns

\* Whether a copy is outdated now is one value or the other.
LEMMA IsBoolean == ASSUME NEW P \in BOOLEAN, NEW t, NEW u, NEW v, NEW w
                   PROVE  \E b \in BOOLEAN : b = (P \/ (t = u /\ v # w))
<1> WITNESS (P \/ (t = u /\ v # w)) \in BOOLEAN
<1> QED OBVIOUS

\* The copy that is saved is linked for a reason; other copies of the row are
\* outdated if it changes, and the rest fit their rows as before.
LEMMA SaveStep == ASSUME Inv, NEW r \in Request, Save(r) PROVE Inv'
<1>1. PICK a \in Account, u \in Identity \cup {None}, links \in BOOLEAN, stale \in BOOLEAN :
         /\ req[r].account = a /\ req[r].image = u
         /\ req[r].links = links /\ req[r].stale = stale
  <2>1. req[r].pc = "save" /\ req[r] \in Local /\ Saving(req[r]) BY DEF Save, Inv, Handlers
  <2> QED BY <2>1 DEF Saving, Local
<1>2. /\ u # None => LinkedBy(a, u)
      /\ ~links /\ ~stale => u = discord[a]
  BY <1>1 DEF Save, Inv, Handlers, Saving
<1>3. /\ discord \in [Account -> Identity \cup {None}]
      /\ discord' = [discord EXCEPT ![a] = u]
      /\ outcome \in [Account -> SUBSET (Identity \cup {None})]
      /\ UNCHANGED <<states, proofs, keys, histories>>
  BY <1>1 DEF Save, Put, Inv, Database
<1>4. /\ discord' \in [Account -> Identity \cup {None}] /\ discord'[a] = u
      /\ \A c \in Account : c # a => discord'[c] = discord[c]
  BY <1>3
<1>5. outcome' = [outcome EXCEPT ![a] = IF links THEN {u} ELSE IF stale THEN {} ELSE @]
  BY <1>1 DEF Save, Record
<1>6. begun' = begun /\ proofs' = proofs /\ keys' = keys /\ cache' = cache
  BY <1>3 DEF states
<1>7. LinkedByOwner'
  <2>1. \A c \in Account : discord'[c] # None =>
           \E p \in proofs : /\ p.identity = discord'[c]
                             /\ begun[p.state] = Pay("user_discord_link", c, None)
    <3>1. \A c \in Account : discord'[c] # None => LinkedBy(c, discord'[c])
      BY <1>2, <1>4 DEF Inv, Database, LinkedByOwner
    <3> QED BY <3>1 DEF LinkedBy
  <2> QED BY <1>6, <2>1 DEF LinkedByOwner, LinkedBy, Pay
<1>8. LinkStands' /\ outcome' \in [Account -> SUBSET (Identity \cup {None})]
  <2>1. /\ \A c \in Account : c # a => outcome'[c] = outcome[c]
        /\ outcome'[a] = IF links THEN {u} ELSE IF stale THEN {} ELSE outcome[a]
    BY <1>3, <1>5
  <2>2. \A c \in Account : outcome'[c] \subseteq {discord'[c]}
    BY <1>2, <1>4, <2>1 DEF Inv, Database, LinkStands
  <2>3. outcome' \in [Account -> SUBSET (Identity \cup {None})] BY <1>3, <1>5
  <2> QED BY <2>2, <2>3 DEF LinkStands
<1>9. Database'
  BY <1>4, <1>6, <1>7, <1>8 DEF Inv, Database, KeysOfBeginner, Pay
<1>10. Redis' BY <1>3 DEF Inv, Redis, states, histories
<1>11. req' = [q \in Request |->
                 IF q = r THEN Idle
                 ELSE [req[q] EXCEPT !.stale = @ \/ (req[q].account = a /\ u # discord[a])]]
  BY <1>1 DEF Save, Put
<1>12. ASSUME NEW q \in Request
       PROVE  /\ req'[q] \in Local
              /\ req'[q] = Idle \/ (req'[q].pc = req[q].pc /\ req'[q].state = req[q].state)
              /\ Saving(req[q])'
  <2>1. CASE q = r
    <3>1. req'[q] = Idle BY <1>11, <2>1
    <3> QED BY <3>1, IdleTyped DEF Saving
  <2>2. CASE q # r
    <3>1. req[q] \in Local /\ req[q].stale \in BOOLEAN /\ Saving(req[q])
      BY DEF Inv, Handlers, Local
    <3>2. PICK b \in BOOLEAN : b = (req[q].stale \/ (req[q].account = a /\ u # discord[a]))
      BY <3>1, IsBoolean
    <3>3. req'[q] = [req[q] EXCEPT !.stale = req[q].stale \/ (req[q].account = a /\ u # discord[a])]
      BY <1>11, <2>2
    <3>4. req'[q] = [req[q] EXCEPT !.stale = b] BY <3>2, <3>3
    <3>5. /\ req'[q] \in Local /\ req'[q].stale = b
          /\ req'[q].pc = req[q].pc /\ req'[q].state = req[q].state
          /\ req'[q].account = req[q].account /\ req'[q].image = req[q].image
          /\ req'[q].links = req[q].links
      BY <3>1, <3>4 DEF Local
    <3>6. PICK c, i : c = req[q].account /\ i = req[q].image OBVIOUS
    <3>7. ASSUME req'[q].pc = "save"
          PROVE  /\ c \in Account
                 /\ i # None => LinkedBy(c, i)
                 /\ ~req'[q].links /\ ~req'[q].stale => i = discord'[c]
      <4>1. /\ c \in Account
            /\ i # None => LinkedBy(c, i)
            /\ ~req[q].links /\ ~req[q].stale => i = discord[c]
        BY <3>1, <3>5, <3>6, <3>7 DEF Saving
      <4>2. ~b => ~req[q].stale /\ (c = a => u = discord[a]) BY <3>2, <3>6
      <4> QED BY <1>4, <3>5, <4>1, <4>2
    <3>8. Saving(req[q])' BY <1>6, <3>5, <3>6, <3>7 DEF Saving, LinkedBy, Pay
    <3> QED BY <3>5, <3>8
  <2> QED BY <2>1, <2>2
<1>13. Handlers'
  <2>1. req' \in [Request -> Local] BY <1>11, <1>12
  <2>2. \A q \in Request : req'[q].pc \in {"del", "act"} => req'[q].state \in DOMAIN begun'
    BY <1>6, <1>12, IdleTyped DEF Inv, Handlers
  <2> QED BY <1>12, <2>1, <2>2 DEF Handlers
<1>14. Exclusive'
  <2>1. \A q \in Request : \A s : Holding(q, s)' => Holding(q, s)
    BY <1>12, IdleTyped DEF Holding
  <2>2. StatesExclusive'
    BY <1>3, <2>1 DEF Inv, Exclusive, StatesExclusive, states, histories
  <2> QED BY <1>3, <2>2 DEF Inv, Exclusive, RedeemedTwiceForCause, histories
<1> QED BY <1>9, <1>10, <1>13, <1>14 DEF Inv

------------------------------------------------------------------------------
\* The theorems

LEMMA InitInv == Init => Inv
<1> SUFFICES ASSUME Init PROVE Inv OBVIOUS
<1>1. Redis BY StatesAssumption DEF Init, Redis
<1>2. Handlers BY IdleTyped DEF Init, Handlers, Saving
<1>3. Database
  <2>1. LinkStands /\ outcome \in [Account -> SUBSET (Identity \cup {None})]
    BY DEF Init, LinkStands
  <2> QED BY <2>1 DEF Init, Database, LinkedByOwner, KeysOfBeginner
<1>4. Exclusive BY DEF Init, Exclusive, StatesExclusive, RedeemedTwiceForCause
<1> QED BY <1>1, <1>2, <1>3, <1>4 DEF Inv

LEMMA NextInv == Inv /\ [Next]_vars => Inv'
<1> SUFFICES ASSUME Inv, [Next]_vars PROVE Inv' OBVIOUS
<1>1. ASSUME NEW lost \in BOOLEAN,
             \/ \E category \in Category : Login(category, lost)
             \/ BeginDiscordLogin(lost) \/ BeginFido2Login(lost)
             \/ \E a \in Account :
                  BeginDiscordLink(a, lost) \/ \E name \in Name : BeginFido2Register(a, name, lost)
      PROVE  Inv'
  BY <1>1, BeginSteps
<1>2. ASSUME NEW r \in Request, NEW lost \in BOOLEAN,
             Del(r, lost) \/ \E category \in Category : TryAgain(r, category, lost)
      PROVE  Inv'
  BY <1>2, DelStep, TryAgainStep
<1>3. ASSUME NEW s \in State,
             Expire(s) \/ (\E i \in Identity : Prove(s, i)) \/ (\E r \in Request : Get(r, s))
      PROVE  Inv'
  BY <1>3, ExpireStep, ProveStep, GetStep
<1>4. ASSUME NEW r \in Request, NEW i \in Identity,
             LinkDiscord(r, i) \/ StoreKey(r, i) \/ \E a \in Account : LoginDiscord(r, i, a)
      PROVE  Inv'
  <2>1. ASSUME NEW a \in Account, LoginDiscord(r, i, a) PROVE Inv'
    BY <2>1, EndsIdle DEF LoginDiscord, Finish
  <2> QED BY <1>4, <2>1, LinkDiscordStep, StoreKeyStep
<1>5. ASSUME NEW r \in Request,
             \/ \E a \in Account : Unlink(r, a) \/ SaveOtherColumns(r, a)
             \/ LoginTotp(r) \/ ResendActivation(r) \/ FinishFido2Login(r) \/ Fail(r)
             \/ Save(r)
      PROVE  Inv'
  <2>1. ASSUME Finish(r) PROVE Inv' BY <2>1, EndsIdle DEF Finish
  <2> QED
    BY <1>5, <2>1, UnlinkStep, SaveOtherColumnsStep, SaveStep
    DEF LoginTotp, ResendActivation, FinishFido2Login, Fail
<1>6. ASSUME NEW a \in Account, NEW name \in Name, DeleteFido2Login(a, name) PROVE Inv'
  BY <1>6, DeleteFido2LoginStep
<1>7. ASSUME UNCHANGED vars PROVE Inv'
  <2>1. Grown BY <1>7 DEF Grown, vars, states
  <2>2. Database' BY <1>7, <2>1, DatabaseGrows DEF Inv, Database, vars, states
  <2> QED BY <1>7, <2>1, <2>2, RedisStays DEF Inv, Handlers, vars, rows
<1> QED BY <1>1, <1>2, <1>3, <1>4, <1>5, <1>6, <1>7 DEF Next

LEMMA InvAlways == Spec => []Inv
BY InitInv, NextInv, PTL DEF Spec

\* The inductive invariant of one-time states and linked rows holds for any
\* number of accounts, identities, requests and states.
THEOREM StatesInvariant == Spec => []StatesInv
<1>1. Inv => StatesInv BY InvIsAll
<1> QED BY <1>1, InvAlways, PTL

\* EndState serves two handlers with one state only if a DEL was lost or came
\* after both had sent GET.
THEOREM TwiceOnlyForCause == Spec => []RedeemedTwiceForCause
<1>1. Inv => RedeemedTwiceForCause BY InvIsAll
<1> QED BY <1>1, InvAlways, PTL

\* discordLinkCallback and every later Save of the row leave an account with a
\* Discord user who proved himself in a linking of that account.
THEOREM LinksAreOfOwner == Spec => []LinkedByOwner
<1>1. Inv => LinkedByOwner BY InvIsAll
<1> QED BY <1>1, InvAlways, PTL

\* FinishFido2Register only stores keys that were proved in a registration of
\* the account they are stored with.
THEOREM KeysAreOfBeginner == Spec => []KeysOfBeginner
<1>1. Inv => KeysOfBeginner BY InvIsAll
<1> QED BY <1>1, InvAlways, PTL

\* What a linking or an unlinking wrote is only undone by a Save of an outdated
\* copy.
THEOREM LinksAlwaysStand == Spec => []LinkStands
<1>1. Inv => LinkStands BY InvIsAll
<1> QED BY <1>1, InvAlways, PTL
==============================================================================
