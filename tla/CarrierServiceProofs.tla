------------------------ MODULE CarrierServiceProofs ------------------------
(***************************************************************************)
(* For every list of services and every sequence of changes that leads to  *)
(* it: RemoveService never slices beyond the end of the list, and both     *)
(* loops compute what CarrierServices says they return.                    *)
(***************************************************************************)
EXTENDS CarrierServiceLoops, SequenceTheorems, WellFoundedInduction, TLAPS

------------------------------------------------------------------------------
\* The lists of SetServices, one after the other

\* Induction over the naturals, as a statement about sets: a set without a
\* least missing number misses none.
LEMMA NatSetInduction ==
    ASSUME NEW T \in SUBSET Nat, 0 \in T, \A k \in T : k + 1 \in T
    PROVE  T = Nat
<1>. SUFFICES ASSUME T # Nat PROVE FALSE
  OBVIOUS
<1>1. PICK R : R = {ss \in Nat \X Nat : ss[1] < ss[2]}
  OBVIOUS
<1>2. OpToRel(<, Nat) = {ss \in Nat \X Nat : ss[1] < ss[2]}
  BY DEF OpToRel
<1>3. IsWellFoundedOn(R, Nat)
  BY <1>1, <1>2, NatLessThanWellFounded
<1>4. PICK B : B = Nat \ T
  OBVIOUS
<1>5. B \subseteq Nat /\ B # {}
  BY <1>4
<1>6. \E x \in B : \A y \in B : ~(<<y, x>> \in R)
  BY <1>3, <1>5, WFMin, Zenon
<1>7. PICK x \in B : \A y \in B : ~(<<y, x>> \in R)
  BY <1>6
<1>8. x \in Nat /\ x # 0 /\ x \notin T
  BY <1>4, <1>7
<1>9. x - 1 \in Nat /\ x - 1 < x /\ (x - 1) + 1 = x
  BY <1>8
<1>10. x - 1 \in B
  BY <1>4, <1>8, <1>9
<1>. QED BY <1>1, <1>7, <1>8, <1>9, <1>10

\* The next list is the last one with one more name.
Continues(w, services, names, m) ==
    w = [k \in 0 .. m |-> IF k = 0 THEN services ELSE AddService(w[k - 1], names[k])]

\* There are such lists, for every number of names.
LEMMA AdditionsExist ==
    ASSUME NEW services, NEW names, NEW n \in Nat
    PROVE  \E w : Continues(w, services, names, n)
<1>1. PICK T : T = {m \in Nat : \E w : Continues(w, services, names, m)}
  OBVIOUS
<1>2. 0 \in T
  <2>1. Continues([k \in 0 .. 0 |-> services], services, names, 0)
    BY DEF Continues
  <2>. QED BY <2>1, <1>1
<1>3. ASSUME NEW m \in T PROVE m + 1 \in T
  <2>1. m \in Nat
    BY <1>1
  <2>2. PICK w : Continues(w, services, names, m)
    BY <1>1
  <2>3. PICK v : v = [k \in 0 .. m + 1 |->
                        IF k = m + 1 THEN AddService(w[m], names[m + 1]) ELSE w[k]]
    OBVIOUS
  <2>4. \A k \in 0 .. m + 1 :
            v[k] = IF k = 0 THEN services ELSE AddService(v[k - 1], names[k])
    <3>. TAKE k \in 0 .. m + 1
    <3>1. CASE k = m + 1
      BY <3>1, <2>1, <2>3
    <3>2. CASE k # m + 1
      <4>1. k \in 0 .. m /\ v[k] = w[k] /\ (k # 0 => k - 1 \in 0 .. m + 1 /\ v[k - 1] = w[k - 1])
        BY <3>2, <2>1, <2>3
      <4>2. w[k] = IF k = 0 THEN services ELSE AddService(w[k - 1], names[k])
        BY <4>1, <2>2 DEF Continues
      <4>. QED BY <4>1, <4>2
    <3>. QED BY <3>1, <3>2
  <2>5. Continues(v, services, names, m + 1)
    BY <2>3, <2>4 DEF Continues
  <2>. QED BY <2>1, <2>5, <1>1
<1>4. T = Nat
  BY <1>1, <1>2, <1>3, NatSetInduction
<1>. QED BY <1>1, <1>4

\* What Additions says of itself is so.
LEMMA AdditionsUnfold ==
    ASSUME NEW services, NEW names, Len(names) \in Nat
    PROVE  /\ Additions(services, names)[0] = services
           /\ \A k \in 1 .. Len(names) :
                 Additions(services, names)[k]
                 = AddService(Additions(services, names)[k - 1], names[k])
<1>1. PICK n : n = Len(names) /\ n \in Nat
  OBVIOUS
<1>2. Additions(services, names) = CHOOSE w : Continues(w, services, names, n)
  BY <1>1 DEF Additions, Continues
<1>3. Continues(Additions(services, names), services, names, n)
  BY <1>1, <1>2, AdditionsExist
<1>4. PICK w : w = Additions(services, names)
  OBVIOUS
<1>5. \A k \in 0 .. n : w[k] = IF k = 0 THEN services ELSE AddService(w[k - 1], names[k])
  BY <1>3, <1>4 DEF Continues
<1>. QED BY <1>1, <1>4, <1>5

------------------------------------------------------------------------------
\* The inductive invariant

\* Init makes an empty list.
LEMMA LoopInit == Init => LoopInv
BY DEF Init, LoopInv, TypeOK, NoCall, Distinct

\* Names are sequences.
LEMMA NamesAreSequences == Names \subseteq Seq(Service \cup {Unknown})
BY LoopsAssumption DEF Names

\* A call begins with the list of the row, or with none.
LEMMA BeginKeeps ==
    ASSUME LoopInv, NEW c, Begin(c), c \in [method : {"RemoveService", "SetServices"},
                                 names : Seq(Service \cup {Unknown}), override : BOOLEAN],
           c.method = "RemoveService" => ~c.override /\ Len(c.names) = 1
    PROVE  LoopInv'
<1>1. TypeOK'
  BY DEF LoopInv, TypeOK, Begin
<1>2. Distinct(saved)' /\ call'.method # "panic"
  BY DEF LoopInv, Begin, Distinct
<1>3. ASSUME call'.method = "RemoveService"
      PROVE  (Len(call.names) = 1 /\ Len(array) = Len(saved) /\ Untouched(call.names[1]))'
  BY <1>3 DEF LoopInv, TypeOK, Begin, Untouched
<1>4. ASSUME call'.method = "SetServices"
      PROVE  /\ Distinct(Services')
             /\ i' <= Len(call'.names) + 1
             /\ Services' = Additions(IF call'.override THEN <<>> ELSE saved',
                                      call'.names)[i' - 1]
  <2>1. Services' = array'
    BY DEF LoopInv, TypeOK, Begin, Services
  <2>2. Distinct(array')
    BY DEF LoopInv, Begin, Distinct
  <2>3. Len(c.names) \in Nat
    OBVIOUS
  <2>4. /\ call' = c /\ i' = 1 /\ saved' = saved
        /\ array' = IF c.override THEN <<>> ELSE saved
    BY DEF Begin
  <2>5. array' = Additions(array', c.names)[0]
    BY <2>3, AdditionsUnfold
  <2>6. i' - 1 = 0 /\ i' <= Len(c.names) + 1
    BY <2>3, <2>4
  <2>. QED BY <2>1, <2>2, <2>4, <2>5, <2>6
<1>. QED BY <1>1, <1>2, <1>3, <1>4 DEF LoopInv

\* One iteration of RemoveService. A second match is impossible: what lies
\* beyond p in the array was beyond p in the row, and the row has the
\* service once.
LEMMA RemoveKeeps == ASSUME LoopInv, RemoveIteration PROVE LoopInv'
<1>. PICK s : s = call.names[1]
  OBVIOUS
<1>. PICK n : n = Len(saved)
  OBVIOUS
<1>. PICK k : k = i
  OBVIOUS
<1>1. /\ n \in Nat /\ i \in 1 .. n /\ len \in 0 .. n /\ i' = i + 1 /\ saved' = saved
      /\ DOMAIN saved = 1 .. n /\ DOMAIN array = 1 .. n /\ Len(array) = n
      /\ call.method = "RemoveService"
      /\ \A j \in 1 .. n : saved[j] \in Service /\ array[j] \in Service
  BY DEF LoopInv, TypeOK, RemoveIteration
<1>2. \A j, m \in 1 .. n : saved[j] = saved[m] => j = m
  BY <1>1 DEF LoopInv, Distinct
<1>3. CASE array[i] # s
  <2>1. UNCHANGED <<array, len, call>>
    BY <1>3, <1>1 DEF RemoveIteration
  <2>2. TypeOK'
    BY <1>1, <2>1 DEF LoopInv, TypeOK
  <2>3. CASE Untouched(s)
    <3>1. Untouched(s)'
      BY <2>3, <2>1, <1>1, <1>3 DEF Untouched
    <3>. QED BY <3>1, <2>1, <2>2, <1>1 DEF LoopInv
  <2>4. ASSUME NEW p \in 1 .. n, RemovedAt(p, s) PROVE LoopInv'
    <3>1. RemovedAt(p, s)'
      BY <2>4, <2>1, <1>1 DEF RemovedAt
    <3>. QED BY <3>1, <2>1, <2>2, <1>1 DEF LoopInv
  <2>. QED BY <2>3, <2>4, <1>1 DEF LoopInv
<1>4. CASE array[i] = s
  <2>1. ASSUME NEW p \in 1 .. n, RemovedAt(p, s) PROVE FALSE
    BY <2>1, <1>1, <1>2, <1>4 DEF RemovedAt
  <2>2. Untouched(s)
    BY <2>1, <1>1 DEF LoopInv
  <2>3. len = n /\ array = saved /\ saved[i] = s
    BY <2>2, <1>1, <1>4 DEF Untouched
  <2>4. array' = MovedDown(i) /\ len' = n - 1 /\ UNCHANGED call
    BY <2>3, <1>4, <1>1 DEF RemoveIteration
  <2>5. array' \in [1 .. n -> Service]
    BY <2>4, <2>3, <1>1 DEF MovedDown
  <2>6. array' \in Seq(Service) /\ Len(array') = n
    BY <2>5, <1>1
  <2>7. TypeOK'
    BY <2>4, <2>6, <1>1 DEF LoopInv, TypeOK
  <2>8. \A j \in 1 .. n : array'[j] = IF k <= j /\ j < n THEN saved[j + 1] ELSE saved[j]
    BY <2>4, <2>3, <1>1 DEF MovedDown
  <2>9. RemovedAt(k, s)' /\ k \in 1 .. Len(saved)'
    BY <2>8, <2>4, <2>3, <1>1 DEF RemovedAt
  <2>10. (Len(call.names) = 1 /\ Len(array) = Len(saved) /\ call.names[1] = s)'
    BY <2>4, <2>6, <1>1 DEF LoopInv
  <2>11. Distinct(saved)' /\ call'.method = "RemoveService"
    BY <2>4, <1>1 DEF LoopInv, Distinct
  <2>. QED BY <2>7, <2>9, <2>10, <2>11 DEF LoopInv
<1>. QED BY <1>3, <1>4

\* One iteration of SetServices appends what is not there.
LEMMA SetKeeps == ASSUME LoopInv, SetIteration PROVE LoopInv'
<1>. PICK t : t = Services
  OBVIOUS
<1>. PICK base : base = IF call.override THEN <<>> ELSE saved
  OBVIOUS
<1>1. t \in Seq(Service) /\ Len(t) = len /\ len \in Nat
  BY DEF LoopInv, TypeOK, Services
<1>2. /\ call.method = "SetServices" /\ call' = call /\ saved' = saved /\ i' = i + 1
      /\ i \in 1 .. Len(call.names) /\ Len(call.names) \in Nat /\ call.names[i] \in Service
  BY DEF LoopInv, TypeOK, SetIteration
<1>3. TypeOK' /\ Services' = AddService(t, call.names[i])
  <2>1. CASE HasService(t, call.names[i])
    <3>1. UNCHANGED <<array, len>>
      BY <2>1 DEF SetIteration
    <3>2. Services' = t
      BY <3>1 DEF Services
    <3>3. TypeOK'
      BY <3>1, <1>2 DEF LoopInv, TypeOK
    <3>. QED BY <3>2, <3>3, <2>1 DEF AddService
  <2>2. CASE ~HasService(t, call.names[i])
    <3>1. array' = Append(t, call.names[i]) /\ len' = len + 1
      BY <2>2 DEF SetIteration
    <3>2. array' \in Seq(Service) /\ Len(array') = len + 1
      BY <3>1, <1>1, <1>2
    <3>3. TypeOK'
      BY <1>2, <3>1, <3>2 DEF LoopInv, TypeOK
    <3>4. Services' = array'
      BY <3>1, <3>2, <1>1 DEF Services
    <3>. QED BY <3>1, <3>3, <3>4, <2>2 DEF AddService
  <2>. QED BY <2>1, <2>2
<1>4. Distinct(Services')
  <2>1. Distinct(t)
    BY <1>2 DEF LoopInv
  <2>2. \A j, k \in DOMAIN t : t[j] = t[k] => j = k
    BY <2>1 DEF Distinct
  <2>. QED BY <1>1, <1>2, <1>3, <2>2 DEF AddService, HasService, Distinct
<1>5. t = Additions(base, call.names)[i - 1]
  BY <1>2 DEF LoopInv
<1>6. Services' = Additions(base, call.names)[i]
  BY <1>2, <1>3, <1>5, AdditionsUnfold
<1>7. i' <= Len(call.names) + 1 /\ i' - 1 = i
  BY <1>2
<1>8. Distinct(saved')
  BY <1>2 DEF LoopInv
<1>. QED BY <1>2, <1>3, <1>4, <1>6, <1>7, <1>8 DEF LoopInv

\* What a finished call leaves has no service twice.
LEMMA SaveKeeps == ASSUME LoopInv, Save PROVE LoopInv'
<1>1. saved' = Services /\ call' = NoCall /\ UNCHANGED <<array, len, i>>
  BY DEF Save
<1>2. Services \in Seq(Service)
  BY DEF LoopInv, TypeOK, Services
<1>3. TypeOK'
  BY <1>1, <1>2 DEF LoopInv, TypeOK, NoCall
<1>4. Distinct(Services)
  <2>1. CASE call.method = "SetServices"
    BY <2>1 DEF LoopInv
  <2>2. CASE call.method = "RemoveService"
    <3>. PICK s : s = call.names[1]
      OBVIOUS
    <3>1. \A j, k \in 1 .. Len(saved) : saved[j] = saved[k] => j = k
      BY DEF LoopInv, TypeOK, Distinct
    <3>2. CASE Untouched(s)
      BY <3>2, <3>1 DEF LoopInv, TypeOK, Untouched, Services, Distinct
    <3>3. ASSUME NEW p \in 1 .. Len(saved), RemovedAt(p, s) PROVE Distinct(Services)
      <4>. PICK m : m = Len(saved)
        OBVIOUS
      <4>1. m \in Nat /\ len = m - 1 /\ p \in 1 .. m /\ Len(array) = m /\ array \in Seq(Service)
        BY <3>3, <2>2 DEF LoopInv, TypeOK, RemovedAt
      <4>2. \A j \in 1 .. m - 1 : array[j] = IF p <= j THEN saved[j + 1] ELSE saved[j]
        BY <3>3, <4>1 DEF RemovedAt
      <4>3. DOMAIN Services = 1 .. m - 1 /\ \A j \in 1 .. m - 1 : Services[j] = array[j]
        BY <4>1 DEF Services
      <4>4. \A j, k \in 1 .. m - 1 : array[j] = array[k] => j = k
        BY <4>1, <4>2, <3>1
      <4>. QED BY <4>3, <4>4 DEF Distinct
    <3>. QED BY <3>2, <3>3, <2>2 DEF LoopInv
  <2>. QED BY <2>1, <2>2 DEF Save, Finished
<1>. QED BY <1>1, <1>3, <1>4 DEF LoopInv, NoCall

\* LoopInv holds throughout: every list that RemoveService is called on has
\* each service once, and the rest of the array is as RemovedAt says.
THEOREM ServiceLoopsInvariant == Spec => []LoopInv
<1>1. ASSUME LoopInv, [Next]_vars PROVE LoopInv'
  <2>1. ASSUME NEW s \in Service, BeginRemoveService(s) PROVE LoopInv'
    <3>1. <<s>> \in Seq(Service \cup {Unknown}) /\ Len(<<s>>) = 1
      OBVIOUS
    <3>. QED BY <2>1, <3>1, <1>1, BeginKeeps DEF BeginRemoveService
  <2>2. ASSUME NEW names \in Names, NEW override \in BOOLEAN, BeginSetServices(names, override)
        PROVE  LoopInv'
    BY <2>2, <1>1, NamesAreSequences, BeginKeeps DEF BeginSetServices
  <2>3. CASE RemoveIteration
    BY <2>3, <1>1, RemoveKeeps
  <2>4. CASE SetIteration
    BY <2>4, <1>1, SetKeeps
  <2>5. CASE Refuse
    BY <2>5, <1>1 DEF Refuse, LoopInv, TypeOK, NoCall, Distinct
  <2>6. CASE Save
    BY <2>6, <1>1, SaveKeeps
  <2>7. CASE UNCHANGED vars
    BY <2>7, <1>1 DEF vars, LoopInv, TypeOK, Distinct, Untouched, RemovedAt, Services
  <2>. QED BY <1>1, <2>1, <2>2, <2>3, <2>4, <2>5, <2>6, <2>7 DEF Next
<1>. QED BY LoopInit, <1>1, PTL DEF Spec

\* RemoveService never panics (carrier.go:117).
THEOREM RemoveNeverPanics == Spec => []NeverOutOfRange
<1>1. LoopInv => NeverOutOfRange
  BY DEF LoopInv, NeverOutOfRange
<1>. QED BY <1>1, ServiceLoopsInvariant, PTL

\* What RemoveAt leaves of a sequence.
LEMMA RemoveAtElements ==
    ASSUME NEW S, NEW t \in Seq(S), NEW p \in 1 .. Len(t)
    PROVE  /\ RemoveAt(t, p) \in Seq(S)
           /\ Len(RemoveAt(t, p)) = Len(t) - 1
           /\ \A j \in 1 .. Len(t) - 1 :
                 RemoveAt(t, p)[j] = IF j < p THEN t[j] ELSE t[j + 1]
<1>1. PICK n : n = Len(t) /\ n \in Nat /\ p \in 1 .. n
  OBVIOUS
<1>2. PICK front : front = SubSeq(t, 1, p - 1)
  OBVIOUS
<1>3. PICK rest : rest = SubSeq(t, p + 1, n)
  OBVIOUS
<1>4. front \in Seq(S) /\ Len(front) = p - 1 /\ \A j \in 1 .. p - 1 : front[j] = t[j]
  BY <1>1, <1>2
<1>5. rest \in Seq(S) /\ Len(rest) = n - p /\ \A j \in 1 .. n - p : rest[j] = t[j + p]
  BY <1>1, <1>3
<1>6. PICK joined : joined = front \o rest
  OBVIOUS
<1>7. /\ joined \in Seq(S) /\ Len(joined) = Len(front) + Len(rest)
      /\ \A j \in 1 .. Len(front) + Len(rest) :
            joined[j] = IF j <= Len(front) THEN front[j] ELSE rest[j - Len(front)]
  BY <1>4, <1>5, <1>6, ConcatProperties
<1>8. Len(joined) = n - 1
  BY <1>1, <1>4, <1>5, <1>7
<1>9. ASSUME NEW j \in 1 .. n - 1
      PROVE  joined[j] = IF j < p THEN t[j] ELSE t[j + 1]
  <2>1. joined[j] = IF j <= p - 1 THEN front[j] ELSE rest[j - (p - 1)]
    BY <1>1, <1>4, <1>5, <1>7
  <2>2. CASE j < p
    BY <2>1, <2>2, <1>1, <1>4
  <2>3. CASE ~(j < p)
    <3>1. j - (p - 1) \in 1 .. n - p /\ (j - (p - 1)) + p = j + 1
      BY <2>3, <1>1
    <3>. QED BY <2>1, <2>3, <3>1, <1>1, <1>5
  <2>. QED BY <2>2, <2>3
<1>10. RemoveAt(t, p) = joined
  BY <1>1, <1>2, <1>3, <1>6 DEF RemoveAt
<1>. QED BY <1>1, <1>7, <1>8, <1>9, <1>10

\* RemoveService returns the list without the service, in its order, although
\* its loop moves down the array that it reads (carrier.go:114).
THEOREM RemoveReturnsTheRest == Spec => []RemoveExact
<1>1. ASSUME LoopInv, Finished, call.method = "RemoveService"
      PROVE  Services = RemoveService(saved, call.names[1])
  <2>. PICK s : s = call.names[1]
    OBVIOUS
  <2>. PICK m : m = Len(saved)
    OBVIOUS
  <2>1. /\ m \in Nat /\ saved \in Seq(Service) /\ DOMAIN saved = 1 .. m
        /\ array \in Seq(Service) /\ Len(array) = m /\ i \in Nat /\ i > m
    BY <1>1 DEF LoopInv, TypeOK, Finished
  <2>2. CASE Untouched(s)
    <3>1. Services = saved
      BY <2>1, <2>2 DEF Untouched, Services
    <3>2. ~HasService(saved, s)
      BY <2>1, <2>2 DEF Untouched, HasService
    <3>. QED BY <3>1, <3>2 DEF RemoveService
  <2>3. ASSUME NEW p \in 1 .. m, RemovedAt(p, s)
        PROVE  Services = RemoveService(saved, s)
    <3>1. saved[p] = s /\ len = m - 1
      BY <2>3 DEF RemovedAt
    <3>2. \A j \in 1 .. m : array[j] = IF p <= j /\ j < m THEN saved[j + 1] ELSE saved[j]
      BY <2>3 DEF RemovedAt
    <3>3. \A q \in DOMAIN saved : saved[q] = s => q = p
      BY <1>1, <2>1, <3>1 DEF LoopInv, Distinct
    <3>4. p = CHOOSE q \in DOMAIN saved : saved[q] = s
      BY <3>1, <3>3, <2>1
    <3>5. RemoveService(saved, s) = RemoveAt(saved, p)
      BY <3>1, <3>4, <2>1 DEF RemoveService, HasService
    <3>6. PICK rest : rest = RemoveAt(saved, p)
      OBVIOUS
    <3>. saved \in Seq(Service) /\ p \in 1 .. Len(saved)
      BY <2>1
    <3>7. /\ rest \in Seq(Service) /\ Len(rest) = m - 1
          /\ \A j \in 1 .. m - 1 : rest[j] = IF j < p THEN saved[j] ELSE saved[j + 1]
      BY <3>6, RemoveAtElements
    <3>8. /\ Services \in Seq(Service) /\ Len(Services) = m - 1
          /\ \A j \in 1 .. m - 1 : Services[j] = array[j]
      BY <2>1, <3>1 DEF Services
    <3>9. ASSUME NEW j \in 1 .. m - 1 PROVE Services[j] = rest[j]
      <4>1. j \in 1 .. m /\ j < m /\ (p <= j <=> ~(j < p))
        BY <2>1
      <4>. QED BY <4>1, <3>2, <3>7, <3>8
    <3>10. Services = rest
      BY <2>1, <3>7, <3>8, <3>9, SeqEqual
    <3>. QED BY <3>5, <3>6, <3>10
  <2>. QED BY <2>2, <2>3, <1>1 DEF LoopInv
<1>2. LoopInv => RemoveExact
  BY <1>1 DEF RemoveExact
<1>. QED BY <1>2, ServiceLoopsInvariant, PTL

\* SetServices returns the list, or nothing if it overrides, with the new
\* names in the order in which they first occur (carrier.go:96).
THEOREM SetReturnsAllNames == Spec => []SetExact
<1>1. ASSUME LoopInv, Finished, call.method = "SetServices"
      PROVE  Services = SetServices(saved, call.names, call.override)
  <2>1. i - 1 = Len(call.names)
    BY <1>1 DEF LoopInv, TypeOK, Finished
  <2>. QED BY <1>1, <2>1 DEF LoopInv, SetServices
<1>2. LoopInv => SetExact
  BY <1>1 DEF SetExact
<1>. QED BY <1>2, ServiceLoopsInvariant, PTL
==============================================================================
