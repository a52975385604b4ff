--------------------------- MODULE CarriersProofs ---------------------------
(***************************************************************************)
(* For any number of carriers, requests and bodies: no list of services    *)
(* names one twice, and every write of the table carriers is one request's *)
(* whole effect on the carrier as it is, or of a copy that is outdated.    *)
(* Carriers implements CarrierFleet.                                       *)
(***************************************************************************)
EXTENDS Carriers, SequenceTheorems, WellFoundedInduction, TLAPS

------------------------------------------------------------------------------
\* What the methods on lists of services return

\* Induction over the naturals, as a statement about sets: a set without a
\* least missing number misses none.
LEMMA NatSetInduction ==
    ASSUME NEW T \in SUBSET Nat, 0 \in T, \A k \in T : k + 1 \in T
    PROVE  T = Nat
<1>. SUFFICES ASSUME T # Nat PROVE FALSE
  OBVIOUS
<1>1. PICK R : R = {ss \in Nat \X Nat : ss[1] < ss[2]}
  OBVIOUS
<1>2. OpToRel(<, Nat) = {ss \in Nat \X Nat : ss[1] < ss[2]}
  BY DEF OpToRel
<1>3. IsWellFoundedOn(R, Nat)
  BY <1>1, <1>2, NatLessThanWellFounded
<1>4. PICK B : B = Nat \ T
  OBVIOUS
<1>5. B \subseteq Nat /\ B # {}
  BY <1>4
<1>6. \E x \in B : \A y \in B : ~(<<y, x>> \in R)
  BY <1>3, <1>5, WFMin, Zenon
<1>7. PICK x \in B : \A y \in B : ~(<<y, x>> \in R)
  BY <1>6
<1>8. x \in Nat /\ x # 0 /\ x \notin T
  BY <1>4, <1>7
<1>9. x - 1 \in Nat /\ x - 1 < x /\ (x - 1) + 1 = x
  BY <1>8
<1>10. x - 1 \in B
  BY <1>4, <1>8, <1>9
<1>. QED BY <1>1, <1>7, <1>8, <1>9, <1>10

\* The next list is the last one with one more name.
Continues(w, services, names, m) ==
    w = [k \in 0 .. m |-> IF k = 0 THEN services ELSE AddService(w[k - 1], names[k])]

\* There are such lists, for every number of names.
LEMMA AdditionsExist ==
    ASSUME NEW services, NEW names, NEW n \in Nat
    PROVE  \E w : Continues(w, services, names, n)
<1>1. PICK T : T = {m \in Nat : \E w : Continues(w, services, names, m)}
  OBVIOUS
<1>2. 0 \in T
  <2>1. Continues([k \in 0 .. 0 |-> services], services, names, 0)
    BY DEF Continues
  <2>. QED BY <2>1, <1>1
<1>3. ASSUME NEW m \in T PROVE m + 1 \in T
  <2>1. m \in Nat
    BY <1>1
  <2>2. PICK w : Continues(w, services, names, m)
    BY <1>1
  <2>3. PICK v : v = [k \in 0 .. m + 1 |->
                        IF k = m + 1 THEN AddService(w[m], names[m + 1]) ELSE w[k]]
    OBVIOUS
  <2>4. \A k \in 0 .. m + 1 :
            v[k] = IF k = 0 THEN services ELSE AddService(v[k - 1], names[k])
    <3>. TAKE k \in 0 .. m + 1
    <3>1. CASE k = m + 1
      BY <3>1, <2>1, <2>3
    <3>2. CASE k # m + 1
      <4>1. k \in 0 .. m /\ v[k] = w[k] /\ (k # 0 => k - 1 \in 0 .. m + 1 /\ v[k - 1] = w[k - 1])
        BY <3>2, <2>1, <2>3
      <4>2. w[k] = IF k = 0 THEN services ELSE AddService(w[k - 1], names[k])
        BY <4>1, <2>2 DEF Continues
      <4>. QED BY <4>1, <4>2
    <3>. QED BY <3>1, <3>2
  <2>5. Continues(v, services, names, m + 1)
    BY <2>3, <2>4 DEF Continues
  <2>. QED BY <2>1, <2>5, <1>1
<1>4. T = Nat
  BY <1>1, <1>2, <1>3, NatSetInduction
<1>. QED BY <1>1, <1>4

\* What Additions says of itself is so.
LEMMA AdditionsUnfold ==
    ASSUME NEW services, NEW names, Len(names) \in Nat
    PROVE  /\ Additions(services, names)[0] = services
           /\ \A k \in 1 .. Len(names) :
                 Additions(services, names)[k]
                 = AddService(Additions(services, names)[k - 1], names[k])
<1>1. PICK n : n = Len(names) /\ n \in Nat
  OBVIOUS
<1>2. Additions(services, names) = CHOOSE w : Continues(w, services, names, n)
  BY <1>1 DEF Additions, Continues
<1>3. Continues(Additions(services, names), services, names, n)
  BY <1>1, <1>2, AdditionsExist
<1>4. PICK w : w = Additions(services, names)
  OBVIOUS
<1>5. \A k \in 0 .. n : w[k] = IF k = 0 THEN services ELSE AddService(w[k - 1], names[k])
  BY <1>3, <1>4 DEF Continues
<1>. QED BY <1>1, <1>4, <1>5

\* What RemoveAt leaves of a sequence.
LEMMA RemoveAtElements ==
    ASSUME NEW S, NEW t \in Seq(S), NEW p \in 1 .. Len(t)
    PROVE  /\ RemoveAt(t, p) \in Seq(S)
           /\ Len(RemoveAt(t, p)) = Len(t) - 1
           /\ \A j \in 1 .. Len(t) - 1 :
                 RemoveAt(t, p)[j] = IF j < p THEN t[j] ELSE t[j + 1]
<1>1. PICK n : n = Len(t) /\ n \in Nat /\ p \in 1 .. n
  OBVIOUS
<1>2. PICK front : front = SubSeq(t, 1, p - 1)
  OBVIOUS
<1>3. PICK rest : rest = SubSeq(t, p + 1, n)
  OBVIOUS
<1>4. front \in Seq(S) /\ Len(front) = p - 1 /\ \A j \in 1 .. p - 1 : front[j] = t[j]
  BY <1>1, <1>2
<1>5. rest \in Seq(S) /\ Len(rest) = n - p /\ \A j \in 1 .. n - p : rest[j] = t[j + p]
  BY <1>1, <1>3
<1>6. PICK joined : joined = front \o rest
  OBVIOUS
<1>7. /\ joined \in Seq(S) /\ Len(joined) = Len(front) + Len(rest)
      /\ \A j \in 1 .. Len(front) + Len(rest) :
            joined[j] = IF j <= Len(front) THEN front[j] ELSE rest[j - Len(front)]
  BY <1>4, <1>5, <1>6, ConcatProperties
<1>8. Len(joined) = n - 1
  BY <1>1, <1>4, <1>5, <1>7
<1>9. ASSUME NEW j \in 1 .. n - 1
      PROVE  joined[j] = IF j < p THEN t[j] ELSE t[j + 1]
  <2>1. joined[j] = IF j <= p - 1 THEN front[j] ELSE rest[j - (p - 1)]
    BY <1>1, <1>4, <1>5, <1>7
  <2>2. CASE j < p
    BY <2>1, <2>2, <1>1, <1>4
  <2>3. CASE ~(j < p)
    <3>1. j - (p - 1) \in 1 .. n - p /\ (j - (p - 1)) + p = j + 1
      BY <2>3, <1>1
    <3>. QED BY <2>1, <2>3, <3>1, <1>1, <1>5
  <2>. QED BY <2>2, <2>3
<1>10. RemoveAt(t, p) = joined
  BY <1>1, <1>2, <1>3, <1>6 DEF RemoveAt
<1>. QED BY <1>1, <1>7, <1>8, <1>9, <1>10

\* One service more, unless the list has it.
LEMMA AddServiceList ==
    ASSUME NEW S, NEW t \in Seq(S), NEW x \in S, Distinct(t)
    PROVE  /\ AddService(t, x) \in Seq(S)
           /\ Distinct(AddService(t, x))
           /\ ToSet(AddService(t, x)) = ToSet(t) \cup {x}
<1>1. \A i, j \in 1 .. Len(t) : t[i] = t[j] => i = j
  BY DEF Distinct
<1>2. CASE HasService(t, x)
  BY <1>2 DEF AddService, HasService, ToSet
<1>3. CASE ~HasService(t, x)
  <2>1. PICK n : n = Len(t) /\ n \in Nat /\ DOMAIN t = 1 .. n
    OBVIOUS
  <2>2. PICK u : u = Append(t, x)
    OBVIOUS
  <2>3. /\ u \in Seq(S) /\ DOMAIN u = 1 .. n + 1
        /\ u[n + 1] = x /\ \A i \in 1 .. n : u[i] = t[i]
    BY <2>1, <2>2
  <2>4. \A i \in 1 .. n : t[i] # x
    BY <1>3, <2>1 DEF HasService
  <2>5. Distinct(u)
    BY <1>1, <2>1, <2>3, <2>4 DEF Distinct
  <2>6. ToSet(u) = ToSet(t) \cup {x}
    BY <2>1, <2>3 DEF ToSet
  <2>. QED BY <1>3, <2>2, <2>3, <2>5, <2>6 DEF AddService
<1>. QED BY <1>2, <1>3

\* The first k names.
FirstNames(names, k) == {names[j] : j \in 1 .. k}

\* The lists that SetServices passes through.
LEMMA AdditionsLists ==
    ASSUME NEW S, NEW t \in Seq(S), NEW names \in Seq(S), Distinct(t),
           NEW k \in 0 .. Len(names)
    PROVE  /\ Additions(t, names)[k] \in Seq(S)
           /\ Distinct(Additions(t, names)[k])
           /\ ToSet(Additions(t, names)[k]) = ToSet(t) \cup FirstNames(names, k)
<1>1. PICK n : n = Len(names) /\ n \in Nat
  OBVIOUS
<1>2. PICK w : w = Additions(t, names)
  OBVIOUS
<1>3. w[0] = t /\ \A m \in 1 .. n : w[m] = AddService(w[m - 1], names[m])
  BY <1>1, <1>2, AdditionsUnfold
<1>4. PICK T : T = {m \in Nat : m <= n =>
                       /\ w[m] \in Seq(S) /\ Distinct(w[m])
                       /\ ToSet(w[m]) = ToSet(t) \cup FirstNames(names, m)}
  OBVIOUS
<1>5. 0 \in T
  <2>1. FirstNames(names, 0) = {}
    BY DEF FirstNames
  <2>. QED BY <1>3, <1>4, <2>1
<1>6. ASSUME NEW m \in T PROVE m + 1 \in T
  <2>1. m \in Nat
    BY <1>4
  <2>2. SUFFICES ASSUME m + 1 <= n
                 PROVE  /\ w[m + 1] \in Seq(S) /\ Distinct(w[m + 1])
                        /\ ToSet(w[m + 1]) = ToSet(t) \cup FirstNames(names, m + 1)
    BY <2>1, <1>4
  <2>3. m <= n /\ m + 1 \in 1 .. n /\ (m + 1) - 1 = m
    BY <2>1, <2>2, <1>1
  <2>4. /\ w[m] \in Seq(S) /\ Distinct(w[m])
        /\ ToSet(w[m]) = ToSet(t) \cup FirstNames(names, m)
    BY <2>3, <1>4
  <2>5. names[m + 1] \in S
    BY <2>3, <1>1
  <2>6. w[m + 1] = AddService(w[m], names[m + 1])
    BY <2>3, <1>3
  <2>7. /\ w[m + 1] \in Seq(S) /\ Distinct(w[m + 1])
        /\ ToSet(w[m + 1]) = ToSet(w[m]) \cup {names[m + 1]}
    <3>1. PICK v \in Seq(S) : v = w[m]
      BY <2>4
    <3>2. PICK x \in S : x = names[m + 1]
      BY <2>5
    <3>3. /\ AddService(v, x) \in Seq(S) /\ Distinct(AddService(v, x))
          /\ ToSet(AddService(v, x)) = ToSet(v) \cup {x}
      BY <2>4, <3>1, AddServiceList
    <3>. QED BY <2>6, <3>1, <3>2, <3>3
  <2>8. FirstNames(names, m + 1) = FirstNames(names, m) \cup {names[m + 1]}
    BY <2>1 DEF FirstNames
  <2>. QED BY <2>4, <2>7, <2>8
<1>7. T = Nat
  BY <1>4, <1>5, <1>6, NatSetInduction
<1>8. k \in T /\ k <= n
  BY <1>1, <1>7
<1>. QED BY <1>2, <1>4, <1>8

\* The list with all the names of a request.
LEMMA SetServicesList ==
    ASSUME NEW S, NEW t \in Seq(S), NEW names \in Seq(S), Distinct(t), NEW override \in BOOLEAN
    PROVE  /\ SetServices(t, names, override) \in Seq(S)
           /\ Distinct(SetServices(t, names, override))
           /\ ToSet(SetServices(t, names, override))
              = (IF override THEN {} ELSE ToSet(t)) \cup ToSet(names)
<1>1. PICK base : base = IF override THEN <<>> ELSE t
  OBVIOUS
<1>2. base \in Seq(S) /\ Distinct(base) /\ ToSet(base) = IF override THEN {} ELSE ToSet(t)
  BY <1>1 DEF Distinct, ToSet
<1>3. Len(names) \in 0 .. Len(names) /\ ToSet(names) = FirstNames(names, Len(names))
  BY DEF ToSet, FirstNames
<1>4. SetServices(t, names, override) = Additions(base, names)[Len(names)]
  BY <1>1 DEF SetServices
<1>5. /\ Additions(base, names)[Len(names)] \in Seq(S)
      /\ Distinct(Additions(base, names)[Len(names)])
      /\ ToSet(Additions(base, names)[Len(names)])
         = ToSet(base) \cup FirstNames(names, Len(names))
  BY <1>2, <1>3, AdditionsLists
<1>6. PICK set : set = ToSet(SetServices(t, names, override))
  OBVIOUS
<1>7. set = ToSet(base) \cup ToSet(names)
  BY <1>3, <1>4, <1>5, <1>6
<1>8. set = (IF override THEN {} ELSE ToSet(t)) \cup ToSet(names)
  BY <1>2, <1>7
<1>. QED BY <1>4, <1>5, <1>6, <1>8

\* One service less: of a list that had it twice, it would leave it.
LEMMA RemoveServiceList ==
    ASSUME NEW S, NEW t \in Seq(S), NEW x, Distinct(t)
    PROVE  /\ RemoveService(t, x) \in Seq(S)
           /\ Distinct(RemoveService(t, x))
           /\ ToSet(RemoveService(t, x)) = ToSet(t) \ {x}
<1>1. PICK n : n = Len(t) /\ n \in Nat /\ DOMAIN t = 1 .. n
  OBVIOUS
<1>2. \A i, j \in 1 .. n : t[i] = t[j] => i = j
  BY <1>1 DEF Distinct
<1>3. CASE ~HasService(t, x)
  BY <1>3 DEF RemoveService, HasService, ToSet
<1>4. CASE HasService(t, x)
  <2>1. PICK p \in 1 .. n : p = CHOOSE q \in DOMAIN t : t[q] = x
    BY <1>4, <1>1 DEF HasService
  <2>2. t[p] = x
    BY <1>4, <1>1, <2>1 DEF HasService
  <2>3. PICK u : u = RemoveAt(t, p)
    OBVIOUS
  <2>4. RemoveService(t, x) = u
    BY <1>4, <2>1, <2>3 DEF RemoveService
  <2>. p \in 1 .. Len(t)
    BY <1>1
  <2>5. /\ u \in Seq(S) /\ Len(u) = n - 1
        /\ \A j \in 1 .. n - 1 : u[j] = IF j < p THEN t[j] ELSE t[j + 1]
    BY <1>1, <2>3, RemoveAtElements
  <2>6. DOMAIN u = 1 .. n - 1
    BY <2>5
  <2>7. ASSUME NEW i \in 1 .. n - 1, NEW j \in 1 .. n - 1, u[i] = u[j] PROVE i = j
    BY <2>7, <1>1, <1>2, <2>5
  <2>8. Distinct(u)
    BY <2>6, <2>7 DEF Distinct
  <2>9. ASSUME NEW j \in 1 .. n - 1 PROVE u[j] \in ToSet(t) \ {x}
    <3>1. PICK q \in 1 .. n : q # p /\ u[j] = t[q]
      BY <1>1, <2>5
    <3>. QED BY <3>1, <1>1, <1>2, <2>2 DEF ToSet
  <2>10. ASSUME NEW q \in 1 .. n, t[q] # x PROVE \E j \in 1 .. n - 1 : u[j] = t[q]
    <3>1. CASE q < p
      BY <3>1, <1>1, <2>5
    <3>2. CASE q > p
      <4>1. q - 1 \in 1 .. n - 1 /\ ~(q - 1 < p) /\ (q - 1) + 1 = q
        BY <3>2, <1>1
      <4>. QED BY <4>1, <2>5
    <3>. QED BY <3>1, <3>2, <2>2, <2>10, <1>1
  <2>11. ToSet(u) = {u[j] : j \in 1 .. n - 1} /\ ToSet(t) = {t[q] : q \in 1 .. n}
    BY <2>6, <1>1 DEF ToSet
  <2>12. ToSet(u) = ToSet(t) \ {x}
    BY <2>9, <2>10, <2>11
  <2>. QED BY <2>4, <2>5, <2>8, <2>12
<1>. QED BY <1>3, <1>4

------------------------------------------------------------------------------
\* What requests do to a copy, and to the carrier that readers see

\* The columns of a body have values that requests give.
LEMMA BodyValues ==
    ASSUME NEW body \in Bodies, NEW column \in Columns, column \in DOMAIN body
    PROVE  body[column] \in Values[column]
BY DEF Values

\* What the services of a body are.
LEMMA BodyTyped ==
    ASSUME NEW body \in Bodies
    PROVE  /\ "location" \in DOMAIN body => body.location \in Location
           /\ "history" \in DOMAIN body => body.history \in Seq(Location)
           /\ "services" \in DOMAIN body => body.services \in Seq(Service)
           /\ "owner" \in DOMAIN body => body.owner \in User \cup {Nobody}
           /\ "marketID" \in DOMAIN body => body.marketID \in Values["marketID"]
           /\ "name" \in DOMAIN body => body.name \in Values["name"]
           /\ "callsign" \in DOMAIN body => body.callsign \in Values["callsign"]
           /\ "access" \in DOMAIN body => body.access \in Values["access"]
           /\ "fuel" \in DOMAIN body => body.fuel \in Values["fuel"]
<1>1. \A column \in {"marketID", "name", "callsign", "location", "history",
                     "services", "access", "fuel", "owner"} :
          column \in DOMAIN body => body[column] \in Values[column]
  BY BodyValues DEF Columns
<1>2. /\ Values["location"] \subseteq Location
      /\ Values["history"] \subseteq Seq(Location)
      /\ Values["services"] \subseteq Seq(Service)
      /\ Values["owner"] \subseteq User \cup {Nobody}
  BY CarriersAssumption DEF BodiesAssumption
<1>. QED BY <1>1, <1>2

\* The last place of a route, and the places before it.
LEMMA AppendEnds ==
    ASSUME NEW h \in Seq(Location), NEW l \in Location
    PROVE  Front(Append(h, l)) = h /\ Last(Append(h, l)) = l
<1>1. PICK t : t = Append(h, l)
  OBVIOUS
<1>2. /\ t \in Seq(Location) /\ Len(t) = Len(h) + 1 /\ t[Len(h) + 1] = l
      /\ \A j \in 1 .. Len(h) : t[j] = h[j]
  BY <1>1
<1>3. PICK f : f = SubSeq(t, 1, Len(h))
  OBVIOUS
<1>4. f \in Seq(Location) /\ Len(f) = Len(h) /\ \A j \in 1 .. Len(h) : f[j] = t[j]
  BY <1>2, <1>3
<1>5. f = h
  BY <1>2, <1>4, SeqEqual
<1>6. Front(t) = f
  BY <1>2, <1>3 DEF Front
<1>7. Last(t) = l
  BY <1>2 DEF Last
<1>. QED BY <1>1, <1>5, <1>6, <1>7

\* A history that is not empty ends somewhere.
LEMMA EndsOfRoute ==
    ASSUME NEW h \in Seq(Location), h # <<>>
    PROVE  /\ Front(h) \in Seq(Location) /\ Last(h) \in Location
           /\ Append(Front(h), Last(h)) = h
<1>1. PICK n \in Nat : n = Len(h) /\ n >= 1
  OBVIOUS
<1>2. PICK f : f = SubSeq(h, 1, n - 1)
  OBVIOUS
<1>3. f \in Seq(Location) /\ Len(f) = n - 1 /\ \A j \in 1 .. n - 1 : f[j] = h[j]
  BY <1>1, <1>2
<1>4. h[n] \in Location
  BY <1>1
<1>5. PICK t : t = Append(f, h[n])
  OBVIOUS
<1>6. t \in Seq(Location) /\ Len(t) = n /\ t[n] = h[n] /\ \A j \in 1 .. n - 1 : t[j] = f[j]
  BY <1>1, <1>3, <1>4, <1>5
<1>7. \A j \in 1 .. Len(t) : t[j] = h[j]
  BY <1>1, <1>3, <1>6
<1>8. t = h
  BY <1>1, <1>6, <1>7, SeqEqual
<1>9. Front(h) = f /\ Last(h) = h[n]
  BY <1>1, <1>2 DEF Front, Last
<1>. QED BY <1>3, <1>4, <1>5, <1>8, <1>9

\* CarrierFleet's operators on sequences are the ones used here.
LEMMA SameOperators ==
    ASSUME NEW t
    PROVE  Fleet!ToSet(t) = ToSet(t) /\ Fleet!Front(t) = Front(t) /\ Fleet!Last(t) = Last(t)
BY DEF Fleet!ToSet, ToSet, Fleet!Front, Front, Fleet!Last, Last

\* The columns of a carrier as readers see it.
ShipColumns == {"marketID", "name", "callsign", "access", "fuel", "owner", "route", "services"}

\* The columns of an updated copy.
LEMMA UpdatedColumns ==
    ASSUME NEW u, NEW body, NEW override
    PROVE  LET v == Updated(u, body, override)
           IN /\ v = [marketID |-> v.marketID, name |-> v.name, callsign |-> v.callsign,
                      location |-> v.location, history |-> v.history,
                      services |-> v.services, access |-> v.access, fuel |-> v.fuel,
                      owner |-> v.owner]
              /\ v.marketID = IF "marketID" \in DOMAIN body THEN body.marketID ELSE u.marketID
              /\ v.name = IF "name" \in DOMAIN body THEN body.name ELSE u.name
              /\ v.callsign = IF "callsign" \in DOMAIN body THEN body.callsign ELSE u.callsign
              /\ v.location = IF "location" \in DOMAIN body THEN body.location ELSE u.location
              /\ v.history = IF "history" \in DOMAIN body THEN body.history ELSE u.history
              /\ v.services = IF "services" \in DOMAIN body
                              THEN SetServices(u.services, body.services, override)
                              ELSE u.services
              /\ v.access = IF "access" \in DOMAIN body THEN body.access ELSE u.access
              /\ v.fuel = IF "fuel" \in DOMAIN body THEN body.fuel ELSE u.fuel
              /\ v.owner = IF "owner" \in DOMAIN body THEN body.owner ELSE u.owner
BY DEF Updated, Columns

\* PUT and PATCH: the columns of the body, and the services with those it has.
LEMMA UpdatedRow ==
    ASSUME NEW u \in Rows, Distinct(u.services), NEW body \in Overrides \cup Patches,
           NEW override \in BOOLEAN
    PROVE  /\ Updated(u, body, override) \in Rows
           /\ Distinct(Updated(u, body, override).services)
           /\ Ship(Updated(u, body, override)) = Fleet!Amended(Ship(u), body, override)
<1>1. PICK v : v = Updated(u, body, override)
  OBVIOUS
<1>2. body \in Bodies
  BY DEF Bodies
<1>3. u.services \in Seq(Service) /\ u.history \in Seq(Location) /\ u.location \in Location
  BY DEF Rows
<1>4. /\ v.services \in Seq(Service) /\ Distinct(v.services)
      /\ ToSet(v.services) = IF "services" \in DOMAIN body
                             THEN (IF override THEN {} ELSE ToSet(u.services)) \cup ToSet(body.services)
                             ELSE ToSet(u.services)
  <2>1. CASE "services" \in DOMAIN body
    <3>1. PICK names \in Seq(Service) : names = body.services
      BY <2>1, <1>2, BodyTyped
    <3>2. PICK t \in Seq(Service) : t = u.services
      BY <1>3
    <3>3. /\ SetServices(t, names, override) \in Seq(Service)
          /\ Distinct(SetServices(t, names, override))
          /\ ToSet(SetServices(t, names, override))
             = (IF override THEN {} ELSE ToSet(t)) \cup ToSet(names)
      BY <3>2, SetServicesList
    <3>4. v.services = SetServices(t, names, override)
      BY <2>1, <1>1, <3>1, <3>2, UpdatedColumns
    <3>. QED BY <2>1, <3>1, <3>2, <3>3, <3>4
  <2>2. CASE "services" \notin DOMAIN body
    BY <2>2, <1>1, <1>3, UpdatedColumns
  <2>. QED BY <2>1, <2>2
<1>5. v \in Rows
  <2>1. v.location \in Location /\ v.history \in Seq(Location) /\ v.owner \in User \cup {Nobody}
    BY <1>1, <1>2, BodyTyped, UpdatedColumns DEF Rows
  <2>2. /\ v.marketID \in Values["marketID"] /\ v.name \in Values["name"]
        /\ v.callsign \in Values["callsign"] /\ v.fuel \in Values["fuel"]
        /\ v.access \in Access \cup Values["access"]
    BY <1>1, <1>2, BodyTyped, UpdatedColumns DEF Rows
  <2>3. v = [marketID |-> v.marketID, name |-> v.name, callsign |-> v.callsign,
             location |-> v.location, history |-> v.history,
             services |-> v.services, access |-> v.access, fuel |-> v.fuel,
             owner |-> v.owner]
    BY <1>1, UpdatedColumns
  <2>. QED BY <1>4, <2>1, <2>2, <2>3 DEF Rows
<1>6. Ship(v) = Fleet!Amended(Ship(u), body, override)
  <2>1. PICK route : route = Append(u.history, u.location)
    OBVIOUS
  <2>2. Front(route) = u.history /\ Last(route) = u.location
    BY <1>3, <2>1, AppendEnds
  <2>3. PICK ship : ship = Ship(u)
    OBVIOUS
  <2>4. /\ DOMAIN ship = ShipColumns
        /\ ship.route = route /\ ship.services = ToSet(u.services)
        /\ \A column \in ShipColumns \ {"route", "services"} : ship[column] = u[column]
    BY <2>1, <2>3 DEF Ship, ShipColumns
  <2>5. PICK shown : shown = Ship(v)
    OBVIOUS
  <2>6. /\ DOMAIN shown = ShipColumns /\ shown = [column \in DOMAIN shown |-> shown[column]]
        /\ shown.route = Append(v.history, v.location)
        /\ shown.services = ToSet(v.services)
        /\ \A column \in ShipColumns \ {"route", "services"} : shown[column] = v[column]
    <3>1. DOMAIN shown = ShipColumns /\ shown = [column \in DOMAIN shown |-> shown[column]]
      BY <2>5 DEF Ship, ShipColumns
    <3>2. shown.route = Append(v.history, v.location) /\ shown.services = ToSet(v.services)
      BY <2>5 DEF Ship
    <3>3. \A column \in ShipColumns \ {"route", "services"} : shown[column] = v[column]
      BY <2>5 DEF Ship, ShipColumns
    <3>. QED BY <3>1, <3>2, <3>3
  <2>7. PICK amended : amended = Fleet!Amended(ship, body, override)
    OBVIOUS
  <2>8. /\ DOMAIN amended = ShipColumns /\ amended = [column \in DOMAIN amended |-> amended[column]]
        /\ amended.route =
             Append(IF "history" \in DOMAIN body THEN body.history ELSE Front(route),
                    IF "location" \in DOMAIN body THEN body.location ELSE Last(route))
        /\ amended.services =
             IF "services" \in DOMAIN body
             THEN (IF override THEN {} ELSE ship.services) \cup ToSet(body.services)
             ELSE ship.services
        /\ \A column \in ShipColumns \ {"route", "services"} :
              amended[column] = IF column \in DOMAIN body THEN body[column] ELSE ship[column]
    <3>. PICK longer :
           longer = Append(IF "history" \in DOMAIN body THEN body.history ELSE Front(route),
                           IF "location" \in DOMAIN body THEN body.location ELSE Last(route))
      OBVIOUS
    <3>. PICK more : more = (IF override THEN {} ELSE ship.services) \cup ToSet(body.services)
      OBVIOUS
    <3>1. amended = [column \in ShipColumns |->
            IF column = "route" THEN longer
            ELSE IF column \notin DOMAIN body THEN ship[column]
            ELSE IF column = "services" THEN more
            ELSE body[column]]
      BY <2>4, <2>7, SameOperators DEF Fleet!Amended
    <3>2. "route" \in ShipColumns /\ "services" \in ShipColumns
      BY DEF ShipColumns
    <3>3. DOMAIN amended = ShipColumns /\ amended = [column \in DOMAIN amended |-> amended[column]]
      BY <3>1
    <3>4. amended.route = longer
      BY <3>1, <3>2
    <3>5. amended.services = IF "services" \in DOMAIN body THEN more ELSE ship.services
      BY <3>1, <3>2
    <3>6. ASSUME NEW column \in ShipColumns \ {"route", "services"}
          PROVE  amended[column] = IF column \in DOMAIN body THEN body[column] ELSE ship[column]
      BY <3>1
    <3>. QED BY <3>3, <3>4, <3>5, <3>6
  <2>9. amended.route = shown.route
    <3>1. /\ v.location = IF "location" \in DOMAIN body THEN body.location ELSE u.location
          /\ v.history = IF "history" \in DOMAIN body THEN body.history ELSE u.history
      BY <1>1, UpdatedColumns
    <3>. QED BY <3>1, <2>2, <2>6, <2>8
  <2>10. amended.services = shown.services
    BY <1>4, <2>4, <2>6, <2>8
  <2>11. ASSUME NEW column \in ShipColumns \ {"route", "services"}
         PROVE  amended[column] = shown[column]
    <3>1. v[column] = IF column \in DOMAIN body THEN body[column] ELSE u[column]
      BY <1>1 DEF Updated, Columns, ShipColumns
    <3>. QED BY <3>1, <2>4, <2>6, <2>8
  <2>12. amended = shown
    BY <2>6, <2>8, <2>9, <2>10, <2>11
  <2>. QED BY <2>3, <2>5, <2>7, <2>12
<1>. QED BY <1>1, <1>4, <1>5, <1>6

\* A row or a copy whose list has no service twice.
Copy(u) == u \in Rows /\ Distinct(u.services)

\* The copy u is one request's effect on the row v.
EffectOn(v, u) == Copy(u) /\ Ship(u) \in Fleet!Effects(Ship(v))

\* A carrier as readers see it that differs from u in these columns only.
ShipLike(u, access, route, services) ==
    [marketID |-> u.marketID, name |-> u.name, callsign |-> u.callsign, access |-> access,
     fuel |-> u.fuel, owner |-> u.owner, route |-> route, services |-> services]

\* One column changes at a time.
LEMMA ShipsLike ==
    ASSUME NEW u, NEW x
    PROVE  /\ Ship(u) = ShipLike(u, u.access, Append(u.history, u.location), ToSet(u.services))
           /\ [Ship(u) EXCEPT !.access = x]
              = ShipLike(u, x, Append(u.history, u.location), ToSet(u.services))
           /\ [Ship(u) EXCEPT !.route = x] = ShipLike(u, u.access, x, ToSet(u.services))
           /\ [Ship(u) EXCEPT !.services = x]
              = ShipLike(u, u.access, Append(u.history, u.location), x)
           /\ Ship(u).route = Append(u.history, u.location)
           /\ Ship(u).services = ToSet(u.services)
<1>1. PICK route : route = Append(u.history, u.location)
  OBVIOUS
<1>2. PICK services : services = ToSet(u.services)
  OBVIOUS
<1>3. Ship(u) = ShipLike(u, u.access, route, services)
  BY <1>1, <1>2 DEF Ship, ShipLike
<1>4. [ShipLike(u, u.access, route, services) EXCEPT !.access = x] = ShipLike(u, x, route, services)
  BY DEF ShipLike
<1>5. [ShipLike(u, u.access, route, services) EXCEPT !.route = x] = ShipLike(u, u.access, x, services)
  BY DEF ShipLike
<1>6. [ShipLike(u, u.access, route, services) EXCEPT !.services = x] = ShipLike(u, u.access, route, x)
  BY DEF ShipLike
<1>7. /\ ShipLike(u, u.access, route, services).route = route
      /\ ShipLike(u, u.access, route, services).services = services
  BY DEF ShipLike
<1>. QED BY <1>1, <1>2, <1>3, <1>4, <1>5, <1>6, <1>7

\* POST: the columns of the body and no history.
LEMMA CreatedRow ==
    ASSUME NEW body \in NewCarriers
    PROVE  /\ Copy(Updated(Blank, body, TRUE))
           /\ Ship(Updated(Blank, body, TRUE)) = Fleet!Registered(body)
<1>1. PICK v : v = Updated(Blank, body, TRUE)
  OBVIOUS
<1>2. body \in Bodies
  BY DEF Bodies
<1>3. DOMAIN body = {"marketID", "name", "callsign", "location", "services", "access", "fuel", "owner"}
  BY CarriersAssumption DEF BodiesAssumption, Columns
<1>4. Blank.history = <<>> /\ Blank.services = <<>>
  BY DEF Blank, Columns
<1>5. /\ v = [marketID |-> v.marketID, name |-> v.name, callsign |-> v.callsign,
              location |-> v.location, history |-> v.history,
              services |-> v.services, access |-> v.access, fuel |-> v.fuel,
              owner |-> v.owner]
      /\ v.marketID = body.marketID /\ v.name = body.name /\ v.callsign = body.callsign
      /\ v.location = body.location /\ v.history = <<>>
      /\ v.services = SetServices(<<>>, body.services, TRUE)
      /\ v.access = body.access /\ v.fuel = body.fuel /\ v.owner = body.owner
  <2>1. PICK override : override = TRUE
    OBVIOUS
  <2>2. v = Updated(Blank, body, override)
    BY <1>1, <2>1
  <2>3. /\ v = [marketID |-> v.marketID, name |-> v.name, callsign |-> v.callsign,
               location |-> v.location, history |-> v.history,
               services |-> v.services, access |-> v.access, fuel |-> v.fuel,
               owner |-> v.owner]
    BY <2>2, UpdatedColumns
  <2>4. v.marketID = body.marketID /\ v.name = body.name /\ v.callsign = body.callsign
    BY <1>3, <2>2, UpdatedColumns
  <2>5. v.location = body.location /\ v.history = Blank.history
    BY <1>3, <2>2, UpdatedColumns
  <2>6. v.services = SetServices(Blank.services, body.services, override)
    BY <1>3, <2>2, UpdatedColumns
  <2>7. v.access = body.access /\ v.fuel = body.fuel /\ v.owner = body.owner
    BY <1>3, <2>2, UpdatedColumns
  <2>. QED BY <1>4, <2>1, <2>3, <2>4, <2>5, <2>6, <2>7
<1>6. /\ body.location \in Location /\ body.services \in Seq(Service)
      /\ body.owner \in User \cup {Nobody}
      /\ body.marketID \in Values["marketID"] /\ body.name \in Values["name"]
      /\ body.callsign \in Values["callsign"] /\ body.access \in Values["access"]
      /\ body.fuel \in Values["fuel"]
  BY <1>2, <1>3, BodyTyped
<1>7. PICK t : t = <<>> /\ t \in Seq(Service) /\ Distinct(t)
  <2>1. <<>> \in Seq(Service)
    OBVIOUS
  <2>2. Distinct(<<>>)
    BY DEF Distinct
  <2>. QED BY <2>1, <2>2
<1>8. PICK names \in Seq(Service) : names = body.services
  BY <1>6
<1>9. /\ SetServices(t, names, TRUE) \in Seq(Service)
      /\ Distinct(SetServices(t, names, TRUE))
      /\ ToSet(SetServices(t, names, TRUE)) = ToSet(names)
  <2>1. PICK override \in BOOLEAN : override = TRUE
    OBVIOUS
  <2>2. /\ SetServices(t, names, override) \in Seq(Service)
        /\ Distinct(SetServices(t, names, override))
        /\ ToSet(SetServices(t, names, override))
           = (IF override THEN {} ELSE ToSet(t)) \cup ToSet(names)
    <3>. t \in Seq(Service) /\ Distinct(t)
      BY <1>7
    <3>. QED BY SetServicesList
  <2>. QED BY <2>1, <2>2
<1>10. v.services \in Seq(Service) /\ Distinct(v.services) /\ ToSet(v.services) = ToSet(body.services)
  BY <1>5, <1>7, <1>8, <1>9
<1>11. v.history \in Seq(Location)
  BY <1>5
<1>12. v \in Rows
  BY <1>5, <1>6, <1>10, <1>11 DEF Rows
<1>13. Append(v.history, v.location) = <<body.location>>
  BY <1>5, <1>6
<1>14. Ship(v) = Fleet!Registered(body)
  BY <1>5, <1>10, <1>13, SameOperators DEF Ship, Fleet!Registered
<1>. QED BY <1>1, <1>10, <1>12, <1>14 DEF Copy

\* PUT, which never overrides the services, and PATCH.
LEMMA UpdateEffect ==
    ASSUME NEW u, Copy(u), NEW body \in Overrides \cup Patches, NEW override \in BOOLEAN,
           override => body \in Patches
    PROVE  EffectOn(u, Updated(u, body, override))
<1>1. /\ Copy(Updated(u, body, override))
      /\ Ship(Updated(u, body, override)) = Fleet!Amended(Ship(u), body, override)
  BY UpdatedRow DEF Copy
<1>2. Fleet!Amended(Ship(u), body, override) \in Fleet!Effects(Ship(u))
  BY DEF Fleet!Effects
<1>. QED BY <1>1, <1>2 DEF EffectOn

\* carrierJump: the location is the next place of the route.
LEMMA JumpEffect ==
    ASSUME NEW u, Copy(u), NEW l \in Location
    PROVE  EffectOn(u, [u EXCEPT !.history = Append(@, u.location), !.location = l])
<1>1. PICK v : v = [u EXCEPT !.history = Append(@, u.location), !.location = l]
  OBVIOUS
<1>2. u.history \in Seq(Location) /\ u.location \in Location
  BY DEF Copy, Rows
<1>3. Append(u.history, u.location) \in Seq(Location)
  BY <1>2
<1>4. Copy(v)
  BY <1>1, <1>3 DEF Copy, Rows
<1>5. Ship(v) = [Ship(u) EXCEPT !.route = Append(@, l)]
  <2>1. /\ v.history = Append(u.history, u.location) /\ v.location = l
        /\ v.access = u.access /\ v.services = u.services
    BY <1>1 DEF Copy, Rows
  <2>2. \A a, r, t : ShipLike(v, a, r, t) = ShipLike(u, a, r, t)
    BY <1>1 DEF Copy, Rows, ShipLike
  <2>3. [Ship(u) EXCEPT !.route = Append(@, l)]
        = [Ship(u) EXCEPT !.route = Append(Append(u.history, u.location), l)]
    BY ShipsLike
  <2>4. [Ship(u) EXCEPT !.route = Append(Append(u.history, u.location), l)]
        = ShipLike(u, u.access, Append(Append(u.history, u.location), l), ToSet(u.services))
    BY ShipsLike
  <2>5. Ship(v) = ShipLike(v, v.access, Append(v.history, v.location), ToSet(v.services))
    BY ShipsLike
  <2>. QED BY <2>1, <2>2, <2>3, <2>4, <2>5
<1>6. Ship(v) \in Fleet!Effects(Ship(u))
  BY <1>5 DEF Fleet!Effects
<1>. QED BY <1>1, <1>4, <1>6 DEF EffectOn

\* carrierJump, cancelled: the route ends one place earlier.
LEMMA CancelEffect ==
    ASSUME NEW u, Copy(u)
    PROVE  EffectOn(u, IF u.history = <<>> THEN u
                       ELSE [u EXCEPT !.location = Last(u.history), !.history = Front(@)])
<1>1. PICK h : h = u.history
  OBVIOUS
<1>2. PICK route : route = Append(u.history, u.location)
  OBVIOUS
<1>3. h \in Seq(Location) /\ u.location \in Location
  BY <1>1 DEF Copy, Rows
<1>4. Len(route) = Len(h) + 1 /\ Front(route) = h /\ Len(h) \in Nat
  BY <1>1, <1>2, <1>3, AppendEnds
<1>5. Fleet!Front(route) = h
  BY <1>4, SameOperators
<1>6. Ship(u).route = route
  BY <1>2 DEF Ship
<1>7. CASE h = <<>>
  <2>1. ~(Len(route) > 1)
    BY <1>4, <1>7
  <2>2. Ship(u) = [Ship(u) EXCEPT !.route = IF Len(@) > 1 THEN Fleet!Front(@) ELSE @]
    <3>1. [Ship(u) EXCEPT !.route = IF Len(@) > 1 THEN Fleet!Front(@) ELSE @]
          = [Ship(u) EXCEPT !.route = route]
      BY <2>1, <1>6
    <3>2. [Ship(u) EXCEPT !.route = route] = ShipLike(u, u.access, route, ToSet(u.services))
      BY ShipsLike
    <3>3. Ship(u) = ShipLike(u, u.access, Append(u.history, u.location), ToSet(u.services))
      BY ShipsLike
    <3>. QED BY <1>2, <3>1, <3>2, <3>3
  <2>3. Ship(u) \in Fleet!Effects(Ship(u))
    BY <2>2 DEF Fleet!Effects
  <2>. QED BY <1>1, <1>7, <2>3 DEF EffectOn
<1>8. CASE h # <<>>
  <2>1. Len(route) > 1
    BY <1>3, <1>4, <1>8
  <2>2. Front(h) \in Seq(Location) /\ Last(h) \in Location /\ Append(Front(h), Last(h)) = h
    BY <1>3, <1>8, EndsOfRoute
  <2>3. PICK v : v = [u EXCEPT !.location = Last(u.history), !.history = Front(@)]
    OBVIOUS
  <2>4. v.history = Front(h) /\ v.location = Last(h)
    BY <2>3, <1>1 DEF Copy, Rows
  <2>5. Copy(v)
    BY <2>2, <2>3, <1>1 DEF Copy, Rows
  <2>6. Ship(v) = [Ship(u) EXCEPT !.route = h]
    <3>1. v.access = u.access /\ v.services = u.services
      BY <2>3 DEF Copy, Rows
    <3>2. \A a, r, t : ShipLike(v, a, r, t) = ShipLike(u, a, r, t)
      BY <2>3 DEF Copy, Rows, ShipLike
    <3>3. Ship(v) = ShipLike(v, v.access, Append(v.history, v.location), ToSet(v.services))
      BY ShipsLike
    <3>4. [Ship(u) EXCEPT !.route = h] = ShipLike(u, u.access, h, ToSet(u.services))
      BY ShipsLike
    <3>. QED BY <2>2, <2>4, <3>1, <3>2, <3>3, <3>4
  <2>7. Ship(v) = [Ship(u) EXCEPT !.route = IF Len(@) > 1 THEN Fleet!Front(@) ELSE @]
    BY <2>1, <2>6, <1>5, <1>6 DEF Ship
  <2>8. Ship(v) \in Fleet!Effects(Ship(u))
    BY <2>7 DEF Fleet!Effects
  <2>. QED BY <1>1, <1>8, <2>3, <2>5, <2>8 DEF EffectOn
<1>. QED BY <1>7, <1>8

\* updateCarrierDockingAccess.
LEMMA AccessEffect ==
    ASSUME NEW u, Copy(u), NEW access \in Access
    PROVE  EffectOn(u, [u EXCEPT !.access = access])
<1>1. Copy([u EXCEPT !.access = access])
  BY DEF Copy, Rows
<1>2. Ship([u EXCEPT !.access = access]) = [Ship(u) EXCEPT !.access = access]
  <2>1. PICK v : v = [u EXCEPT !.access = access]
    OBVIOUS
  <2>2. /\ v.access = access /\ v.history = u.history /\ v.location = u.location
        /\ v.services = u.services
    BY <2>1 DEF Copy, Rows
  <2>3. \A a, r, t : ShipLike(v, a, r, t) = ShipLike(u, a, r, t)
    BY <2>1 DEF Copy, Rows, ShipLike
  <2>4. Ship(v) = ShipLike(v, v.access, Append(v.history, v.location), ToSet(v.services))
    BY ShipsLike
  <2>5. [Ship(u) EXCEPT !.access = access]
        = ShipLike(u, access, Append(u.history, u.location), ToSet(u.services))
    BY ShipsLike
  <2>. QED BY <2>1, <2>2, <2>3, <2>4, <2>5
<1>3. [Ship(u) EXCEPT !.access = access] \in Fleet!Effects(Ship(u))
  BY DEF Fleet!Effects
<1>. QED BY <1>1, <1>2, <1>3 DEF EffectOn

\* updateCarrierService: the set of services is what AddService and
\* RemoveService make of it.
LEMMA ServicesEffect ==
    ASSUME NEW u, Copy(u), NEW s \in Service
    PROVE  /\ EffectOn(u, [u EXCEPT !.services = AddService(@, s)])
           /\ EffectOn(u, [u EXCEPT !.services = RemoveService(@, s)])
<1>1. PICK t \in Seq(Service) : t = u.services /\ Distinct(t)
  BY DEF Copy, Rows
<1>2. ASSUME NEW w \in Seq(Service), Distinct(w)
      PROVE  /\ Copy([u EXCEPT !.services = w])
             /\ Ship([u EXCEPT !.services = w]) = [Ship(u) EXCEPT !.services = ToSet(w)]
  <2>1. Copy([u EXCEPT !.services = w])
    BY <1>2 DEF Copy, Rows
  <2>2. Ship([u EXCEPT !.services = w]) = [Ship(u) EXCEPT !.services = ToSet(w)]
    <3>1. PICK v : v = [u EXCEPT !.services = w]
      OBVIOUS
    <3>2. /\ v.services = w /\ v.history = u.history /\ v.location = u.location
          /\ v.access = u.access
      BY <3>1 DEF Copy, Rows
    <3>3. \A a, r, set : ShipLike(v, a, r, set) = ShipLike(u, a, r, set)
      BY <3>1 DEF Copy, Rows, ShipLike
    <3>4. Ship(v) = ShipLike(v, v.access, Append(v.history, v.location), ToSet(v.services))
      BY ShipsLike
    <3>5. [Ship(u) EXCEPT !.services = ToSet(w)]
          = ShipLike(u, u.access, Append(u.history, u.location), ToSet(w))
      BY ShipsLike
    <3>. QED BY <3>1, <3>2, <3>3, <3>4, <3>5
  <2>. QED BY <2>1, <2>2
<1>3. Ship(u).services = ToSet(t)
  BY <1>1 DEF Ship
<1>4. EffectOn(u, [u EXCEPT !.services = AddService(@, s)])
  <2>1. PICK w \in Seq(Service) : w = AddService(t, s) /\ Distinct(w) /\ ToSet(w) = ToSet(t) \cup {s}
    BY <1>1, AddServiceList
  <2>2. [u EXCEPT !.services = AddService(@, s)] = [u EXCEPT !.services = w]
    BY <1>1, <2>1
  <2>3. [Ship(u) EXCEPT !.services = ToSet(w)] = [Ship(u) EXCEPT !.services = @ \cup {s}]
    BY <1>3, <2>1
  <2>4. [Ship(u) EXCEPT !.services = @ \cup {s}] \in Fleet!Effects(Ship(u))
    BY DEF Fleet!Effects
  <2>. QED BY <1>2, <2>1, <2>2, <2>3, <2>4 DEF EffectOn
<1>5. EffectOn(u, [u EXCEPT !.services = RemoveService(@, s)])
  <2>1. PICK w \in Seq(Service) : w = RemoveService(t, s) /\ Distinct(w) /\ ToSet(w) = ToSet(t) \ {s}
    BY <1>1, RemoveServiceList
  <2>2. [u EXCEPT !.services = RemoveService(@, s)] = [u EXCEPT !.services = w]
    BY <1>1, <2>1
  <2>3. [Ship(u) EXCEPT !.services = ToSet(w)] = [Ship(u) EXCEPT !.services = @ \ {s}]
    BY <1>3, <2>1
  <2>4. [Ship(u) EXCEPT !.services = @ \ {s}] \in Fleet!Effects(Ship(u))
    BY DEF Fleet!Effects
  <2>. QED BY <1>2, <2>1, <2>2, <2>3, <2>4 DEF EffectOn
<1>. QED BY <1>4, <1>5

------------------------------------------------------------------------------
\* The inductive invariant

\* What the invariant says of one request in flight.
Caused(q) ==
    /\ req[q].pc = "insert" => \E body \in NewCarriers : Ship(req[q].image) = Fleet!Registered(body)
    /\ req[q].pc \in {"check", "save"} =>
          /\ req[q].carrier \in Carrier /\ Exists(req[q].carrier)
          /\ ~req[q].stale => Ship(req[q].image) \in Fleet!Effects(Ship(row[req[q].carrier]))
    /\ req[q].pc # "idle" => Copy(req[q].image)
    /\ req[q].image # NoRow => Distinct(req[q].image.services)

\* The invariant, row by row and request by request.
Parts ==
    /\ row \in [Carrier -> Rows \cup {NoRow}]
    /\ req \in [Request -> Handlers]
    /\ overwritten \in BOOLEAN
    /\ \A c \in Carrier : Exists(c) => Copy(row[c])
    /\ \A q \in Request : Caused(q)

LEMMA InvParts == CarriersInv <=> Parts
<1>1. ServicesDistinct <=>
          /\ \A c \in Carrier : row[c] # NoRow => Distinct(row[c].services)
          /\ \A q \in Request : req[q].image # NoRow => Distinct(req[q].image.services)
  BY DEF ServicesDistinct, Images
<1>2. ASSUME CarriersInv
      PROVE  /\ row \in [Carrier -> Rows \cup {NoRow}]
             /\ req \in [Request -> Handlers]
             /\ overwritten \in BOOLEAN
             /\ \A c \in Carrier : Exists(c) => Copy(row[c])
             /\ \A q \in Request : Caused(q)
  <2>1. /\ row \in [Carrier -> Rows \cup {NoRow}] /\ req \in [Request -> Handlers]
        /\ overwritten \in BOOLEAN
    BY <1>2 DEF CarriersInv, TypeOK
  <2>2. \A c \in Carrier : Exists(c) => Copy(row[c])
    BY <1>1, <1>2, <2>1 DEF CarriersInv, Exists, Copy
  <2>3. ASSUME NEW q \in Request PROVE Caused(q)
    <3>1. req[q].image \in Rows => req[q].image # NoRow
      BY CarriersAssumption
    <3>. QED BY <1>1, <1>2, <3>1 DEF CarriersInv, TypeOK, CopiesHaveCause, Caused, Copy
  <2>. QED BY <2>1, <2>2, <2>3
<1>3. ASSUME /\ row \in [Carrier -> Rows \cup {NoRow}]
             /\ req \in [Request -> Handlers]
             /\ overwritten \in BOOLEAN,
             \A c \in Carrier : Exists(c) => Copy(row[c]),
             \A q \in Request : Caused(q)
      PROVE  CarriersInv
  <2>1. TypeOK
    BY <1>3 DEF TypeOK, Caused, Copy
  <2>2. ServicesDistinct
    BY <1>1, <1>3 DEF Exists, Caused, Copy
  <2>3. CopiesHaveCause
    BY <1>3 DEF CopiesHaveCause, Caused
  <2>. QED BY <2>1, <2>2, <2>3 DEF CarriersInv
<1>. QED BY <1>2, <1>3 DEF Parts

LEMMA InvPartsNext == CarriersInv' <=> Parts'
BY InvParts, PTL

\* An idle request has no copy.
LEMMA IdleCaused == ASSUME NEW q, req'[q] = Idle PROVE Caused(q)'
BY DEF Caused, Idle

\* A request whose locals do not change keeps its cause while its row does not
\* change, or is marked as outdated.
LEMMA OthersCaused ==
    ASSUME NEW q, Caused(q), NEW was, was \in BOOLEAN,
           req'[q] = [req[q] EXCEPT !.stale = was],
           \A c \in Carrier : Exists(c) => Exists(c)',
           req[q].stale => was,
           \/ was
           \/ req[q].pc \in {"check", "save"} => row'[req[q].carrier] = row[req[q].carrier],
           req[q] \in Handlers
    PROVE  Caused(q)'
<1>1. /\ req'[q].pc = req[q].pc /\ req'[q].image = req[q].image
      /\ req'[q].carrier = req[q].carrier /\ req'[q].stale = was
  BY DEF Handlers
<1>. QED BY <1>1 DEF Caused

\* Every handler that begins has a copy with a cause.
LEMMA StartKeeps ==
    ASSUME CarriersInv, NEW r \in Request, NEW pc, NEW c, NEW image, NEW checks,
           Start(r, pc, c, image, checks), checks \subseteq Columns,
           \/ /\ pc = "insert" /\ c = NoRow /\ Copy(image)
              /\ \E body \in NewCarriers : Ship(image) = Fleet!Registered(body)
           \/ /\ pc \in {"check", "save"} /\ c \in Carrier /\ Exists(c)
              /\ EffectOn(row[c], image)
    PROVE  CarriersInv'
<1>1. PICK h : h = [pc |-> pc, carrier |-> c, image |-> image, checks |-> checks, stale |-> FALSE]
  OBVIOUS
<1>2. req' = [req EXCEPT ![r] = h] /\ UNCHANGED <<row, overwritten>>
  BY <1>1 DEF Start
<1>3. /\ h \in Handlers /\ h.pc = pc /\ h.carrier = c /\ h.image = image /\ ~h.stale
      /\ Copy(image)
  BY <1>1 DEF Handlers, Copy, EffectOn
<1>4. req \in [Request -> Handlers] /\ \A q \in Request : Caused(q)
  BY InvParts DEF Parts
<1>5. req' \in [Request -> Handlers] /\ req'[r] = h
  BY <1>2, <1>3, <1>4
<1>6. Caused(r)'
  BY <1>2, <1>3, <1>5 DEF Caused, Copy, EffectOn, Exists
<1>7. ASSUME NEW q \in Request, q # r PROVE Caused(q)'
  <2>1. req'[q] = req[q]
    BY <1>2, <1>4, <1>7
  <2>. QED BY <1>2, <1>4, <2>1 DEF Caused, Exists
<1>8. \A d \in Carrier : Exists(d)' => Copy(row'[d])
  BY <1>2, InvParts DEF Exists, Parts
<1>. QED BY <1>2, <1>5, <1>6, <1>7, <1>8, InvParts, InvPartsNext DEF Parts

\* The request that a statement is executed for keeps the invariant.
LEMMA StepKeeps ==
    ASSUME CarriersInv, NEW r \in Request, NEW h \in Handlers,
           req' = [req EXCEPT ![r] = h], Caused(r)', UNCHANGED <<row, overwritten>>
    PROVE  CarriersInv'
<1>1. Parts
  BY InvParts
<1>2. req' \in [Request -> Handlers]
  BY <1>1 DEF Parts
<1>3. ASSUME NEW q \in Request PROVE Caused(q)'
  <2>1. CASE q # r
    <3>1. req'[q] = req[q]
      BY <1>1, <2>1 DEF Parts
    <3>. QED BY <1>1, <3>1 DEF Caused, Exists, Parts
  <2>. QED BY <2>1
<1>4. \A d \in Carrier : Exists(d)' => Copy(row'[d])
  BY <1>1 DEF Exists, Parts
<1>. QED BY <1>1, <1>2, <1>3, <1>4, InvPartsNext DEF Parts

\* What is saved is a row without a service twice.
LEMMA RowsKept ==
    ASSUME CarriersInv, NEW c \in Carrier, NEW image, Copy(image), row' = [row EXCEPT ![c] = image]
    PROVE  /\ row' \in [Carrier -> Rows \cup {NoRow}]
           /\ row'[c] = image /\ Exists(c)'
           /\ \A d \in Carrier : d # c => row'[d] = row[d]
           /\ \A d \in Carrier : Exists(d)' => Copy(row'[d])
           /\ \A d \in Carrier : Exists(d) => Exists(d)'
<1>1. row \in [Carrier -> Rows \cup {NoRow}] /\ \A d \in Carrier : Exists(d) => Copy(row[d])
  BY InvParts DEF Parts
<1>2. image \in Rows /\ image # NoRow
  BY CarriersAssumption DEF Copy
<1>3. row'[c] = image /\ \A d \in Carrier : d # c => row'[d] = row[d]
  BY <1>1
<1>4. row' \in [Carrier -> Rows \cup {NoRow}]
  BY <1>1, <1>2
<1>. QED BY <1>1, <1>2, <1>3, <1>4 DEF Exists

\* No request waits to save a carrier that is inserted.
LEMMA InsertKeeps ==
    ASSUME CarriersInv, NEW r \in Request, NEW c \in Carrier, Insert(r, c)
    PROVE  CarriersInv'
<1>1. Parts
  BY InvParts
<1>2. PICK image : image = req[r].image
  OBVIOUS
<1>3. /\ Copy(image) /\ row' = [row EXCEPT ![c] = image] /\ req' = [req EXCEPT ![r] = Idle]
      /\ overwritten' = FALSE /\ ~Exists(c)
  BY <1>1, <1>2 DEF Insert, Parts, Caused
<1>4. /\ row' \in [Carrier -> Rows \cup {NoRow}]
      /\ \A d \in Carrier : d # c => row'[d] = row[d]
      /\ \A d \in Carrier : Exists(d)' => Copy(row'[d])
      /\ \A d \in Carrier : Exists(d) => Exists(d)'
  BY <1>3, RowsKept
<1>5. req' \in [Request -> Handlers] /\ req'[r] = Idle
  BY <1>1, <1>3 DEF Parts, Handlers, Idle
<1>6. ASSUME NEW q \in Request, q # r PROVE Caused(q)'
  <2>1. req'[q] = req[q] /\ Caused(q)
    BY <1>1, <1>3, <1>6 DEF Parts
  <2>2. req[q].pc \in {"check", "save"} =>
          /\ req[q].carrier \in Carrier /\ Exists(req[q].carrier)'
          /\ row'[req[q].carrier] = row[req[q].carrier]
    BY <1>3, <1>4, <2>1 DEF Caused
  <2>. QED BY <2>1, <2>2 DEF Caused
<1>7. Caused(r)'
  BY <1>5, IdleCaused
<1>. QED BY <1>3, <1>4, <1>5, <1>6, <1>7, InvPartsNext DEF Parts

\* Check goes on with the same copy.
LEMMA CheckKeeps ==
    ASSUME CarriersInv, NEW r \in Request, NEW fails \in BOOLEAN, Check(r, fails)
    PROVE  CarriersInv'
<1>1. Parts
  BY InvParts
<1>2. PICK h : h = [req[r] EXCEPT !.pc = "save"]
  OBVIOUS
<1>3. /\ req[r] \in Handlers /\ req[r].pc = "check" /\ Caused(r)
      /\ req' = [req EXCEPT ![r] = h] /\ UNCHANGED <<row, overwritten>>
  BY <1>1, <1>2 DEF Check, Parts
<1>4. /\ h \in Handlers /\ h.pc = "save" /\ h.carrier = req[r].carrier /\ h.image = req[r].image
      /\ h.stale = req[r].stale
  BY <1>2, <1>3 DEF Handlers
<1>5. req'[r] = h
  BY <1>1, <1>3 DEF Parts
<1>6. Caused(r)'
  BY <1>3, <1>4, <1>5 DEF Caused, Exists
<1>. QED BY <1>3, <1>4, <1>6, StepKeeps

\* Save marks the copies of its row that are outdated.
LEMMA SaveKeeps == ASSUME CarriersInv, NEW r \in Request, Save(r) PROVE CarriersInv'
<1>1. Parts
  BY InvParts
<1>2. PICK c : c = req[r].carrier
  OBVIOUS
<1>3. PICK image : image = req[r].image
  OBVIOUS
<1>4. /\ Copy(image) /\ row' = [row EXCEPT ![c] = image] /\ overwritten' = req[r].stale
      /\ c \in Carrier /\ Exists(c)
      /\ req' = [q \in Request |->
                   IF q = r THEN Idle
                   ELSE [req[q] EXCEPT !.stale = @ \/ (req[q].carrier = c /\ image # row[c])]]
  BY <1>1, <1>2, <1>3 DEF Save, Parts, Caused
<1>5. /\ row' \in [Carrier -> Rows \cup {NoRow}] /\ row'[c] = image
      /\ \A d \in Carrier : d # c => row'[d] = row[d]
      /\ \A d \in Carrier : Exists(d)' => Copy(row'[d])
      /\ \A d \in Carrier : Exists(d) => Exists(d)'
  BY <1>4, RowsKept
<1>6. overwritten' \in BOOLEAN
  BY <1>1, <1>4 DEF Parts, Handlers
<1>7. ASSUME NEW q \in Request, q # r
      PROVE  Caused(q)' /\ req'[q] \in Handlers
  <2>1. PICK was \in BOOLEAN : was = (req[q].stale \/ (req[q].carrier = c /\ image # row[c]))
    OBVIOUS
  <2>2. req'[q] = [req[q] EXCEPT !.stale = was] /\ req[q] \in Handlers /\ Caused(q)
    BY <1>1, <1>4, <1>7, <2>1 DEF Parts
  <2>3. req'[q] \in Handlers
    BY <2>2 DEF Handlers
  <2>4. req[q].stale => was
    BY <2>1
  <2>5. was \/ (req[q].pc \in {"check", "save"} => row'[req[q].carrier] = row[req[q].carrier])
    BY <1>5, <2>1, <2>2 DEF Caused
  <2>6. Caused(q)'
    BY <1>5, <2>2, <2>4, <2>5, OthersCaused
  <2>. QED BY <2>3, <2>6
<1>8. req'[r] = Idle /\ Idle \in Handlers
  BY <1>4 DEF Idle, Handlers
<1>9. req' \in [Request -> Handlers]
  BY <1>4, <1>7, <1>8
<1>10. Caused(r)'
  BY <1>8, IdleCaused
<1>. QED BY <1>5, <1>6, <1>7, <1>9, <1>10, InvPartsNext DEF Parts

\* Refuse drops a copy.
LEMMA RefuseKeeps == ASSUME CarriersInv, NEW r \in Request, Refuse(r) PROVE CarriersInv'
<1>1. Parts
  BY InvParts
<1>2. req' = [req EXCEPT ![r] = Idle] /\ UNCHANGED <<row, overwritten>> /\ Idle \in Handlers
  BY DEF Refuse, Idle, Handlers
<1>3. req'[r] = Idle
  BY <1>1, <1>2 DEF Parts
<1>. QED BY <1>2, <1>3, IdleCaused, StepKeeps

\* Every handler that begins has a copy with a cause.
LEMMA BeginsKeep ==
    ASSUME CarriersInv, NEW r \in Request, NEW caller \in Caller
    PROVE  /\ \A body \in NewCarriers, fails \in BOOLEAN : Create(r, caller, body, fails) => CarriersInv'
           /\ \A c \in Carrier :
                 /\ \A body \in Overrides : UpdateOverride(r, caller, c, body) => CarriersInv'
                 /\ \A body \in Patches, override \in BOOLEAN :
                       Update(r, caller, c, body, override) => CarriersInv'
                 /\ \A body \in Location : Jump(r, caller, c, body) => CarriersInv'
                 /\ Cancel(r, caller, c) => CarriersInv'
                 /\ \A access \in Access : DockingAccess(r, caller, c, access) => CarriersInv'
                 /\ \A s \in Service : ActivateService(r, caller, c, s) => CarriersInv'
                 /\ \A s \in Service : DeactivateService(r, caller, c, s) => CarriersInv'
<1>1. ASSUME NEW body \in NewCarriers, NEW fails \in BOOLEAN, Create(r, caller, body, fails)
      PROVE  CarriersInv'
  <2>1. PICK image : image = Updated(Blank, body, TRUE)
    OBVIOUS
  <2>2. Start(r, "insert", NoRow, image, {})
    BY <1>1, <2>1 DEF Create
  <2>3. Copy(image) /\ \E b \in NewCarriers : Ship(image) = Fleet!Registered(b)
    BY <2>1, CreatedRow
  <2>. QED BY <2>2, <2>3, StartKeeps
<1>2. ASSUME NEW c \in Carrier, Exists(c), NEW image, EffectOn(row[c], image),
             NEW pc \in {"check", "save"}, NEW checks, checks \subseteq Columns,
             Start(r, pc, c, image, checks)
      PROVE  CarriersInv'
  BY <1>2, StartKeeps
<1>3. ASSUME NEW c \in Carrier, Exists(c)
      PROVE  Copy(row[c])
  BY <1>3, InvParts DEF Parts
<1>4. ASSUME NEW c \in Carrier, Exists(c), NEW image, EffectOn(row[c], image),
             Connect(r, caller, c, image)
      PROVE  CarriersInv'
  BY <1>2, <1>4 DEF Connect
<1>5. ASSUME NEW c \in Carrier, NEW body \in Overrides, UpdateOverride(r, caller, c, body)
      PROVE  CarriersInv'
  <2>1. Exists(c) /\ Start(r, "check", c, Updated(row[c], body, FALSE), {"marketID", "callsign"})
    BY <1>5 DEF UpdateOverride
  <2>2. EffectOn(row[c], Updated(row[c], body, FALSE))
    BY <1>3, <2>1, UpdateEffect
  <2>3. {"marketID", "callsign"} \subseteq Columns
    BY DEF Columns
  <2>. QED BY <1>2, <2>1, <2>2, <2>3
<1>6. ASSUME NEW c \in Carrier, NEW body \in Patches, NEW override \in BOOLEAN,
             Update(r, caller, c, body, override)
      PROVE  CarriersInv'
  <2>1. PICK checks : checks = DOMAIN body \cap {"marketID", "callsign"}
    OBVIOUS
  <2>2. PICK pc \in {"check", "save"} : pc = IF checks = {} THEN "save" ELSE "check"
    OBVIOUS
  <2>3. Exists(c) /\ Start(r, pc, c, Updated(row[c], body, override), checks)
    BY <1>6, <2>1, <2>2 DEF Update
  <2>4. EffectOn(row[c], Updated(row[c], body, override))
    BY <1>3, <2>3, UpdateEffect
  <2>5. checks \subseteq Columns
    BY <2>1 DEF Columns
  <2>. QED BY <1>2, <2>3, <2>4, <2>5
<1>7. ASSUME NEW c \in Carrier, NEW body \in Location, Jump(r, caller, c, body)
      PROVE  CarriersInv'
  <2>1. PICK image : image = [row[c] EXCEPT !.history = Append(@, row[c].location), !.location = body]
    OBVIOUS
  <2>2. Exists(c) /\ Connect(r, caller, c, image)
    BY <1>7, <2>1 DEF Jump
  <2>3. EffectOn(row[c], image)
    BY <1>3, <2>1, <2>2, JumpEffect
  <2>. QED BY <1>4, <2>2, <2>3
<1>8. ASSUME NEW c \in Carrier, Cancel(r, caller, c)
      PROVE  CarriersInv'
  <2>1. PICK image : image = IF row[c].history = <<>> THEN row[c]
                             ELSE [row[c] EXCEPT !.location = Last(row[c].history),
                                                 !.history = Front(@)]
    OBVIOUS
  <2>2. Exists(c) /\ Connect(r, caller, c, image)
    BY <1>8, <2>1 DEF Cancel
  <2>3. EffectOn(row[c], image)
    BY <1>3, <2>1, <2>2, CancelEffect
  <2>. QED BY <1>4, <2>2, <2>3
<1>9. ASSUME NEW c \in Carrier, NEW access \in Access, DockingAccess(r, caller, c, access)
      PROVE  CarriersInv'
  <2>1. Exists(c) /\ Connect(r, caller, c, [row[c] EXCEPT !.access = access])
    BY <1>9 DEF DockingAccess
  <2>. QED BY <1>3, <1>4, <2>1, AccessEffect
<1>10. ASSUME NEW c \in Carrier, NEW s \in Service, ActivateService(r, caller, c, s)
       PROVE  CarriersInv'
  <2>1. Exists(c) /\ Connect(r, caller, c, [row[c] EXCEPT !.services = AddService(@, s)])
    BY <1>10 DEF ActivateService
  <2>2. EffectOn(row[c], [row[c] EXCEPT !.services = AddService(@, s)])
    BY <1>3, <2>1, ServicesEffect
  <2>. QED BY <1>4, <2>1, <2>2
<1>11. ASSUME NEW c \in Carrier, NEW s \in Service, DeactivateService(r, caller, c, s)
       PROVE  CarriersInv'
  <2>1. Exists(c) /\ Connect(r, caller, c, [row[c] EXCEPT !.services = RemoveService(@, s)])
    BY <1>11 DEF DeactivateService
  <2>2. EffectOn(row[c], [row[c] EXCEPT !.services = RemoveService(@, s)])
    BY <1>3, <2>1, ServicesEffect
  <2>. QED BY <1>4, <2>1, <2>2
<1>. QED BY <1>1, <1>5, <1>6, <1>7, <1>8, <1>9, <1>10, <1>11

\* The invariant is inductive.
LEMMA NextKeeps == ASSUME CarriersInv, [Next]_vars PROVE CarriersInv'
<1>1. ASSUME NEW r \in Request, NEW caller \in Caller, NEW body \in NewCarriers, NEW fails \in BOOLEAN,
             Create(r, caller, body, fails)
      PROVE  CarriersInv'
  BY <1>1, BeginsKeep
<1>2. ASSUME NEW r \in Request, NEW caller \in Caller, NEW c \in Carrier,
             \/ \E body \in Overrides : UpdateOverride(r, caller, c, body)
             \/ \E body \in Patches, override \in BOOLEAN : Update(r, caller, c, body, override)
             \/ \E body \in Location : Jump(r, caller, c, body)
             \/ Cancel(r, caller, c)
             \/ \E access \in Access : DockingAccess(r, caller, c, access)
             \/ \E s \in Service :
                   ActivateService(r, caller, c, s) \/ DeactivateService(r, caller, c, s)
      PROVE  CarriersInv'
  BY <1>2, BeginsKeep
<1>3. ASSUME NEW r \in Request, NEW c \in Carrier, Insert(r, c) PROVE CarriersInv'
  BY <1>3, InsertKeeps
<1>4. ASSUME NEW r \in Request, NEW fails \in BOOLEAN, Check(r, fails) PROVE CarriersInv'
  BY <1>4, CheckKeeps
<1>5. ASSUME NEW r \in Request, Save(r) PROVE CarriersInv'
  BY <1>5, SaveKeeps
<1>6. ASSUME NEW r \in Request, Refuse(r) PROVE CarriersInv'
  BY <1>6, RefuseKeeps
<1>7. CASE UNCHANGED vars
  BY <1>7, InvParts, InvPartsNext DEF vars, Parts, Caused, Exists
<1>. QED BY <1>1, <1>2, <1>3, <1>4, <1>5, <1>6, <1>7 DEF Next

\* The empty table, and no request.
LEMMA InitInv == Init => CarriersInv
<1>1. SUFFICES ASSUME Init PROVE Parts
  BY InvParts
<1>2. Idle \in Handlers
  BY DEF Idle, Handlers
<1>3. row \in [Carrier -> Rows \cup {NoRow}] /\ req \in [Request -> Handlers]
  BY <1>1, <1>2 DEF Init
<1>. QED BY <1>1, <1>3 DEF Init, Parts, Exists, Caused, Idle

\* The inductive invariant holds for every number of carriers, accounts,
\* requests and bodies.
THEOREM CarriersInvariant == Spec => []CarriersInv
BY InitInv, NextKeeps, PTL DEF Spec

\* Rows and copies have values that requests gave them, and no row is created
\* by a Save (setter.go:331).
THEOREM RowsTyped == Spec => []TypeOK
<1>1. CarriersInv => TypeOK
  BY DEF CarriersInv
<1>. QED BY <1>1, CarriersInvariant, PTL

\* However handlers interleave, no row and no copy lists a service twice: the
\* precondition under which RemoveService does not panic (carrier.go:114).
THEOREM NoServiceTwice == Spec => []ServicesDistinct
<1>1. CarriersInv => ServicesDistinct
  BY DEF CarriersInv
<1>. QED BY <1>1, CarriersInvariant, PTL

------------------------------------------------------------------------------
\* Carriers implements CarrierFleet

\* A row is never taken for no row, by the table or by its readers.
LEMMA ShipsAreShips == ASSUME NEW u \in Rows PROVE Ship(u) \in Ships /\ Ship(u) # NoRow /\ u # NoRow
<1>1. u.history \in Seq(Location) /\ u.location \in Location /\ u.services \in Seq(Service)
  BY DEF Rows
<1>2. Append(u.history, u.location) \in Seq(Location) /\ ToSet(u.services) \subseteq Service
  BY <1>1 DEF ToSet
<1>3. Ship(u) \in Ships
  BY <1>2 DEF Ship, Ships, Rows
<1>. QED BY <1>3, CarriersAssumption

\* What readers see of the rows.
LEMMA ShownRows ==
    ASSUME CarriersInv, NEW c \in Carrier
    PROVE  /\ Shown[c] = IF Exists(c) THEN Ship(row[c]) ELSE NoRow
           /\ Fleet!Known(c) <=> Exists(c)
<1>1. Exists(c) => row[c] \in Rows
  BY InvParts DEF Parts, Exists
<1>2. Shown[c] = IF Exists(c) THEN Ship(row[c]) ELSE NoRow
  BY DEF Shown
<1>. QED BY <1>1, <1>2, ShipsAreShips DEF Fleet!Known

\* A statement that writes one row, and that the unique indexes let pass,
\* changes one carrier, and to one that has its own market id and callsign.
LEMMA WriteBecomes ==
    ASSUME CarriersInv, NEW c \in Carrier, NEW image, Copy(image),
           row' = [row EXCEPT ![c] = image], Same(image, Indexed) \subseteq {c}
    PROVE  Fleet!Becomes(c, Ship(image)) /\ Shown'[c] = Ship(image)
<1>1. /\ row'[c] = image /\ Exists(c)' /\ \A d \in Carrier : d # c => row'[d] = row[d]
  BY RowsKept
<1>2. Shown' = [d \in Carrier |-> IF Exists(d)' THEN Ship(row'[d]) ELSE NoRow]
  BY DEF Shown
<1>3. Shown'[c] = Ship(image)
  BY <1>1, <1>2
<1>4. Shown' = [Shown EXCEPT ![c] = Ship(image)]
  <2>1. PICK old : old = Shown
    OBVIOUS
  <2>2. old = [d \in Carrier |-> IF Exists(d) THEN Ship(row[d]) ELSE NoRow]
    BY <2>1 DEF Shown
  <2>3. PICK new : new = Shown'
    OBVIOUS
  <2>4. DOMAIN new = Carrier /\ new = [d \in DOMAIN new |-> new[d]]
    BY <1>2, <2>3
  <2>5. ASSUME NEW d \in Carrier, d # c PROVE new[d] = old[d]
    <3>1. row'[d] = row[d]
      BY <1>1, <2>5
    <3>2. Exists(d)' <=> Exists(d)
      BY <3>1 DEF Exists
    <3>. QED BY <1>2, <2>2, <2>3, <3>1, <3>2
  <2>. QED BY <1>3, <2>1, <2>2, <2>3, <2>4, <2>5
<1>5. ASSUME NEW d \in Carrier, d # c, Fleet!Known(d)
      PROVE  Shown[d].marketID # Ship(image).marketID /\ Shown[d].callsign # Ship(image).callsign
  <2>1. Exists(d) /\ Shown[d] = Ship(row[d])
    BY <1>5, ShownRows
  <2>2. d \notin Same(image, Indexed)
    BY <1>5
  <2>3. row[d].marketID # image.marketID /\ row[d].callsign # image.callsign
    BY <2>1, <2>2 DEF Same, Indexed
  <2>. QED BY <2>1, <2>3 DEF Ship
<1>. QED BY <1>3, <1>4, <1>5 DEF Fleet!Becomes

\* INSERT registers a carrier.
LEMMA InsertRegisters ==
    ASSUME CarriersInv, NEW r \in Request, NEW c \in Carrier, Insert(r, c)
    PROVE  Fleet!Register(c)
<1>1. PICK image : image = req[r].image
  OBVIOUS
<1>2. /\ Copy(image) /\ row' = [row EXCEPT ![c] = image] /\ overwritten' = FALSE
      /\ ~Exists(c) /\ Same(image, Indexed) = {}
      /\ \E body \in NewCarriers : Ship(image) = Fleet!Registered(body)
  BY <1>1, InvParts DEF Insert, Parts, Caused
<1>3. Fleet!Becomes(c, Ship(image))
  BY <1>2, WriteBecomes
<1>4. ~Fleet!Known(c)
  BY <1>2, ShownRows
<1>. QED BY <1>2, <1>3, <1>4 DEF Fleet!Register

\* Save of a current copy changes the carrier; only that of an outdated one
\* overwrites it.
LEMMA SaveChanges ==
    ASSUME CarriersInv, NEW r \in Request, Save(r)
    PROVE  \E c \in Carrier : Fleet!Change(c) \/ Fleet!Overwrite(c)
<1>1. PICK c : c = req[r].carrier
  OBVIOUS
<1>2. PICK image : image = req[r].image
  OBVIOUS
<1>3. /\ Copy(image) /\ row' = [row EXCEPT ![c] = image] /\ overwritten' = req[r].stale
      /\ c \in Carrier /\ Exists(c) /\ Same(image, Indexed) \subseteq {c}
      /\ req[r].stale \in BOOLEAN
      /\ ~req[r].stale => Ship(image) \in Fleet!Effects(Ship(row[c]))
  BY <1>1, <1>2, InvParts DEF Save, Parts, Caused, Handlers
<1>4. Fleet!Becomes(c, Ship(image)) /\ Shown'[c] = Ship(image)
  BY <1>3, WriteBecomes
<1>5. Fleet!Known(c) /\ Shown[c] = Ship(row[c])
  BY <1>3, ShownRows
<1>6. CASE req[r].stale
  BY <1>3, <1>4, <1>5, <1>6 DEF Fleet!Overwrite
<1>7. CASE ~req[r].stale
  BY <1>3, <1>4, <1>5, <1>7 DEF Fleet!Change
<1>. QED BY <1>3, <1>6, <1>7

\* Every other step leaves the table alone.
LEMMA OthersStutter ==
    ASSUME UNCHANGED <<row, overwritten>>
    PROVE  UNCHANGED Fleet!fvars
BY DEF Fleet!fvars, Shown, Exists

\* Every step is a step of the fleet, or none.
LEMMA StepRefines == ASSUME CarriersInv, [Next]_vars PROVE [Fleet!FNext]_(Fleet!fvars)
<1>1. CASE UNCHANGED <<row, overwritten>>
  BY <1>1, OthersStutter
<1>2. ASSUME NEW r \in Request, NEW c \in Carrier, Insert(r, c)
      PROVE  [Fleet!FNext]_(Fleet!fvars)
  BY <1>2, InsertRegisters DEF Fleet!FNext
<1>3. ASSUME NEW r \in Request, Save(r)
      PROVE  [Fleet!FNext]_(Fleet!fvars)
  BY <1>3, SaveChanges DEF Fleet!FNext
<1>4. ASSUME ~UNCHANGED <<row, overwritten>>
      PROVE  \E r \in Request : (\E c \in Carrier : Insert(r, c)) \/ Save(r)
  <2>1. ~UNCHANGED vars
    BY <1>4 DEF vars
  <2>2. \A r, pc, c, image, checks : ~Start(r, pc, c, image, checks)
    BY <1>4 DEF Start
  <2>3. \A r, caller, c, image : ~Connect(r, caller, c, image)
    BY <2>2 DEF Connect
  <2>4. \A r, caller, body, fails : ~Create(r, caller, body, fails)
    BY <2>2 DEF Create
  <2>5. ASSUME NEW r, NEW caller, NEW c
        PROVE  /\ \A body : ~UpdateOverride(r, caller, c, body)
               /\ \A body, override : ~Update(r, caller, c, body, override)
               /\ \A body : ~Jump(r, caller, c, body)
               /\ ~Cancel(r, caller, c)
               /\ \A access : ~DockingAccess(r, caller, c, access)
               /\ \A s : ~ActivateService(r, caller, c, s) /\ ~DeactivateService(r, caller, c, s)
    <3>1. \A body : ~UpdateOverride(r, caller, c, body)
      BY <2>2 DEF UpdateOverride
    <3>2. \A body, override : ~Update(r, caller, c, body, override)
      BY <2>2 DEF Update
    <3>3. (\A body : ~Jump(r, caller, c, body)) /\ ~Cancel(r, caller, c)
      BY <2>3 DEF Jump, Cancel
    <3>4. \A access : ~DockingAccess(r, caller, c, access)
      BY <2>3 DEF DockingAccess
    <3>5. \A s : ~ActivateService(r, caller, c, s) /\ ~DeactivateService(r, caller, c, s)
      BY <2>3 DEF ActivateService, DeactivateService
    <3>. QED BY <3>1, <3>2, <3>3, <3>4, <3>5
  <2>6. \A r, fails : ~Check(r, fails) /\ ~Refuse(r)
    BY <1>4 DEF Check, Refuse
  <2>7. PICK r \in Request :
          \/ \E caller \in Caller :
                \/ \E body \in NewCarriers, fails \in BOOLEAN : Create(r, caller, body, fails)
                \/ \E c \in Carrier :
                      \/ \E body \in Overrides : UpdateOverride(r, caller, c, body)
                      \/ \E body \in Patches, override \in BOOLEAN :
                            Update(r, caller, c, body, override)
                      \/ \E body \in Location : Jump(r, caller, c, body)
                      \/ Cancel(r, caller, c)
                      \/ \E access \in Access : DockingAccess(r, caller, c, access)
                      \/ \E s \in Service :
                            ActivateService(r, caller, c, s) \/ DeactivateService(r, caller, c, s)
          \/ \E c \in Carrier : Insert(r, c)
          \/ \E fails \in BOOLEAN : Check(r, fails)
          \/ Save(r) \/ Refuse(r)
    BY <2>1 DEF Next
  <2>. QED BY <2>4, <2>5, <2>6, <2>7
<1>. QED BY <1>1, <1>2, <1>3, <1>4

\* Every write of a carrier is a request's whole effect on the carrier as it
\* is at that moment, or a copy that was no longer current (setter.go:331,
\* connector.go:81); no two carriers share a market id or a callsign.
THEOREM CarriersImplementFleet == Spec => ImplementsFleet
<1>1. Init => Fleet!FInit
  BY DEF Init, Fleet!FInit, Shown, Exists
<1>2. CarriersInv /\ [Next]_vars => [Fleet!FNext]_(Fleet!fvars)
  BY StepRefines
<1>. QED BY <1>1, <1>2, CarriersInvariant, PTL DEF Spec, ImplementsFleet, Fleet!FSpec
==============================================================================
