------------------------- MODULE CarrierServiceLoops -------------------------
(***************************************************************************)
(* The loops of RemoveService and SetServices (db/entities/carrier.go), an *)
(* action per iteration, over one carrier that is asked for one change     *)
(* after another. RemoveService ranges over the list while it removes from *)
(* it: range has evaluated c.Services once, and append(c.Services[:i],     *)
(* c.Services[i+1:]...) moves the rest of the list down in the same array. *)
(* A second match would find a list shorter than i + 1, and panic.         *)
(***************************************************************************)
EXTENDS CarrierServices

CONSTANTS
    Service,    \* the entries of the map CarrierServices
    Unknown,    \* a name the map does not have
    MaxNames    \* bound: how many names a request lists

ASSUME LoopsAssumption == Unknown \notin Service /\ MaxNames \in Nat

VARIABLES
    saved,      \* the list in the row
    array,      \* the array c.Services points to
    len,        \* len(c.Services)
    call,       \* the method that runs, with its arguments
    i           \* the iteration it is in

vars == <<saved, array, len, call, i>>

Names == UNION {[1 .. n -> Service \cup {Unknown}] : n \in 0 .. MaxNames}

NoCall == [method |-> "none", names |-> <<>>, override |-> FALSE]

\* c.Services.
Services == SubSeq(array, 1, len)

\* The types: c.Services never reaches beyond its array.
TypeOK ==
    /\ saved \in Seq(Service)
    /\ array \in Seq(Service)
    /\ len \in 0 .. Len(array)
    /\ call \in [method : {"none", "RemoveService", "SetServices", "panic"},
                 names : Seq(Service \cup {Unknown}), override : BOOLEAN]
    /\ i \in Nat \ {0}

Init ==
    /\ saved = <<>>
    /\ array = <<>>
    /\ len = 0
    /\ call = NoCall
    /\ i = 1

------------------------------------------------------------------------------

\* The handler has read the row; AfterFind made a list of its services.
Begin(c) ==
    /\ call = NoCall
    /\ call' = c
    /\ i' = 1
    /\ array' = IF c.override THEN <<>> ELSE saved
    /\ len' = IF c.override THEN 0 ELSE Len(saved)
    /\ UNCHANGED saved

BeginRemoveService(s) ==
    Begin([method |-> "RemoveService", names |-> <<s>>, override |-> FALSE])

BeginSetServices(names, override) ==
    Begin([method |-> "SetServices", names |-> names, override |-> override])

\* The array after its elements from k + 1 to len moved down by one.
MovedDown(k) ==
    [j \in DOMAIN array |-> IF k <= j /\ j < len THEN array[j + 1] ELSE array[j]]

\* Mutant: the rest of the list is taken from i instead of i + 1.
RemoveIterationOffByOne ==
    /\ call.method = "RemoveService"
    /\ i <= Len(saved)
    /\ i' = i + 1
    /\ UNCHANGED <<saved, array, len, call>>

\* One iteration: the element is read from the array, not from c.Services.
RemoveIteration ==
    /\ call.method = "RemoveService"
    /\ i <= Len(saved)
    /\ IF array[i] # call.names[1] THEN UNCHANGED <<array, len, call>>
       ELSE IF i > len THEN call' = [NoCall EXCEPT !.method = "panic"] /\ UNCHANGED <<array, len>>
       ELSE array' = MovedDown(i) /\ len' = len - 1 /\ UNCHANGED call
    /\ i' = i + 1
    /\ UNCHANGED saved

\* Mutant: HasService is not asked.
SetIterationTwice ==
    /\ call.method = "SetServices"
    /\ i <= Len(call.names)
    /\ call.names[i] \in Service
    /\ array' = Append(Services, call.names[i])
    /\ len' = len + 1
    /\ i' = i + 1
    /\ UNCHANGED <<saved, call>>

\* Mutant: a name that the map does not have is not noticed.
SetIterationUnchecked ==
    /\ call.method = "SetServices"
    /\ i <= Len(call.names)
    /\ IF HasService(Services, call.names[i]) THEN UNCHANGED <<array, len>>
       ELSE array' = Append(Services, call.names[i]) /\ len' = len + 1
    /\ i' = i + 1
    /\ UNCHANGED <<saved, call>>

SetIteration ==
    /\ call.method = "SetServices"
    /\ i <= Len(call.names)
    /\ call.names[i] \in Service
    /\ IF HasService(Services, call.names[i]) THEN UNCHANGED <<array, len>>
       ELSE array' = Append(Services, call.names[i]) /\ len' = len + 1
    /\ i' = i + 1
    /\ UNCHANGED <<saved, call>>

\* InvalidServiceError: the handler answers it and does not save.
Refuse ==
    /\ call.method = "SetServices"
    /\ i <= Len(call.names)
    /\ call.names[i] \notin Service
    /\ call' = NoCall
    /\ UNCHANGED <<saved, array, len, i>>

Finished ==
    \/ call.method = "RemoveService" /\ i > Len(saved)
    \/ call.method = "SetServices" /\ i > Len(call.names)

\* BeforeSave makes names of the services, and the row is saved.
Save ==
    /\ Finished
    /\ saved' = Services
    /\ call' = NoCall
    /\ UNCHANGED <<array, len, i>>

Next ==
    \/ \E s \in Service : BeginRemoveService(s)
    \/ \E names \in Names, override \in BOOLEAN : BeginSetServices(names, override)
    \/ RemoveIteration \/ SetIteration \/ Refuse \/ Save

Spec == Init /\ [][Next]_vars

------------------------------------------------------------------------------

\* No sequence of changes, with whatever names in a request, makes
\* RemoveService slice beyond the end of the list (carrier.go:117), although
\* it removes from the list it ranges over.
NeverOutOfRange == call.method # "panic"

\* What RemoveService leaves is the list without the service, in its order
\* (carrier.go:114).
RemoveExact ==
    Finished /\ call.method = "RemoveService" =>
        Services = RemoveService(saved, call.names[1])

\* What SetServices leaves is the list, or nothing if it overrides, and then
\* the new names in the order in which they first occur (carrier.go:96).
SetExact ==
    Finished /\ call.method = "SetServices" =>
        Services = SetServices(saved, call.names, call.override)

\* RemoveService has not met the service yet.
Untouched(s) ==
    /\ array = saved
    /\ len = Len(saved)
    /\ \A j \in 1 .. Len(saved) : j < i => saved[j] # s

\* It met the service at p and moved down what came after: what it has still
\* to read is what comes one place later, and in the last place the last
\* service once more.
RemovedAt(p, s) ==
    /\ p < i
    /\ saved[p] = s
    /\ len = Len(saved) - 1
    /\ \A j \in 1 .. Len(saved) :
          array[j] = IF p <= j /\ j < Len(saved) THEN saved[j + 1] ELSE saved[j]

\* The inductive invariant behind the three: the saved list and the list
\* SetServices builds name no service twice (carrier.go:106), so that
\* RemoveService meets its service at one place at most; and SetServices has
\* added the first i - 1 names.
LoopInv ==
    /\ TypeOK
    /\ Distinct(saved)
    /\ call.method # "panic"
    /\ call.method = "RemoveService" =>
          /\ Len(call.names) = 1
          /\ Len(array) = Len(saved)
          /\ \/ Untouched(call.names[1])
             \/ \E p \in 1 .. Len(saved) : RemovedAt(p, call.names[1])
    /\ call.method = "SetServices" =>
          /\ Distinct(Services)
          /\ i <= Len(call.names) + 1
          /\ Services = Additions(IF call.override THEN <<>> ELSE saved, call.names)[i - 1]
==============================================================================
