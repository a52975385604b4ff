--------------------------- MODULE CarrierServices ---------------------------
(***************************************************************************)
(* What the methods of entities.Carrier on its list of services return     *)
(* (db/entities/carrier.go). A service stands for its entry in the map     *)
(* entities.CarrierServices. CarrierServiceLoops shows that the loops of   *)
(* the code compute these values.                                          *)
(***************************************************************************)
EXTENDS Naturals, SequencesExt

\* A carrier's list of services names each of them once.
Distinct(services) ==
    \A i, j \in DOMAIN services : services[i] = services[j] => i = j

HasService(services, s) == \E i \in DOMAIN services : services[i] = s

\* Mutant: the service is appended even if the list has it.
AddServiceTwice(services, s) == Append(services, s)

AddService(services, s) ==
    IF HasService(services, s) THEN services ELSE Append(services, s)

\* The lists that the loop of SetServices passes through, the first before it
\* begins. The names are all known: see CarrierServiceLoops for others.
Additions(services, names) ==
    LET with[k \in 0 .. Len(names)] ==
          IF k = 0 THEN services ELSE AddService(with[k - 1], names[k])
    IN with

SetServices(services, names, override) ==
    Additions(IF override THEN <<>> ELSE services, names)[Len(names)]

\* The list has the service once, if it has it: see ServicesDistinct.
RemoveService(services, s) ==
    IF HasService(services, s)
    THEN RemoveAt(services, CHOOSE p \in DOMAIN services : services[p] = s)
    ELSE services
==============================================================================
