----------------------------- MODULE CarrierFleet -----------------------------
(***************************************************************************)
(* What the carrier API promises, without the handlers: a change of a      *)
(* carrier happens at once, to the carrier as it is, and market ids and    *)
(* callsigns identify carriers. A location and its history are one route;  *)
(* services are a set. The exception is named: an Overwrite puts any value *)
(* in the place of a carrier. Carriers implements this module, and         *)
(* overwrites only with copies that were no longer current.                *)
(***************************************************************************)
EXTENDS SequencesExt

CONSTANTS
    Carrier, NoRow, Location, Access, Service,
    NewCarriers, Overrides, Patches     \* the bodies of requests

VARIABLES
    fleet,          \* carrier -> what is known of it, or NoRow
    overwritten     \* whether the last change was an Overwrite

fvars == <<fleet, overwritten>>

Known(c) == fleet[c] # NoRow

FInit ==
    /\ fleet = [c \in Carrier |-> NoRow]
    /\ overwritten = FALSE

------------------------------------------------------------------------------

\* A carrier's value, and no other carrier has its market id or its callsign.
Becomes(c, ship) ==
    /\ \A d \in Carrier \ {c} : Known(d) =>
          fleet[d].marketID # ship.marketID /\ fleet[d].callsign # ship.callsign
    /\ fleet' = [fleet EXCEPT ![c] = ship]

\* A carrier with the columns of a body. Services are added to those it has,
\* or replace them.
Amended(ship, body, override) ==
    LET kept == IF override THEN {} ELSE ship.services
    IN [column \in DOMAIN ship |->
          IF column = "route"
          THEN Append(IF "history" \in DOMAIN body THEN body.history ELSE Front(ship.route),
                      IF "location" \in DOMAIN body THEN body.location ELSE Last(ship.route))
          ELSE IF column \notin DOMAIN body THEN ship[column]
          ELSE IF column = "services" THEN kept \cup ToSet(body.services)
          ELSE body[column]]

\* The carrier of the body of a POST request.
Registered(body) ==
    [marketID |-> body.marketID, name |-> body.name, callsign |-> body.callsign,
     access |-> body.access, fuel |-> body.fuel, owner |-> body.owner,
     route |-> <<body.location>>, services |-> ToSet(body.services)]

Register(c) ==
    /\ ~Known(c)
    /\ \E body \in NewCarriers : Becomes(c, Registered(body))
    /\ overwritten' = FALSE

\* The values a single request gives to a carrier.
Effects(ship) ==
    {Amended(ship, body, FALSE) : body \in Overrides \cup Patches}
    \cup {Amended(ship, body, TRUE) : body \in Patches}
    \cup {[ship EXCEPT !.route = Append(@, body)] : body \in Location}
    \cup {[ship EXCEPT !.route = IF Len(@) > 1 THEN Front(@) ELSE @]}
    \cup {[ship EXCEPT !.access = access] : access \in Access}
    \cup {[ship EXCEPT !.services = @ \cup {s}] : s \in Service}
    \cup {[ship EXCEPT !.services = @ \ {s}] : s \in Service}

Change(c) ==
    /\ Known(c)
    /\ \E ship \in Effects(fleet[c]) : Becomes(c, ship)
    /\ overwritten' = FALSE

Overwrite(c) ==
    /\ Known(c)
    /\ overwritten' = TRUE
    /\ Becomes(c, fleet'[c])

\* A step of the fleet changes it.
FNext ==
    /\ fvars' # fvars
    /\ \E c \in Carrier : Register(c) \/ Change(c) \/ Overwrite(c)

FSpec == FInit /\ [][FNext]_fvars
==============================================================================
