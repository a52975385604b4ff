------------------------------- MODULE Carriers -------------------------------
(***************************************************************************)
(* The handlers that write the table carriers (api/carrier/setter.go and   *)
(* connector.go, db/entities/carrier.go). A handler reads a row, changes   *)
(* its copy and Saves all of its columns; PUT and PATCH look for a         *)
(* duplicate in between. The unique indexes on market_id and callsign make *)
(* a statement fail; the name has none.                                    *)
(*                                                                         *)
(* An action is one SQL statement with the local code before it. The other *)
(* columns without a condition (category, notorious, cargo, balances) are  *)
(* handled like fuel and access. A refused request has no effect and no    *)
(* action, unless it is refused after its first statement (Refuse).        *)
(***************************************************************************)
EXTENDS CarrierServices

CONSTANTS
    Carrier,        \* the ids of rows
    NoRow,          \* "no row with this id"
    User,           \* the accounts
    Nobody,         \* a nil OwnerID
    Caller,         \* who sends requests: [user, admin, full, write]
    Location, Access, Service,
    NewCarriers,    \* the bodies of POST requests
    Overrides,      \* the bodies of PUT requests
    Patches,        \* the bodies of PATCH requests
    Request,        \* slots for requests in flight
    MaxHistory      \* bound: the length of a location history that is still extended

Columns == {"marketID", "name", "callsign", "location", "history",
            "services", "access", "fuel", "owner"}

\* A body has some of the columns; services are names in a body.
Bodies == NewCarriers \cup Overrides \cup Patches

Values ==
    [column \in Columns |->
        {body[column] : body \in {b \in Bodies : column \in DOMAIN b}}]

\* Rows, and the copies that handlers have of them.
Rows ==
    [marketID : Values["marketID"], name : Values["name"], callsign : Values["callsign"],
     location : Location, history : Seq(Location), services : Seq(Service),
     access : Access \cup Values["access"], fuel : Values["fuel"], owner : User \cup {Nobody}]

\* What the table shows to readers, with its columns as CarrierFleet has them.
Ships ==
    [marketID : Values["marketID"], name : Values["name"], callsign : Values["callsign"],
     access : Access \cup Values["access"], fuel : Values["fuel"], owner : User \cup {Nobody},
     route : Seq(Location), services : SUBSET Service]

\* What SetServices, SetDockingAccess and the look-up of the owner refuse is in
\* no body; POST and PUT have every column of their DTO, but PUT may leave the
\* history as it is (setter.go:146).
BodiesAssumption ==
    /\ \A body \in NewCarriers : DOMAIN body = Columns \ {"history"}
    /\ \A body \in Overrides : DOMAIN body \in {Columns, Columns \ {"history"}}
    /\ \A body \in Patches : DOMAIN body \subseteq Columns
    /\ Values["location"] \subseteq Location
    /\ Values["history"] \subseteq Seq(Location)
    /\ Values["services"] \subseteq Seq(Service)
    /\ Values["owner"] \subseteq User \cup {Nobody}

ASSUME CarriersAssumption ==
    /\ Nobody \notin User
    /\ NoRow \notin Rows /\ NoRow \notin Ships
    /\ MaxHistory \in Nat
    /\ \A caller \in Caller : caller.write \subseteq Carrier
    /\ BodiesAssumption

VARIABLES
    row,            \* carrier -> its row, or NoRow
    req,            \* request -> the locals of its handler
    overwritten     \* history: whether the last write was of an outdated copy

vars == <<row, req, overwritten>>

Exists(c) == row[c] # NoRow

\* stale: the row has changed since the handler read it.
Handlers ==
    [pc : {"idle", "insert", "check", "save"}, carrier : Carrier \cup {NoRow},
     image : Rows \cup {NoRow}, checks : SUBSET Columns, stale : BOOLEAN]

Idle == [pc |-> "idle", carrier |-> NoRow, image |-> NoRow, checks |-> {}, stale |-> FALSE]

\* Rows and copies have values that requests gave them, and a handler that is
\* to write a carrier has found it: no row is created by a Save.
TypeOK ==
    /\ row \in [Carrier -> Rows \cup {NoRow}]
    /\ req \in [Request -> Handlers]
    /\ overwritten \in BOOLEAN
    /\ \A r \in Request :
          /\ req[r].pc # "idle" => req[r].image \in Rows
          /\ req[r].pc \in {"check", "save"} =>
                req[r].carrier \in Carrier /\ Exists(req[r].carrier)

Init ==
    /\ row = [c \in Carrier |-> NoRow]
    /\ req = [r \in Request |-> Idle]
    /\ overwritten = FALSE

------------------------------------------------------------------------------
\* Who may write

HasWriteAccess(caller, c) == caller.full \/ c \in caller.write

IsOwner(caller, c) == row[c].owner = caller.user

\* The condition of the setters, and the weaker one of the connector.
MaySet(caller, c) == caller.admin \/ IsOwner(caller, c) \/ HasWriteAccess(caller, c)

MayConnect(caller, c) == MaySet(caller, c) \/ row[c].owner = Nobody

------------------------------------------------------------------------------
\* Starting a handler: it reads the row, and its checks of the row pass

Blank == [column \in Columns |-> <<>>]

\* The copy u with the columns of a body.
Updated(u, body, override) ==
    [column \in Columns |->
        IF column \notin DOMAIN body THEN u[column]
        ELSE IF column = "services" THEN SetServices(u.services, body.services, override)
        ELSE body[column]]

Start(r, pc, c, image, checks) ==
    /\ req[r] = Idle
    /\ req' = [req EXCEPT ![r] = [pc |-> pc, carrier |-> c, image |-> image,
                                  checks |-> checks, stale |-> FALSE]]
    /\ UNCHANGED <<row, overwritten>>

\* Rows with one of these columns in common with an image.
Same(image, columns) ==
    {c \in Carrier : Exists(c) /\ \E column \in columns : row[c][column] = image[column]}

\* createCarrier. The SELECT finds no row; or it fails, which the handler
\* takes for the same.
Create(r, caller, body, fails) ==
    /\ caller.admin \/ caller.full
    /\ fails \/ Same(body, {"name", "callsign"}) = {}
    /\ Start(r, "insert", NoRow, Updated(Blank, body, TRUE), {})

\* updateCarrierOverride. "Override" does not extend to the services.
UpdateOverride(r, caller, c, body) ==
    /\ Exists(c) /\ MaySet(caller, c)
    /\ Start(r, "check", c, Updated(row[c], body, FALSE), {"marketID", "callsign"})

\* updateCarrier. It looks for duplicates only of what the body has, and
\* lets every caller change the owner (token is never nil).
Update(r, caller, c, body, override) ==
    LET checks == DOMAIN body \cap {"marketID", "callsign"}
    IN /\ Exists(c) /\ MaySet(caller, c)
       /\ Start(r, IF checks = {} THEN "save" ELSE "check",
                c, Updated(row[c], body, override), checks)

\* A connector finds the carrier by its market id; only Save follows.
Connect(r, caller, c, image) == MayConnect(caller, c) /\ Start(r, "save", c, image, {})

\* Mutant: the history is not extended.
JumpUnrecorded(r, caller, c, body) ==
    Exists(c) /\ Connect(r, caller, c, [row[c] EXCEPT !.location = body])

\* carrierJump, type "jump".
Jump(r, caller, c, body) ==
    /\ Exists(c) /\ Len(row[c].history) < MaxHistory
    /\ Connect(r, caller, c, [row[c] EXCEPT !.history = Append(@, row[c].location),
                                            !.location = body])

\* carrierJump, type "cancel". A carrier without a history is saved as it is.
Cancel(r, caller, c) ==
    /\ Exists(c)
    /\ Connect(r, caller, c,
               IF row[c].history = <<>> THEN row[c]
               ELSE [row[c] EXCEPT !.location = Last(row[c].history),
                                   !.history = Front(@)])

DockingAccess(r, caller, c, access) ==
    Exists(c) /\ Connect(r, caller, c, [row[c] EXCEPT !.access = access])

\* updateCarrierService: activate or resume, deactivate or pause.
ActivateService(r, caller, c, s) ==
    Exists(c) /\ Connect(r, caller, c, [row[c] EXCEPT !.services = AddService(@, s)])

DeactivateService(r, caller, c, s) ==
    Exists(c) /\ Connect(r, caller, c, [row[c] EXCEPT !.services = RemoveService(@, s)])

------------------------------------------------------------------------------
\* The statements after that

\* The unique indexes.
Indexed == {"marketID", "callsign"}

\* Mutant: market_id and callsign are not unique in the table.
InsertUnindexed(r, c) ==
    /\ req[r].pc = "insert"
    /\ ~Exists(c)
    /\ row' = [row EXCEPT ![c] = req[r].image]
    /\ req' = [req EXCEPT ![r] = Idle]
    /\ overwritten' = FALSE

Insert(r, c) ==
    /\ req[r].pc = "insert"
    /\ ~Exists(c)
    /\ Same(req[r].image, Indexed) = {}
    /\ row' = [row EXCEPT ![c] = req[r].image]
    /\ req' = [req EXCEPT ![r] = Idle]
    /\ overwritten' = FALSE

\* No other row has the same; or the SELECT fails, which is taken for it.
Check(r, fails) ==
    /\ req[r].pc = "check"
    /\ fails \/ Same(req[r].image, req[r].checks) \subseteq {req[r].carrier}
    /\ req' = [req EXCEPT ![r].pc = "save"]
    /\ UNCHANGED <<row, overwritten>>

\* Save writes all columns of the copy, by the id of the row.
Save(r) ==
    LET c == req[r].carrier
        image == req[r].image
    IN /\ req[r].pc = "save"
       /\ Same(image, Indexed) \subseteq {c}
       /\ row' = [row EXCEPT ![c] = image]
       /\ req' = [q \in Request |->
                    IF q = r THEN Idle
                    ELSE [req[q] EXCEPT !.stale = @ \/ (req[q].carrier = c /\ image # row[c])]]
       /\ overwritten' = req[r].stale

\* The handler answers that something is invalid or a duplicate, a statement
\* fails, or the process stops.
Refuse(r) ==
    /\ req[r] # Idle
    /\ req' = [req EXCEPT ![r] = Idle]
    /\ UNCHANGED <<row, overwritten>>

Next ==
    \E r \in Request :
        \/ \E caller \in Caller :
              \/ \E body \in NewCarriers, fails \in BOOLEAN : Create(r, caller, body, fails)
              \/ \E c \in Carrier :
                    \/ \E body \in Overrides : UpdateOverride(r, caller, c, body)
                    \/ \E body \in Patches, override \in BOOLEAN :
                          Update(r, caller, c, body, override)
                    \/ \E body \in Location : Jump(r, caller, c, body)
                    \/ Cancel(r, caller, c)
                    \/ \E access \in Access : DockingAccess(r, caller, c, access)
                    \/ \E s \in Service :
                          ActivateService(r, caller, c, s) \/ DeactivateService(r, caller, c, s)
        \/ \E c \in Carrier : Insert(r, c)
        \/ \E fails \in BOOLEAN : Check(r, fails)
        \/ Save(r) \/ Refuse(r)

Spec == Init /\ [][Next]_vars

------------------------------------------------------------------------------

Images == {row[c] : c \in Carrier} \cup {req[r].image : r \in Request}

\* However handlers interleave, no row and no copy lists a service twice:
\* RemoveService would panic on such a list (see CarrierServiceLoops).
ServicesDistinct == \A u \in Images \ {NoRow} : Distinct(u.services)

Ship(u) ==
    [marketID |-> u.marketID, name |-> u.name, callsign |-> u.callsign, access |-> u.access,
     fuel |-> u.fuel, owner |-> u.owner,
     route |-> Append(u.history, u.location), services |-> ToSet(u.services)]

Shown == [c \in Carrier |-> IF Exists(c) THEN Ship(row[c]) ELSE NoRow]

Fleet == INSTANCE CarrierFleet WITH fleet <- Shown

\* Every write of a carrier is a request's whole effect on the carrier as it
\* is at that moment, or it is a copy that was no longer current.
ImplementsFleet == Fleet!FSpec

\* A copy is a new carrier, or the effect of one request on the row as it is
\* now, or it is known to be outdated.
CopiesHaveCause ==
    \A r \in Request :
        /\ req[r].pc = "insert" =>
              \E body \in NewCarriers : Ship(req[r].image) = Fleet!Registered(body)
        /\ req[r].pc \in {"check", "save"} /\ ~req[r].stale =>
              Ship(req[r].image) \in Fleet!Effects(Ship(row[req[r].carrier]))

\* The inductive invariant behind ImplementsFleet. A carrier without a service
\* twice is part of it: RemoveService removes one entry, and the fleet's
\* carrier loses the service (carrier.go:114).
CarriersInv == TypeOK /\ ServicesDistinct /\ CopiesHaveCause
==============================================================================
