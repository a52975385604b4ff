------------------------------ MODULE ApiTokens -------------------------------
(***************************************************************************)
(* API tokens and what they are used for: the middleware of the carrier    *)
(* API (api/carrier/index.go), AuthenticateApiToken (auth/token.go), the   *)
(* rights of a token (db/entities/token.go) and the queries that they, or  *)
(* a session, are good for (api/carrier/getter.go).                        *)
(*                                                                         *)
(* Each request that shows a valid token Saves the row of the token, all   *)
(* of it, as it read it. Nothing in the repository grants a right, revokes *)
(* a token or calls RegisterAPIToken: operators do that in the database.   *)
(*                                                                         *)
(* A request is a slot; its handler is a sequence of steps, one for each   *)
(* statement. Refused requests have no effect and no action.               *)
(***************************************************************************)
EXTENDS Naturals

CONSTANTS
    Token,      \* the ids of API tokens
    Carrier,    \* the carriers
    User, Admin,
    None,       \* no row, no token, no user
    Full,       \* the right to read every carrier
    Request,    \* slots for requests in flight
    UserOf      \* token -> the user it belongs to

\* read: HasReadAccessTo, or Full with HasFullReadAccess, which makes the list
\* meaningless.
ApiToken == [revoked : BOOLEAN, read : {Full} \cup SUBSET Carrier]

ASSUME ApiAssumption ==
    /\ Admin \subseteq User
    /\ UserOf \in [Token -> User]
    /\ None \notin User
    /\ None \notin Token
    /\ None \notin ApiToken
    /\ \A C \in SUBSET Carrier : C # Full

VARIABLES
    row,        \* token -> its row, or None
    expired,    \* the tokens whose ExpiresAt has passed
    owner,      \* carrier -> its owner, or None
    req,        \* request -> the locals of its handler
    granted,    \* history: token -> its row as it was registered or last edited
    clobbered   \* history: tokens that an outdated copy was saved over

vars == <<row, expired, owner, req, granted, clobbered>>

\* token, user, copy: as read (a session has no token and an empty copy; the
\* token is not needed once it is saved).
\* shown: how often the answer has a carrier. stale: the row has changed since
\* it was read. late, owned are histories: the token had expired when the
\* request came; the carriers that are the user's, or were since it was known.
Local == [pc : {"idle", "check", "save", "query", "more"},
          token : Token \cup {None}, user : User \cup {None}, copy : ApiToken,
          shown : [Carrier -> 0 .. 2],
          stale : BOOLEAN, late : BOOLEAN, owned : SUBSET Carrier]

NoRights == [revoked |-> FALSE, read |-> {}]

Nothing == [c \in Carrier |-> 0]

Idle == [pc |-> "idle", token |-> None, user |-> None, copy |-> NoRights,
         shown |-> Nothing, stale |-> FALSE, late |-> FALSE, owned |-> {}]

\* The types of the rows, of the handlers' locals and of the histories.
TypeOK ==
    /\ row \in [Token -> ApiToken \cup {None}]
    /\ expired \subseteq Token
    /\ owner \in [Carrier -> User \cup {None}]
    /\ req \in [Request -> Local]
    /\ granted \in [Token -> ApiToken \cup {None}]
    /\ clobbered \subseteq Token

Init ==
    /\ row = [t \in Token |-> None]
    /\ expired = {}
    /\ owner \in [Carrier -> User \cup {None}]
    /\ req = [r \in Request |-> Idle]
    /\ granted = row
    /\ clobbered = {}

Exists(t) == row[t] # None

Free(r) == req[r].pc = "idle"

Own(u) == {c \in Carrier : owner[c] = u}

------------------------------------------------------------------------------
\* Outside the handlers

\* What handlers that will save token t read is not what its row holds now.
Saving(r, t) == req[r].pc \in {"check", "save"} /\ req[r].token = t

Outdate(t, u) ==
    [r \in Request |-> [req[r] EXCEPT !.stale = @ \/ (Saving(r, t) /\ u # row[t])]]

\* RegisterAPIToken: a token for a year, without rights.
RegisterAPIToken(t) ==
    /\ ~Exists(t)
    /\ row' = [row EXCEPT ![t] = NoRights]
    /\ granted' = [granted EXCEPT ![t] = NoRights]
    /\ UNCHANGED <<expired, owner, req, clobbered>>

\* An operator grants or withdraws rights, or revokes the token.
Administer(t, u) ==
    /\ Exists(t)
    /\ row[t].revoked => u.revoked
    /\ row' = [row EXCEPT ![t] = u]
    /\ req' = Outdate(t, u)
    /\ granted' = [granted EXCEPT ![t] = u]
    /\ clobbered' = clobbered \ {t}
    /\ UNCHANGED <<expired, owner>>

\* A year has passed.
Expire(t) ==
    /\ Exists(t)
    /\ expired' = expired \cup {t}
    /\ UNCHANGED <<row, owner, req, granted, clobbered>>

Asks(r, u) == req[r].pc \in {"query", "more"} /\ req[r].user = u

\* A setter gives the carrier to another user, or to nobody: see Carriers.
SetOwner(c, u) ==
    /\ owner' = [owner EXCEPT ![c] = u]
    /\ req' = [r \in Request |->
                 [req[r] EXCEPT !.owned = @ \cup (IF Asks(r, u) THEN {c} ELSE {})]]
    /\ UNCHANGED <<row, expired, granted, clobbered>>

------------------------------------------------------------------------------
\* carrierTokenAuthMiddleware

\* AuthenticateApiToken finds the row by the user's id and the prefix, and the
\* hash is that of the token.
AuthenticateApiToken(r, t) ==
    /\ Free(r)
    /\ Exists(t)
    /\ req' = [req EXCEPT ![r] =
                 [Idle EXCEPT !.pc = "check", !.token = t, !.user = UserOf[t], !.copy = row[t],
                              !.late = (t \in expired)]]
    /\ UNCHANGED <<row, expired, owner, granted, clobbered>>

\* Without the header it is a session, which has no token; the second result of
\* auth.Authorize is IsAdmin, so others are turned away.
Authorize(r, u) ==
    /\ Free(r)
    /\ u \in Admin
    /\ req' = [req EXCEPT ![r] = [Idle EXCEPT !.pc = "query", !.user = u, !.owned = Own(u)]]
    /\ UNCHANGED <<row, expired, owner, granted, clobbered>>

\* Mutant: the time decides alone, and the bit is set to what it says.
CheckTimeOnly(r, t) ==
    /\ req[r].pc = "check" /\ req[r].token = t
    /\ req' = [req EXCEPT ![r].pc = "save", ![r].copy.revoked = (t \in expired)]
    /\ UNCHANGED <<row, expired, owner, granted, clobbered>>

\* checkTokenExpired, up to its Save.
CheckTokenExpired(r, t) ==
    /\ req[r].pc = "check" /\ req[r].token = t
    /\ req' = [req EXCEPT ![r] =
                 IF req[r].copy.revoked THEN Idle
                 ELSE [@ EXCEPT !.pc = "save", !.copy.revoked = (t \in expired)]]
    /\ UNCHANGED <<row, expired, owner, granted, clobbered>>

\* The token is good; the SELECT of the user reads nothing that changes here.
Serve(r) ==
    [req[r] EXCEPT !.pc = "query", !.token = None, !.stale = FALSE, !.owned = Own(req[r].user)]

\* Mutant: the bit is for the result only, nothing is saved.
SaveUnchecked(r, t) ==
    /\ req[r].pc = "save" /\ req[r].token = t
    /\ req' = [Outdate(t, row[t]) EXCEPT ![r] =
                 IF req[r].copy.revoked THEN Idle ELSE Serve(r)]
    /\ UNCHANGED <<row, expired, owner, granted, clobbered>>

\* Mutant: the result does not tell the revoked tokens from the others.
SaveAndServe(r, t) ==
    /\ req[r].pc = "save" /\ req[r].token = t
    /\ row' = [row EXCEPT ![t] = req[r].copy]
    /\ req' = [Outdate(t, req[r].copy) EXCEPT ![r] = Serve(r)]
    /\ clobbered' = IF req[r].stale THEN clobbered \cup {t} ELSE clobbered
    /\ UNCHANGED <<expired, owner, granted>>

\* Its Save of all columns, and its result.
SaveToken(r, t) ==
    /\ req[r].pc = "save" /\ req[r].token = t
    /\ row' = [row EXCEPT ![t] = req[r].copy]
    /\ req' = [Outdate(t, req[r].copy) EXCEPT ![r] =
                 IF req[r].copy.revoked THEN Idle ELSE Serve(r)]
    /\ clobbered' = IF req[r].stale THEN clobbered \cup {t} ELSE clobbered
    /\ UNCHANGED <<expired, owner, granted>>

------------------------------------------------------------------------------
\* The queries

SeesAll(r) == req[r].user \in Admin \/ req[r].copy.read = Full

\* HasReadAccessTo.
List(u) == IF u.read = Full THEN {} ELSE u.read

\* An answer stays in the slot until the next request.
Answer(r, shown) ==
    /\ req' = [req EXCEPT ![r] = [Idle EXCEPT !.shown = shown]]
    /\ UNCHANGED <<row, expired, owner, granted, clobbered>>

Once(C) == [c \in Carrier |-> IF c \in C THEN 1 ELSE 0]

\* Mutant: the rights are those of the user's tokens as they are now.
GetCarrierOfRow(r, c) ==
    /\ req[r].pc = "query"
    /\ \/ SeesAll(r) \/ c \in Own(req[r].user)
       \/ \E t \in Token : Exists(t) /\ UserOf[t] = req[r].user /\ c \in List(row[t])
    /\ Answer(r, Once({c}))

\* getCarrier. For a carrier of nobody it panics unless everything may be seen
\* (it dereferences OwnerID before it looks at the token's list).
GetCarrier(r, c) ==
    /\ req[r].pc = "query"
    /\ \/ SeesAll(r)
       \/ owner[c] # None /\ (owner[c] = req[r].user \/ c \in List(req[r].copy))
    /\ Answer(r, Once({c}))

\* Its refusal, and the panic.
RefuseCarrier(r, c) ==
    /\ req[r].pc = "query"
    /\ ~SeesAll(r)
    /\ owner[c] = None \/ (owner[c] # req[r].user /\ c \notin List(req[r].copy))
    /\ req' = [req EXCEPT ![r] = Idle]
    /\ UNCHANGED <<row, expired, owner, granted, clobbered>>

\* getAllCarriers. The carriers of the user, or all.
ListCarriers(r) ==
    /\ req[r].pc = "query"
    /\ IF SeesAll(r) THEN Answer(r, Once(Carrier))
       ELSE /\ req' = [req EXCEPT ![r].pc = "more", ![r].shown = Once(Own(req[r].user))]
            /\ UNCHANGED <<row, expired, owner, granted, clobbered>>

\* It appends those of the token's list.
ListMore(r) ==
    /\ req[r].pc = "more"
    /\ Answer(r, [c \in Carrier |-> req[r].shown[c] + Once(List(req[r].copy))[c]])

\* A statement fails, or the process stops.
Fail(r) ==
    /\ ~Free(r)
    /\ req' = [req EXCEPT ![r] = Idle]
    /\ UNCHANGED <<row, expired, owner, granted, clobbered>>

Next ==
    \/ \E t \in Token :
          \/ RegisterAPIToken(t) \/ Expire(t)
          \/ \E u \in ApiToken : Administer(t, u)
    \/ \E c \in Carrier, u \in User \cup {None} : SetOwner(c, u)
    \/ \E r \in Request :
          \/ \E t \in Token :
                AuthenticateApiToken(r, t) \/ CheckTokenExpired(r, t) \/ SaveToken(r, t)
          \/ \E u \in User : Authorize(r, u)
          \/ \E c \in Carrier : GetCarrier(r, c) \/ RefuseCarrier(r, c)
          \/ ListCarriers(r) \/ ListMore(r) \/ Fail(r)

Spec == Init /\ [][Next]_vars

\* The database and the process may fail at a statement, but not whenever it
\* comes to that statement.
Fairness ==
    \A r \in Request, t \in Token :
        SF_vars(CheckTokenExpired(r, t)) /\ SF_vars(SaveToken(r, t))

FairSpec == Spec /\ Fairness

------------------------------------------------------------------------------

\* What an operator did to a token stands, but for the bit of a token that
\* expired; unless an outdated copy was saved over the row (token.go:93).
GrantsStand ==
    \A t \in Token \ clobbered :
        \/ row[t] = granted[t]
        \/ t \in expired /\ granted[t] # None /\ row[t] = [granted[t] EXCEPT !.revoked = TRUE]

\* A request that came after its token expired, or read it as revoked, gets
\* no further than checkTokenExpired, however other requests save the row.
NoneServedLate ==
    \A r \in Request :
        req[r].pc \in {"query", "more"} => ~req[r].late /\ ~req[r].copy.revoked

\* A carrier is shown to administrators, to users whose it was since they
\* were known, and for tokens that had the right to it when they were read.
ShownByRight ==
    [][\A r \in Request, c \in Carrier :
          req'[r].shown[c] > req[r].shown[c] =>
              SeesAll(r) \/ c \in req[r].owned \/ c \in List(req[r].copy)]_vars

\* Why these hold: the inductive invariant, in named parts. A copy that is
\* about to be saved is the row, or revokes it in time, unless it is outdated.
CopyCurrent(r) ==
    req[r].pc \in {"check", "save"} =>
        LET t == req[r].token
        IN /\ t \in Token /\ Exists(t) /\ req[r].user \in User
           /\ req[r].late => t \in expired /\ (req[r].pc = "save" => req[r].copy.revoked)
           /\ ~req[r].stale =>
                 \/ req[r].copy = row[t]
                 \/ /\ req[r].pc = "save" /\ t \in expired
                    /\ req[r].copy = [row[t] EXCEPT !.revoked = TRUE]

\* A query is by a user, whose carriers are known; the answer is empty so far.
QueryOwned(r) ==
    /\ req[r].pc \in {"query", "more"} =>
          req[r].user \in User /\ Own(req[r].user) \subseteq req[r].owned
    /\ req[r].pc \in {"check", "save", "query"} => req[r].shown = Nothing
    /\ req[r].pc = "more" => \A c \in Carrier : req[r].shown[c] <= 1

ApiInv ==
    /\ TypeOK
    /\ \A r \in Request : CopyCurrent(r) /\ QueryOwned(r)
    /\ GrantsStand
    /\ NoneServedLate

\* A token that has expired and is used again and again is revoked for good,
\* even if requests from before still save it as it was (token.go:90).
UsedExpiredIsRevoked ==
    \A t \in Token :
        (<>(t \in expired) /\ []<><<\E r \in Request : AuthenticateApiToken(r, t)>>_vars)
            => <>[](row[t] # None /\ row[t].revoked)
==============================================================================
