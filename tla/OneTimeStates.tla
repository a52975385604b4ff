---------------------------- MODULE OneTimeStates -----------------------------
(***************************************************************************)
(* One-time states (cache/cache.go) and the flows that are held together   *)
(* by them: login with and linking of a Discord user (api/auth/index.go,   *)
(* api/users/linking_discord.go, auth/discord), registration of and login  *)
(* with a FIDO2 key (auth/fido2.go, api/users/linking_fido2.go), the       *)
(* second step of a login with a one-time password, and the repeated       *)
(* activation mail.                                                        *)
(*                                                                         *)
(* A flow begins with SET of a payload under a random key, which the       *)
(* client gets, and goes on with GET and DEL of that key. The result of    *)
(* SET and of DEL is not looked at, so each may be lost. Between the two   *)
(* halves somebody proves who he is, at Discord or with a key; the proof   *)
(* is bound to the state by a verifier or a challenge in the payload.      *)
(*                                                                         *)
(* Random keys are numbered in the order they are made. Accounts have the  *)
(* columns of these flows only. Refused requests have no action.           *)
(***************************************************************************)
EXTENDS Naturals, Sequences

CONSTANTS
    Account,    \* the accounts
    Name,       \* display names of FIDO2 keys
    Identity,   \* Discord users, and FIDO2 credentials
    None,       \* no account, no name, no identity, no payload
    Request,    \* slots for requests in flight
    MaxStates   \* bound: how many states a behaviour begins

ASSUME StatesAssumption ==
    /\ None \notin Account \cup Name \cup Identity
    /\ MaxStates \in Nat

VARIABLES
    begun,      \* the payloads of the states, as they were begun
    cache,      \* the states that Redis holds
    proofs,     \* who proved himself for which state
    discord,    \* account -> the Discord user in its row, or None
    keys,       \* the rows of FIDO2 keys
    req,        \* request -> the locals of its handler
    redeemed,   \* history: the states that a handler went on with,
    twice,      \*          those that more than one did,
    contested,  \*          those whose DEL was lost, or came after another GET
    outcome     \* history: account -> what linking or unlinking last wrote, a
                \* singleton; {} when an outdated copy was saved since then

states == <<begun, cache>>
histories == <<redeemed, twice, contested>>
rows == <<discord, outcome>>
vars == <<states, proofs, rows, keys, req, histories>>

State == 1 .. MaxStates

Category == {"resend_activate", "login_otp", "user_discord_login", "user_discord_link",
             "fido2_register", "fido2_login"}

Payload == [category : Category, account : Account \cup {None}, name : Name \cup {None}]

Proof == [state : State, identity : Identity]

Key == [account : Account, name : Name, credential : Identity]

\* account, image: the row that will be saved, and the Discord user in the
\* copy. links: the handler is about that column. stale: as in TwoFactor.
Local == [pc : {"idle", "del", "act", "save"}, state : State \cup {0},
          account : Account \cup {None}, image : Identity \cup {None},
          links : BOOLEAN, stale : BOOLEAN]

Idle == [pc |-> "idle", state |-> 0, account |-> None, image |-> None,
         links |-> FALSE, stale |-> FALSE]

\* The types of the database, of Redis, of the locals and of the histories.
TypeOK ==
    /\ begun \in Seq(Payload) /\ Len(begun) <= MaxStates
    /\ cache \subseteq DOMAIN begun
    /\ proofs \subseteq Proof
    /\ discord \in [Account -> Identity \cup {None}]
    /\ keys \subseteq Key
    /\ req \in [Request -> Local]
    /\ redeemed \subseteq State /\ twice \subseteq State /\ contested \subseteq State
    /\ outcome \in [Account -> SUBSET (Identity \cup {None})]

Init ==
    /\ begun = <<>> /\ cache = {}
    /\ proofs = {} /\ keys = {}
    /\ discord = [a \in Account |-> None] /\ outcome = [a \in Account |-> {None}]
    /\ req = [r \in Request |-> Idle]
    /\ redeemed = {} /\ twice = {} /\ contested = {}

------------------------------------------------------------------------------
\* cache.go

Pay(category, a, name) == [category |-> category, account |-> a, name |-> name]

\* BeginState. The client is given the key even if SET failed.
BeginState(payload, lost) ==
    /\ Len(begun) < MaxStates
    /\ begun' = Append(begun, payload)
    /\ cache' = IF lost THEN cache ELSE cache \cup {Len(begun) + 1}

\* The time of a state is over.
Expire(s) ==
    /\ s \in cache
    /\ cache' = cache \ {s}
    /\ UNCHANGED <<begun, proofs, rows, keys, req, histories>>

\* EndState, up to GET: the category is part of the key. Another handler may
\* have got the same state, and not deleted it yet.
Get(r, s) ==
    /\ req[r] = Idle
    /\ s \in cache
    /\ req' = [req EXCEPT ![r].pc = "del", ![r].state = s]
    /\ contested' = IF \E q \in Request : req[q].pc = "del" /\ req[q].state = s
                    THEN contested \cup {s} ELSE contested
    /\ UNCHANGED <<states, proofs, rows, keys, redeemed, twice>>

Took(s) ==
    /\ redeemed' = redeemed \cup {s}
    /\ twice' = IF s \in redeemed THEN twice \cup {s} ELSE twice

\* Mutant: a state is left to its time.
DelNever(r, lost) ==
    LET s == req[r].state
    IN /\ req[r].pc = "del"
       /\ Took(s)
       /\ contested' = IF lost THEN contested \cup {s} ELSE contested
       /\ req' = [req EXCEPT ![r].pc = "act"]
       /\ UNCHANGED <<states, proofs, rows, keys>>

\* EndState's DEL. Whatever becomes of it, the handler goes on.
Del(r, lost) ==
    LET s == req[r].state
    IN /\ req[r].pc = "del"
       /\ Took(s)
       /\ cache' = IF lost THEN cache ELSE cache \ {s}
       /\ contested' = IF lost THEN contested \cup {s} ELSE contested
       /\ req' = [req EXCEPT ![r].pc = "act"]
       /\ UNCHANGED <<begun, proofs, rows, keys>>

------------------------------------------------------------------------------
\* First halves

Begin(payload, lost) ==
    /\ BeginState(payload, lost)
    /\ UNCHANGED <<proofs, rows, keys, req, histories>>

\* login, of an account that is not activated or without its one-time password.
\* Whom that is about makes no difference here.
Login(category, lost) ==
    /\ category \in {"resend_activate", "login_otp"}
    /\ Begin(Pay(category, None, None), lost)

BeginDiscordLogin(lost) == Begin(Pay("user_discord_login", None, None), lost)

BeginFido2Login(lost) == Begin(Pay("fido2_login", None, None), lost)

\* beginDiscordLink, by account a: it has no Discord user yet.
BeginDiscordLink(a, lost) ==
    /\ discord[a] = None
    /\ Begin(Pay("user_discord_link", a, None), lost)

\* BeginFido2Register, by account a.
BeginFido2Register(a, name, lost) == Begin(Pay("fido2_register", a, name), lost)

\* Somebody proves who he is in the flow of state s: he gets a code from
\* Discord, or signs the challenge with a key.
Prove(s, i) ==
    /\ s \in DOMAIN begun
    /\ begun[s].category \in {"user_discord_login", "user_discord_link", "fido2_register"}
    /\ proofs' = proofs \cup {[state |-> s, identity |-> i]}
    /\ UNCHANGED <<states, rows, keys, req, histories>>

------------------------------------------------------------------------------
\* Second halves: what a handler does with a state it has ended

Acting(r, category) == req[r].pc = "act" /\ begun[req[r].state].category = category

Payer(r) == begun[req[r].state].account

\* Mutant: the verifier of the state is not sent.
ProvedAnywhere(r, i) == \E p \in proofs : p.identity = i

\* The code or the signature that comes with the state was made for it:
\* RetrieveOAuthUser sends the verifier, CreateCredential has the challenge.
Proved(r, i) == [state |-> req[r].state, identity |-> i] \in proofs

\* The row of a is read, and will be saved with this Discord user.
Read(r, a, image, links) ==
    req' = [req EXCEPT ![r] = [Idle EXCEPT !.pc = "save", !.account = a, !.image = image,
                                           !.links = links]]

\* discordLinkCallback reads the account of the payload, then asks Discord,
\* then saves the row: it does not look whether another user is linked by now.
LinkDiscord(r, i) ==
    /\ Acting(r, "user_discord_link")
    /\ Proved(r, i)
    /\ Read(r, Payer(r), i, TRUE)
    /\ UNCHANGED <<states, proofs, rows, keys, histories>>

\* The handler ends, and changes nothing of this module.
Finish(r) ==
    /\ req' = [req EXCEPT ![r] = Idle]
    /\ UNCHANGED <<states, proofs, rows, keys, histories>>

\* discordLoginCallback: the account that has the Discord user gets tokens.
LoginDiscord(r, i, a) ==
    /\ Acting(r, "user_discord_login")
    /\ Proved(r, i)
    /\ discord[a] = i
    /\ Finish(r)

\* Mutant: the key becomes that of whoever ends the registration.
StoreForCaller(r, i) ==
    \E a \in Account :
        LET key == [account |-> a, name |-> begun[req[r].state].name, credential |-> i]
        IN /\ Acting(r, "fido2_register")
           /\ Proved(r, i)
           /\ \A k \in keys : k.name = key.name => k.account = key.account
           /\ keys' = {k \in keys : k.name # key.name} \cup {key}
           /\ req' = [req EXCEPT ![r] = Idle]
           /\ UNCHANGED <<states, proofs, rows, histories>>

\* FinishFido2Register saves the key of the account that began, whoever ends:
\* the one of that name is replaced; the name is unique. (endFido2Link panics
\* after that: see NilError in RefreshTokens.)
StoreKey(r, i) ==
    LET key == [account |-> Payer(r), name |-> begun[req[r].state].name, credential |-> i]
    IN /\ Acting(r, "fido2_register")
       /\ Proved(r, i)
       /\ \A k \in keys : k.name = key.name => k.account = key.account
       /\ keys' = {k \in keys : k.name # key.name} \cup {key}
       /\ req' = [req EXCEPT ![r] = Idle]
       /\ UNCHANGED <<states, proofs, rows, histories>>

\* loginTotp with a wrong code, or by now of an account that is not activated:
\* another state.
TryAgain(r, category, lost) ==
    /\ Acting(r, "login_otp")
    /\ category \in {"login_otp", "resend_activate"}
    /\ BeginState(Pay(category, None, None), lost)
    /\ req' = [req EXCEPT ![r] = Idle]
    /\ UNCHANGED <<proofs, rows, keys, histories>>

\* loginTotp with a good code (see TwoFactor), or one that is too short, which
\* makes Login panic.
LoginTotp(r) == Acting(r, "login_otp") /\ Finish(r)

\* resendUserActivation: the mail is that of AccountLinks.
ResendActivation(r) == Acting(r, "resend_activate") /\ Finish(r)

\* endLoginFido2 panics whatever FinishFido2Login returns: see NilError in
\* RefreshTokens.
FinishFido2Login(r) == Acting(r, "fido2_login") /\ Finish(r)

\* The flow is refused, a call fails or the process stops.
Fail(r) == req[r] # Idle /\ Finish(r)

------------------------------------------------------------------------------
\* Rows

\* unlinkDiscord, by account a.
Unlink(r, a) ==
    /\ req[r] = Idle
    /\ discord[a] # None
    /\ Read(r, a, None, TRUE)
    /\ UNCHANGED <<states, proofs, rows, keys, histories>>

\* A handler that saves the row for the sake of other columns.
SaveOtherColumns(r, a) ==
    /\ req[r] = Idle
    /\ Read(r, a, discord[a], FALSE)
    /\ UNCHANGED <<states, proofs, rows, keys, histories>>

\* Row a has Discord user u now; other copies of it may be outdated.
Put(r, a, u) ==
    /\ \A b \in Account : b # a /\ discord[b] = u => u = None
    /\ discord' = [discord EXCEPT ![a] = u]
    /\ req' = [q \in Request |->
                 IF q = r THEN Idle
                 ELSE [req[q] EXCEPT !.stale = @ \/ (req[q].account = a /\ u # discord[a])]]

\* What becomes of the outcome when handler r saves.
Record(r) ==
    outcome' = [outcome EXCEPT ![req[r].account] =
                  IF req[r].links THEN {req[r].image} ELSE IF req[r].stale THEN {} ELSE @]

\* Mutant: gorm's Updates, which leaves out what is nil.
SaveNonZero(r) ==
    LET a == req[r].account
    IN /\ req[r].pc = "save"
       /\ Put(r, a, IF req[r].image = None THEN discord[a] ELSE req[r].image)
       /\ Record(r)
       /\ UNCHANGED <<states, proofs, keys, histories>>

\* gorm's Save of all columns; discord_id is unique.
Save(r) ==
    /\ req[r].pc = "save"
    /\ Put(r, req[r].account, req[r].image)
    /\ Record(r)
    /\ UNCHANGED <<states, proofs, keys, histories>>

\* unlinkFido2.
DeleteFido2Login(a, name) ==
    /\ keys' = {k \in keys : ~(k.account = a /\ k.name = name)}
    /\ UNCHANGED <<states, proofs, rows, req, histories>>

Next ==
    \/ \E lost \in BOOLEAN :
          \/ \E category \in Category :
                Login(category, lost) \/ \E r \in Request : TryAgain(r, category, lost)
          \/ BeginDiscordLogin(lost) \/ BeginFido2Login(lost)
          \/ \E a \in Account :
                BeginDiscordLink(a, lost) \/ \E name \in Name : BeginFido2Register(a, name, lost)
          \/ \E r \in Request : Del(r, lost)
    \/ \E s \in State :
          Expire(s) \/ (\E i \in Identity : Prove(s, i)) \/ (\E r \in Request : Get(r, s))
    \/ \E r \in Request :
          \/ \E i \in Identity :
                \/ LinkDiscord(r, i) \/ StoreKey(r, i)
                \/ \E a \in Account : LoginDiscord(r, i, a)
          \/ \E a \in Account : Unlink(r, a) \/ SaveOtherColumns(r, a)
          \/ LoginTotp(r) \/ ResendActivation(r) \/ FinishFido2Login(r) \/ Fail(r)
          \/ Save(r)
    \/ \E a \in Account, name \in Name : DeleteFido2Login(a, name)

Spec == Init /\ [][Next]_vars

------------------------------------------------------------------------------

\* A state serves two handlers only if Redis lost the DEL of one, or both sent
\* GET before either sent DEL (cache.go:63).
RedeemedTwiceForCause == twice \subseteq contested

\* Identity i proved himself in a linking that account a began.
LinkedBy(a, i) ==
    \E p \in proofs : p.identity = i /\ begun[p.state] = Pay("user_discord_link", a, None)

\* A Discord user who can log in to an account proved himself in a linking that
\* the account itself began, whatever copies of rows were saved since then and
\* whoever ended the flow (linking_discord.go:75, index.go:317).
LinkedByOwner == \A a \in Account : discord[a] # None => LinkedBy(a, discord[a])

\* A key that is stored with an account was proved in a registration which that
\* account began under that name (fido2.go:65).
KeysOfBeginner ==
    \A k \in keys : \E p \in proofs :
        p.identity = k.credential /\ begun[p.state] = Pay("fido2_register", k.account, k.name)

\* What a linking or an unlinking wrote stands, unless a handler that is about
\* other columns saved an outdated copy of the row (linking_discord.go:86).
LinkStands == \A a \in Account : outcome[a] \subseteq {discord[a]}

\* Why these hold: the inductive invariant, in named parts. Handlers between
\* GET and DEL of one state are all but alone, and not after its DEL.
Holding(r, s) == req[r].pc = "del" /\ req[r].state = s

StatesExclusive ==
    \A s \in DOMAIN begun \ contested :
        /\ s \in redeemed => s \notin cache /\ \A r \in Request : ~Holding(r, s)
        /\ \A r, q \in Request : Holding(r, s) /\ Holding(q, s) => r = q

\* A copy that will be saved has a Discord user of the account, and the one of
\* its row unless it is outdated.
RowsLinked ==
    \A r \in Request : req[r].pc = "save" =>
        /\ req[r].account \in Account
        /\ req[r].image # None => LinkedBy(req[r].account, req[r].image)
        /\ ~req[r].links /\ ~req[r].stale => req[r].image = discord[req[r].account]

\* What a state says of the handler, and of who began it, is known.
StatesBegun ==
    /\ \A r \in Request : req[r].pc \in {"del", "act"} => req[r].state \in DOMAIN begun
    /\ \A p \in proofs : p.state \in DOMAIN begun
    /\ redeemed \cup contested \subseteq DOMAIN begun
    /\ \A s \in DOMAIN begun :
          /\ begun[s].category = "user_discord_link" =>
                \E a \in Account : begun[s] = Pay("user_discord_link", a, None)
          /\ begun[s].category = "fido2_register" =>
                \E a \in Account, name \in Name : begun[s] = Pay("fido2_register", a, name)

\* Inductive with the four properties above.
StatesInv == TypeOK /\ StatesBegun /\ StatesExclusive /\ RowsLinked
==============================================================================
