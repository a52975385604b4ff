# A verification project for Ruehrstaat-API

Ruehrstaat-API is the HTTP backend of the Ruehrstaat squadron (Elite Dangerous):
user accounts with two-factor authentication, sessions with rotating refresh
tokens, login by password, Discord, Fido2 and quick login, and a registry of
fleet carriers. It is a Go program (gin, gorm over PostgreSQL, Redis). This
directory holds TLA+ models of it, their model-checking configurations, and
proofs.

The repository has no tests and no documentation beyond a short README, so the
models come from the code, and what the program is said to do from its comments.

## How the program runs, and what is hard about it

* net/http runs every request in a goroutine of its own. No handler locks
  anything (`cache/locking.go` is never used), and the only transaction
  (`editUser`) holds a single statement. So requests interleave between any two
  SQL statements or Redis commands; one statement or command is atomic.
* A handler may end early at any of them: a database error is returned or
  panics, a panic is recovered by `main.go:106` (answer 500), the process may
  be stopped. Statements that were executed stay.
* gorm's `Save` writes **all** columns of the row that the handler read earlier.
* `cache.EndState`, which redeems a one-time state, is a GET and then a DEL.
  The results of SET and DEL are dropped.
* Go's `error` interface: a nil `*errors.RstError` that is assigned to a
  variable of type `error` makes it non-nil. Several functions do that.
* Nothing in the program waits for something else. There is no queue, no lock
  and no retry loop, so nearly all of its interesting properties are safety
  properties. One is not: an API token that expired is only revoked by being
  used (`auth/token.go:90`), and `ApiTokens` states the fairness it takes.

## Inventory

| Component | Code | State | Operations | Correct when |
|---|---|---|---|---|
| Sessions | `auth/authentication.go`, `generate.go`, `decode.go`, `api/auth/index.go` | table `refresh_tokens` | login, refresh, logout (one device, all devices) | a token is refreshed once; the rows of a token and its successor are never both active; revocations have a cause; accounts are kept apart |
| Quick login | `auth/quicklogin.go`, `api/auth/quicklogin.go` | three Redis keys per number, with expiries | request, verify, complete | the approval reaches the device it was given to, once |
| Two-factor | `api/users/totp.go`, `TryBackupCodes` | five columns of `users` | begin, renew, verify, disable, use a backup code | the columns fit together, no lockout, codes are spent once |
| Accounts | `auth/user.go`, `api/users/*.go`, `mailer` | `users`, its four columns for links | register, activate, reset the password, change the address, edit and ban | a stored link is of its account and purpose, a mailed one stands until a newer one; nobody gets around the activation; bans stand |
| One-time states | `cache/cache.go` | Redis keys | begin, end, has | a state serves one handler |
| Discord | `auth/discord`, `linking_discord.go`, `api/auth/index.go` | one-time states, two columns of `users` | begin, callback, unlink | who is linked proved himself for the account that asked |
| Fido2 | `auth/fido2.go`, `linking_fido2.go` | challenge states, table `fido2_logins` | begin, end, unlink | a key belongs to the account that registered it |
| Carriers | `entities/carrier.go`, `api/carrier` | table `carriers` | create, update, jump, docking access, services | market ids and callsigns unique, the location history right, services a set |
| Carrier queries | `api/carrier/getter.go` | none | get, list | a carrier is shown to those who have a right to it |
| API tokens | `auth/token.go`, `api/carrier/index.go` | table `api_tokens` | authenticate, expire, register | what an operator wrote to a token stands; an expired token serves nobody |
| Serialization, locale, logging | | none | | (wording; not modelled) |

They interact through the rows and keys they share: every way to log in ends in
the session component; TryBackupCodes is called by login and by four account
handlers; every account handler writes the two-factor columns and the ban,
because it writes them all. So the columns of `users` are spread over three
modules by what their properties are about (`TwoFactor`, `AccountLinks`,
`OneTimeStates`), and each has an action for the handlers of the others, which
save the whole row (`SaveOtherColumns`).

## Modules

| Module | What it is |
|---|---|
| `TokenLedger` | abstract: a refresh token has one status (unissued, pending, active, revoked, detached) that only moves forward, and a step concerns one account |
| `RefreshTokens` | the handlers over `refresh_tokens`, one action per SQL statement; implements `TokenLedger` |
| `QuickLogin` | the three keys of a six digit number, one action per Redis command, with expiry, lost commands and crashes |
| `TwoFactor` | one account row under concurrent whole-row Saves |
| `CarrierServices` | what the methods on a carrier's service list return |
| `CarrierServiceLoops` | the loops of these methods, one action per iteration |
| `CarrierFleet` | abstract: requests change carriers at once and whole; market ids and callsigns identify carriers |
| `Carriers` | the handlers that write `carriers`, one action per SQL statement; implements `CarrierFleet` |
| `AccountLinks` | accounts and the links mailed to them: registration, activation, password reset, mail change |
| `OneTimeStates` | the states in Redis, one action per command, and the Discord, Fido2 and one-time password flows between their two halves |
| `ApiTokens` | the middleware of the carrier API, one action per statement, and the queries behind it |
| `MC...` | the instances for TLC |
| `RefreshTokensProofs`, `QuickLoginProofs`, `TwoFactorProofs`, `AccountLinksProofs`, `OneTimeStatesProofs`, `ApiTokensProofs`, `CarrierServiceProofs`, `CarriersProofs` | theorems and proofs, of the module named and of the abstract one it implements |

Operators whose comment begins with *Mutant* are not part of a specification.
Each is a mapped definition with a plausible mistake in it; a run of its module
with the mistake in place violates the property it is listed with.

### RefreshTokens

`req[r]` is the handler that serves request `r`: `pc` names the SQL statement
it is about to execute, `user`, `tok` and `new` are its local variables.
`row[t]` is the row of token `t`. Tokens are numbered in the order they are
signed; their claims are `sub[t]` and `expired` (tokens `1 .. expired` are past
their `exp`; they expire in the order they are signed, as all live 30 days).
`held` are the tokens that reached a client, who may present any of them at any
time, as often as it likes and in several requests at once. An answer that is
not received (`Receive`) was lost.

| Action | Code |
|---|---|
| BeginLogin, LoginUpdate, LoginSign | `Login` (`authentication.go:28`) |
| BeginPair, Insert | `CreateTokenPairForUser` (68), from Discord and quick login |
| BeginRefresh, SelectRevoked / SelectAccepted, Rotate, Insert, Reuse | `Refresh` (135) and its handler |
| BeginLogout, LogoutDelete, LogoutAllDelete | `Logout` (114) and its handlers |
| Fail, Receive, Expire | an error or crash, the answer arrives, time passes |

`AsError` is the conversion of a `*RstError` to `error`; with it
`RefreshHandlerEnd` and `LogoutHandlerEnd` are what the handlers in
`api/auth/index.go` do with the result, including the panic on success.
Consequently successors of a refresh never reach a client in this model either;
tokens that are refreshed or logged out come from logins. A token is usable unless
its row is revoked: one without a row, as every login leaves, is accepted.
`RecordedRowsExclusive` is about rows in the table, and says nothing of those. `Expire` leaves out that a
token expires in the milliseconds between its signing and its INSERT.

### QuickLogin

`pending`, `session` and `verified` map a number to its key, with
`by`, the session whose request the key goes back to, and the units of 2.5 minutes
it has left. A key lives to the end of the unit it was written in and two units
more, four for the session key (`PendingTTL` 3, `SessionTTL` 5, `VerifiedTTL` 3). For
the session key `by` is the payload; for the other two it is a history variable.
`Tick` ages all keys at any moment: it waits for no handler, so a handler may read a
key that has expired by its next command. `lost` makes a SET or DEL fail, of which the
code takes no notice. Whoever completes sends any number and, independently, a
session id that was answered or a wrong one (0).

The expiries leave no slack: 5 minutes to verify and 5 to complete are the 10 of the
session key. A handler that verifies in time, but whose SET (`quicklogin.go:57`) comes
after the key it read (43) would have expired, writes an approval that outlives the session
key. `left`, a history variable, is how long the key it read would still have lived.

`disturbed` records the numbers for which two handlers of the same kind ran at a
time, a handler crashed or lost a command, or a key expired under a handler that had read it
and went on (`Overtaken`; a late approval is one). The properties hold for all other
numbers, however else requests interleave and however often the number is drawn again.
A `disturbed` number may indeed log a device in twice or, if it is drawn again, log in
the wrong device.

### TwoFactor

A handler reads the row, changes its copy and writes the whole copy back, up to
three times. As it does not read again, the images it will write are fixed when
it begins: `req[r].saves`. `EditUser` alone updates a single column. `Start`,
`Save` and `Fail` are the common life of all handlers; each handler's own
action says when it goes on and with which images. `removeTotp` (totp.go:198)
has no action: `First(user, id)` passes the UUID as a raw SQL condition, which
PostgreSQL rejects, so the handler always answers that the user does not exist.
ResetPassword would be another caller of TryBackupCodes, but refuses every token
before it gets there (see AccountLinks). Correct TOTP codes are
abstracted to `Totp`: whoever has the secret can always produce one.

### AccountLinks

As in TwoFactor a handler reads a row once, so what it is going to do is known
then: `req[r].todo` is the sequence of its writes (`insert`, `save`, `update`, with the image
they write), lookups (`select`) and mails. Each is one action, and `Fail` may
end a handler before any of them. Tokens are numbered in the order they are signed;
`issued[t]` are the claims of token t, and what it is about.

| Action | Code |
|---|---|
| Register, Insert, Select | `auth.Register` (`user.go:22`), and `adminCreateUser`, which looks up and saves what it finds |
| ResendActivation, RequestPasswordReset, RequestEmailChange | `self.go:57`, 90, 207 with the functions of `user.go` that they call |
| EditEmail, Update | `editUser` with an address (`edit.go:44`, 66) |
| FollowLink | `ActivateAccount`, `ResetPassword`, `ChangeEmail`, with `Accepts` for what they check |
| Save, Mail, Fail | a whole-row Save, `mailer.go`, an error or a crash |

`Accepts` contains the conversion of a nil `*RstError` to `error`. With it no link
is accepted, which the run links_refused shows; `Followed` is what would be saved.
`ActivationRequired` therefore says that only administrators' accounts are active.

### OneTimeStates

`begun` has the payloads in the order of the random keys, `cache` the states Redis
holds. `Get` and `Del` are the two commands of `EndState`; after them the handler
is in `act`, and the second half of its flow is one action, up to its Save. `Prove`
is what happens at Discord or with an authenticator: it leaves a proof that is good
for one state, since the verifier or the challenge is part of the payload
(`Proved`). Whoever has a state may end it: the callbacks have no session, and
FinishFido2Register does not compare its user with the payload. `contested` holds
the states whose DEL was lost, or which two handlers had got before either deleted
them; others serve one handler only.

`Save` and `SaveOtherColumns` are the whole-row Saves of `discord_id`. `outcome` is
what linking or unlinking last wrote, or nothing after a Save of an outdated copy by a handler that is about
other columns. Login by a Fido2 key has no effect: `endLoginFido2` assigns a
`*RstError` to an `error` and panics in every case.

### ApiTokens

`row[t]` is the row of an API token, with `revoked` and the right to read;
`expired` are the tokens past their ExpiresAt. A request authenticates in three steps
(`AuthenticateApiToken`, `CheckTokenExpired`, `SaveToken`; the time is read
between the SELECT and the Save), or by the session of an administrator
(`Authorize`), and then gets one carrier or all it may see. Nothing in the repository changes a token but
`SaveToken`: `Administer` stands for an operator with access to the database, who
does not take a revocation back. `SetOwner` is what the setters of `Carriers` do to owners. Whether a
user is an administrator is fixed.

`Fairness` is strong fairness of the two steps that end in the Save: a database
error or a stopped process may break off any request (`Fail`), but not each request
at this statement for ever. Weak fairness would not do, as each request is
broken off and another one begins. That requests come at all is a premise of the property, not an assumption.

### Carriers

`row[c]` is the row of carrier `c`, or `NoRow`. `req[r]` is the handler that
serves request `r`: the statement it is about to execute (`pc`: the INSERT, the
look for duplicates, the Save), the carrier, the copy it will write, which
columns it compares, and `stale`, a history variable: the row has changed since
it was read. `overwritten` says that the last write was of such a copy.

| Action | Code |
|---|---|
| Create, Insert | `createCarrier` (`setter.go:15`) |
| UpdateOverride, Update, Check, Save | PUT (93) and PATCH (199) |
| Jump, Cancel, DockingAccess, ActivateService, DeactivateService, Save | `connector.go` |
| Refuse | a duplicate, an invalid value, an error or a crash after the first statement |

Starting a handler is its first SELECT with its checks of the row and of the
caller (`MaySet`, and `MayConnect` for the connector, whose condition also lets
anyone write a carrier without an owner). The copy it will write is a function
of what it read, so it is computed at once. Columns that no condition depends on
have two representatives, `fuel` and `access`; category, notorious, cargo
and balances are written at the same places. Bodies are records that have some of the
columns. A request that is refused at its first statement has no action. A
SELECT that fails is taken for "not found" by the code, hence `fails`.

The refinement to `CarrierFleet` joins history and location to one route: a jump
appends to it, a cancel removes its end and does nothing if that is all there
is. Its steps are whole effects on the current carrier, except `Overwrite`, and
`overwritten` is TRUE after an Overwrite only; so `Carriers` may overwrite only
when it saves a copy that was no longer current.

`CarrierServiceLoops` has a smaller step: Go evaluates the slice of `range`
once, and `append(s[:i], s[i+1:]...)` moves elements in the array that the loop
goes on reading. `array` and `len` are that array and `len(c.Services)`.

## What is checked

All runs check for deadlock too.

| Run | Instance | Shows |
|---|---|---|
| tokens_two_accounts | 2 accounts, 2 requests, 2 tokens | `RecordedRowsExclusive`, `RevokedForCause`, `HeldIsSettled`, the inductive invariant `TokensInv`; `ImplementsLedger`, and what follows from it, `NeverRevalidated` and `OneAccountPerStep` |
| quick_login | 1 account, 2 numbers, 3 sessions, 3 requests, followed until a number is disturbed | `LoginForOwnApproval`, `OneLoginPerApproval`, `PromptApprovalFitsSession`, `PendingOrVerified`, the inductive invariant `QuickInv` |
| two_factor | 2 requests, 2 secrets, 2 batches of 2 codes | `ColumnsFit`, `VerifiedSecretProven`, `CodesOfSecret`, `CodesSpentOnce`, `BanStands`, the inductive invariants `TwoFactorInv` and `CopiesInv` |
| carrier_services | lists of 3 services, requests of up to 3 names (known or not, repeated) | the inductive invariant `LoopInv`, `NeverOutOfRange`, `RemoveExact`, `SetExact` |
| carriers | 2 carriers, 2 requests, 4 callers; bodies that compete for 2 market ids and 2 callsigns; 2 locations, 1 service | `ServicesDistinct`, `ImplementsFleet`, the inductive invariant `CarriersInv` |
| account_links | 2 accounts, 3 addresses, 2 requests, 2 tokens | `LinksBelong`, `MailedLinkStands`, `ActivationRequired`, the inductive invariant `LinksInv` |
| one_time_states | 2 accounts, 2 identities, 1 key name, 2 requests, 2 states | `RedeemedTwiceForCause`, `LinkedByOwner`, `KeysOfBeginner`, `LinkStands`, the inductive invariant `StatesInv` |
| api_tokens | 1 token, 1 carrier, a user and an administrator, 2 requests | `GrantsStand`, `NoneServedLate`, `ShownByRight`, the inductive invariant `ApiInv`; `UsedExpiredIsRevoked` under fairness |

The bounds, and why they are enough to see something: two requests make every
pairwise race. Request slots are reused, so behaviours are longer than the number of
slots suggests. Across two accounts two tokens show whether a statement touches a foreign one. Two tokens
do not let two racing refreshes both sign a successor: the instance of refresh_races does (three
tokens), and its run stops at that race. One account with three tokens was checked against
all properties too (329,000 states), and the theorems hold for every `MaxTokens`. For quick login
three sessions let the leftovers of one meet the next but one, three requests let a request, an
approval and a completion overlap, and of two numbers one can be drawn
again while the other is worked on; the account does not matter to any of its properties. A
behaviour is followed until a number is disturbed (`Undisturbed`), since nothing but types and who drew
it is claimed of that number then. One number with two sessions and two requests was also followed
beyond (1.4 million states), and the theorems have no such bound. Two secrets and two batches allow a secret to be
renewed, or set up again, while the old one is being verified; two codes in a
batch leave one behind when one is used. Request slots, accounts and code positions
are interchangeable, which the runs use as symmetry; token numbers, secrets and
batches are not. Carriers only meet in the unique columns; `MaxHistory`
bounds the histories that a jump still extends; the PATCH names a market id and no
callsign, so that the duplicates it looks for are only part of what the indexes refuse; the tokens that may write one
carrier each make the carriers interchangeable. One service is enough for the
row, as the lists are the subject of a run of their own. There, three services
let RemoveService meet its service first, in the middle and last.
Two mailed links are one that is replaced and the one that replaces it, and three
addresses leave one that no account has. Two states let the
proof for one be brought to the other, and two accounts and identities let it be
somebody else's. API tokens never meet (a request concerns one), nor do
carriers in a query, so one of each is enough for two racing requests.

### Where the code departs from its comments

| Run | Property | What happens |
|---|---|---|
| refresh_races | `AtMostOneSuccessor` | two refreshes of one token read its row before either revokes it; both insert a usable successor. `authentication.go:134` says the old token is no longer valid |
| refresh_never_answers | `RefreshAnswers` | a refresh whose statements all succeeded panics on a nil `*RstError` (`api/auth/index.go:217`), so the new pair is lost. Logout does the same after its DELETE |
| deleted_token_accepted | `DeletedNotAccepted` | a token deleted by a logout is looked up, not found and accepted (`authentication.go:143`), because the token of `Login` has no row either |
| links_refused | `LinksWork` | `decodeToken` returns a `*RstError` that is nil, and `ActivateAccount`, `ResetPassword` and `ChangeEmail` (`auth/user.go:99`, 159, 309) compare it as an `error` with nil: every link is refused. `user.go:90` says it activates the account |

The token of a login has no row for a refresh to revoke either (`authentication.go:60`, 156), so
after a refresh it stays usable beside its successor until it expires, against the comment
at `authentication.go:134`. It is the missing row of deleted_token_accepted once more, and
has no run of its own.

Observations for which no comment states the opposite, so that no run is listed:

* Sessions: a refresh in flight inserts its row after a logout of all devices
  deleted the others; rows whose tokens never reached a client stay for ever.
* Quick login: a wrong session id uses up the approval of the right device. A late
  approval (above) outlives its session key, and a device that draws the number before it has
  expired may be logged in with it.
* Accounts: a handler that read the row before an administrator's ban and saves
  it afterwards lifts the ban (`BanStands` excepts it); a second
  verification of TOTP replaces the backup codes the first one answered; the mail of
  an address change goes to the old address; `editUser` changes the address at
  once; the second Save of `requestEmailChange` would undo a link that was followed
  right after its mail, were links accepted.
* Discord: two linkings begun together replace each other's user, as the callback
  does not look whether one is linked by now.
* Fido2: `endFido2Link` panics after it stored the key, and `endLoginFido2` always;
  `FinishFido2Login` looks at `err` where ValidateLogin set `err2`.
* Carriers: names are not kept apart (PATCH and PUT never compare them, two POSTs may both look before
  either inserts, and the column has no unique index); PUT replaces
  every column but adds to the services; in PATCH the variable `token` is never
  nil, so everyone who may write a carrier may also change its owner; fuel and
  cargo are stored as given, although `db/entities/carrier.go:29` names a range.
* Queries: the middleware turns away every session that is not an
  administrator's, because the second result of `auth.Authorize` is IsAdmin; a
  carrier that is owned and listed is shown twice in a list; getCarrier of a carrier without an owner panics
  unless the caller may read all.

## What is proved

TLAPS proves every invariant, action property and refinement that a run checks,
for every value of the constants, from the assumptions the modules name: the
bounds are natural numbers and the sentinels are not members of the sets;
`ApiAssumption` says that administrators are users and an access token has one user,
`CarriersAssumption` which columns the bodies have (PUT may lack the history), that what the setters refuse is in
none, and that API tokens list carriers. The one exception is the liveness property.

Each proof has the same plan: an inductive invariant (`...Inv`, an invariant of
the run, so that TLC has seen it first), a lemma per action that it is kept, and
the properties as its consequences.

* `TokensInvariant`: `Spec => []TokensInv`, with corollaries `TypeCorrect`,
  `RecordedRowsAreExclusive`, `RevocationHasACause`, `HeldTokensAreSettled`.
  `RecordedRowsExclusive` is not inductive by itself: the INSERT makes a row
  active, and one must know that the token it replaced is not. `Agrees` says so
  (a handler before its INSERT has revoked its token, or another one did, and no
  statement makes a row active except that one INSERT), `NewIsPrivate` that no
  other handler inserts the same row, `SignedSoFar` that fresh tokens have left
  no trace, and `ParentsHeld` that the token being replaced is not itself about
  to be inserted, as it had reached a client.
* `TokensImplementLedger`: `Spec => ImplementsLedger`. Each statement maps to
  `Sign`, `Record`, `Drop`, `Revoke` or `Delete`, or leaves the statuses alone.
  The mapping depends on running handlers (a token is "pending" while one will
  insert its row), so `NewIsPrivate` is needed here too.
* `RowsNeverRevalidated` and `StatementsConcernOneAccount` are proved of the ledger's moves,
  from its types and no assumption; by the refinement the handlers inherit them.
* `QuickInvariant` of quick login, with `LoginsAreForOwnApproval`,
  `ApprovalsOpenOneLogin`, `PromptApprovalsFit` and `NeverPendingAndVerified`.
  It has three layers: types; `SessionsDrawn`, that keys and handlers are about sessions which
  drew their number; and an order of each number n that is not disturbed (`Ordered(n)` in the
  proofs). A step of a handler
  concerns one number, and all others stay ordered (`OthersOrdered`). For its own
  number the point is that an open approval has the session key it was given for
  (`Backed`), that nothing is left of a session which has logged in that could become an
  approval once more (`Spent`), and that
  no second handler of the same kind is under way (`Alone`). That the session key does not expire
  too early is arithmetic on `PendingTTL`, `SessionTTL` and `VerifiedTTL`: it outlives what is
  pending by two units; a handler that verifies has `left` > 0, or its number is disturbed, so
  the session key has three units left at least when the approval is written, and that lives three.
* `TwoFactorInvariant`, with `ColumnsAlwaysFit`, `VerifiedIsProven` and
  `CodesMatchSecret`. The invariant is about every image of the row, also those
  that handlers have yet to save: then a Save moves a good image into the row,
  whatever order the Saves come in. It needs `CodesIssued`, so that a new batch
  does not claim codes that are around already.
* `CopiesInvariant`, with `CodesAlwaysSpentOnce` and `BansAlwaysStand`: a copy that is
  not outdated would save the row's ban, and no code that was used. Both theorems except
  the Save of an outdated copy, which the code does not prevent.
* `LinksInvariant` of the accounts, with `LinksAlwaysBelong`, `MailedLinksStand` and
  `ActivationAlwaysRequired`. What a handler is going to do is known when it begins, so the
  invariant is about its plan (`todo`): every image in it is an account whose links are its own,
  and a mail is sent of a link that an earlier write of the plan stored. A handler that begins
  makes such a plan (a lemma for each), its steps only shorten it, signing a link
  leaves what is known of the earlier ones as it was, and the copy of a handler that is not
  outdated never takes a newer link out of the row (`PlanForward`).
* `StatesInvariant` of the one-time states, with `TwiceOnlyForCause`,
  `LinksAreOfOwner`, `KeysAreOfBeginner` and `LinksAlwaysStand`. Payloads and
  proofs are never changed, so what was linked or stored for a reason keeps its
  reason (`Grown`); what remains is that every copy of a row that
  will be saved was linked for a reason too (`RowsLinked`), and that a state that is not
  contested has one handler between its GET and its DEL, and none afterwards (`StatesExclusive`).
* `ApiInvariant` of the API tokens, with `GrantsAlwaysStand`, `NoneEverServedLate`
  and `CarriersShownByRight`. A copy about to be saved is the row, or the
  row revoked in time, unless it is outdated (`CopyCurrent`); that the user's carriers
  are known to be his when they are selected is `QueryOwned`.
* `ServiceLoopsInvariant`, with `RemoveNeverPanics`: RemoveService never slices
  out of range. A saved list has no duplicates, since SetServices only appends
  what `HasService` does not find; so the loop meets its service once, at some
  p, and what it reads afterwards is the old list moved down by one with its
  last element read twice. That element is the service only if p was the last
  place, and then the loop is over. `LoopInv` states these three situations. From it
  also `RemoveReturnsTheRest` and, as it says that the loop of SetServices has added the first
  i - 1 names, `SetReturnsAllNames`.
* `CarriersInvariant`, with `RowsTyped`, `NoServiceTwice` and the refinement,
  `CarriersImplementFleet`. `CopiesHaveCause` says that a copy which is not
  outdated is one request's effect on the row **as it is**. It is kept, because a Save
  that changes the row marks all other copies of it (`stale` is history: the code
  has no such mark), and an INSERT meets no copy of its row. Then each Save is a
  `Change`, or an `Overwrite` by a marked copy. That the sets of services come out
  right rests on `ServicesDistinct`: RemoveService removes one place of a list.

`SetServices` is recursive over the names of a request. The library's induction
theorems cannot be instantiated by the provers, but its fact that a set of naturals has a
least element can: `NatSetInduction` says that a set with 0 and every successor is all
of them, `AdditionsExist` that the recursive function exists, `AdditionsUnfold` what it
is. The two proof modules of the carriers both prove them, as neither extends the other.

Only model-checked: `UsedExpiredIsRevoked`, as liveness under fairness and `ENABLED`
are out of the prover's reach, and the four properties that the code violates, by their
counterexamples. The bounds (`MaxTokens`, `MaxSessions`, `MaxSecrets`, `MaxBatches`, `MaxStates`,
`MaxHistory`, `MaxNames`) remain constants of the theorems, which hold for every value of them.

## Not modelled

* HEAD /carrier/:id: it compares `updated_at`, which gorm takes before the UPDATE is
  executed, with a time the client chose. Nothing says which of its clocks that is.
* The checks inside a Fido2 login: their result reaches nobody.
* `AuthenticateInfra`, `NewLock`, `removeTotp`: never called, or without effect.
* Getters of users and services, serialization, locale, logging, SMTP and start-up:
  they change no state that another request reads.

## Plan

1. Consequences of the refinements: what the ledger and the fleet promise over several steps
   (a token's whole life, a carrier's route without overwrites), stated there and inherited.
2. A clock for HEAD /carrier/:id, if a reader of the API says what its clients send.
