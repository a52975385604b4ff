----------------------------- MODULE AccountLinks -----------------------------
(***************************************************************************)
(* Accounts and the links that are mailed to them: registration and its    *)
(* activation link, the reset of a password, the change of a mail address  *)
(* (auth/user.go and its handlers in api/users and api/auth/index.go).     *)
(*                                                                         *)
(* A link carries a signed token. The token is stored in a column of the   *)
(* account, then mailed; the link works while its token is in the column.  *)
(* As in TwoFactor a handler reads a row, changes its copy and Saves all   *)
(* columns. What a handler is yet to do is known when it reads the row:    *)
(* todo is that sequence of statements and mails, one action each.         *)
(*                                                                         *)
(* Only the columns that these handlers are about are here. Refused        *)
(* requests have no effect and no action. Tokens are numbered in the order *)
(* they are signed; they are followed before they expire.                  *)
(***************************************************************************)
EXTENDS Naturals, Sequences

CONSTANTS
    Account,    \* the ids of rows
    Email,      \* the addresses
    None,       \* no row, no address, no account
    Request,    \* slots for requests in flight
    MaxTokens   \* bound: how many links a behaviour signs

\* A row; activation, reset and change hold a token or 0.
User == [email : Email, newEmail : Email \cup {None}, activated : BOOLEAN,
         activation : 0 .. MaxTokens, reset : 0 .. MaxTokens, change : 0 .. MaxTokens]

ASSUME LinksAssumption ==
    /\ None \notin Account
    /\ None \notin Email
    /\ None \notin User
    /\ MaxTokens \in Nat

VARIABLES
    row,        \* account -> its row, or None
    req,        \* request -> what its handler still has to do
    issued,     \* the claims of the tokens signed so far
    mailed,     \* the tokens that were mailed
    clobbered,  \* history: accounts whose row an outdated copy was saved over
    adminMade   \* history: accounts that an administrator made as one

vars == <<row, req, issued, mailed, clobbered, adminMade>>

\* The kinds of links are named after their columns.
Kind == {"activation", "reset", "change"}

\* wanted: the address a change is about.
Link == [kind : Kind, account : Account, wanted : Email \cup {None}]

Ops == {"insert", "save", "update", "select", "mail"}

\* A mail has a token; the others have the image they write or look for.
Step == [op : Ops, image : User \cup {None}, token : 0 .. MaxTokens]

\* stale: the row has changed since the handler read it.
Local == [account : Account \cup {None}, todo : Seq(Step), stale : BOOLEAN]

Idle == [account |-> None, todo |-> <<>>, stale |-> FALSE]

Running(r) == req[r].todo # <<>>

Exists(a) == row[a] # None

\* The types of the rows, of the handlers' plans and of the histories.
TypeOK ==
    /\ row \in [Account -> User \cup {None}]
    /\ req \in [Request -> Local]
    /\ issued \in Seq(Link)
    /\ Len(issued) <= MaxTokens
    /\ mailed \subseteq DOMAIN issued
    /\ clobbered \subseteq Account
    /\ adminMade \subseteq Account

Init ==
    /\ row = [a \in Account |-> None]
    /\ req = [r \in Request |-> Idle]
    /\ issued = <<>>
    /\ mailed = {}
    /\ clobbered = {}
    /\ adminMade = {}

------------------------------------------------------------------------------
\* Plans of handlers

Write(op, u) == [op |-> op, image |-> u, token |-> 0]

MailOf(t) == [op |-> "mail", image |-> None, token |-> t]

\* The locals of a handler with this plan; one that ended has none.
Locals(a, plan, stale) ==
    IF plan = <<>> THEN Idle ELSE [account |-> a, todo |-> plan, stale |-> stale]

\* Handler r has read a row (of account a, if there is one) and passed its
\* checks; the plan is what it does from here on.
Start(r, a, plan) ==
    /\ ~Running(r)
    /\ req' = [req EXCEPT ![r] = Locals(a, plan, FALSE)]

\* Rows with an address: the column is unique.
With(email) == {a \in Account : Exists(a) /\ row[a].email = email}

\* The token that is signed next, and its claims.
NextToken == Len(issued) + 1

Sign(kind, a, wanted) ==
    /\ Len(issued) < MaxTokens
    /\ issued' = Append(issued, [kind |-> kind, account |-> a, wanted |-> wanted])

NewAccount(email, asAdmin) ==
    [email |-> email, newEmail |-> None, activated |-> asAdmin,
     activation |-> 0, reset |-> 0, change |-> 0]

\* register and adminCreateUser: the address is not taken. The second looks
\* the new row up by its address in the end, and saves it.
Register(r, email, asAdmin, byAdmin) ==
    /\ asAdmin => byAdmin
    /\ With(email) = {}
    /\ LET u == NewAccount(email, asAdmin)
       IN Start(r, None, IF byAdmin THEN <<Write("insert", u), Write("select", u)>>
                         ELSE <<Write("insert", u)>>)
    /\ UNCHANGED <<row, issued, mailed, clobbered, adminMade>>

\* Mutant: the mail is sent before the token is stored.
MailFirst(u) == <<MailOf(NextToken), Write("save", [u EXCEPT !.activation = NextToken])>>

\* GenerateActivationToken: the copy is saved with the token, then it is mailed.
ActivationPlan(u) == <<Write("save", [u EXCEPT !.activation = NextToken]), MailOf(NextToken)>>

\* resendUserActivation. The state it redeems names an account that was not
\* activated when somebody logged in to it.
ResendActivation(r, a) ==
    /\ Exists(a) /\ ~row[a].activated
    /\ Sign("activation", a, None)
    /\ Start(r, a, ActivationPlan(row[a]))
    /\ UNCHANGED <<row, mailed, clobbered, adminMade>>

\* requestPasswordReset finds the account by its address and asks no more.
RequestPasswordReset(r, a) ==
    /\ Exists(a)
    /\ Sign("reset", a, None)
    /\ Start(r, a, <<Write("save", [row[a] EXCEPT !.reset = NextToken]), MailOf(NextToken)>>)
    /\ UNCHANGED <<row, mailed, clobbered, adminMade>>

\* Mutant: the new address is assigned after GenerateEmailChangeToken, in
\* time for the second Save only.
RequestEmailChangeLate(r, a, email, code) ==
    LET u == [row[a] EXCEPT !.change = NextToken]
        v == [u EXCEPT !.newEmail = email]
    IN /\ Exists(a) /\ row[a].activated
       /\ email # row[a].email
       /\ Sign("change", a, email)
       /\ Start(r, a, (IF code THEN <<Write("save", row[a])>> ELSE <<>>)
                       \o <<Write("save", u), MailOf(NextToken), Write("save", v)>>)
       /\ UNCHANGED <<row, mailed, clobbered, adminMade>>

\* requestEmailChange, by somebody who could log in. TryBackupCodes saves the
\* copy if a backup code was given (code); the handler saves it once more
\* after the mail. The mail goes to the old address.
RequestEmailChange(r, a, email, code) ==
    LET u == [row[a] EXCEPT !.newEmail = email, !.change = NextToken]
    IN /\ Exists(a) /\ row[a].activated
       /\ email # row[a].email
       /\ Sign("change", a, email)
       /\ Start(r, a, (IF code THEN <<Write("save", row[a])>> ELSE <<>>)
                       \o <<Write("save", u), MailOf(NextToken), Write("save", u)>>)
       /\ UNCHANGED <<row, mailed, clobbered, adminMade>>

\* editUser with an address that no row has: the UPDATE writes that column.
EditEmail(r, a, email) ==
    /\ Exists(a)
    /\ email # row[a].email /\ With(email) = {}
    /\ Start(r, a, <<Write("update", [row[a] EXCEPT !.email = email])>>)
    /\ UNCHANGED <<row, issued, mailed, clobbered, adminMade>>

\* Handlers that save the row for the sake of other columns (setLocale,
\* ChangePassword, two-factor and Discord handlers), after a login.
SaveOtherColumns(r, a) ==
    /\ Exists(a) /\ row[a].activated
    /\ Start(r, a, <<Write("save", row[a])>>)
    /\ UNCHANGED <<row, issued, mailed, clobbered, adminMade>>

------------------------------------------------------------------------------
\* Following a link

\* decodeToken returns a *RstError, nil for a token of the server. It is
\* assigned to err, an error since url.QueryUnescape: see RefreshTokens.
NilError == <<>>
AsError(rst) == <<"*RstError", rst>>

\* The row after a link of this kind was followed.
Followed(u, kind) ==
    IF kind = "activation" THEN [u EXCEPT !.activated = TRUE, !.activation = 0]
    ELSE IF kind = "reset" THEN [u EXCEPT !.reset = 0]
    ELSE [u EXCEPT !.email = u.newEmail, !.newEmail = None, !.change = 0]

\* The column of a kind.
Column(u, kind) ==
    IF kind = "activation" THEN u.activation
    ELSE IF kind = "reset" THEN u.reset ELSE u.change

Current(t) ==
    LET a == issued[t].account IN Exists(a) /\ Column(row[a], issued[t].kind) = t

\* Whether ActivateAccount, ResetPassword and ChangeEmail accept a link.
Accepts(t) == AsError("nil") = NilError /\ Current(t)

\* They read the row and save it; a refusal, and the panic of ResetPassword
\* (err.Error() of a nil *RstError), change nothing.
FollowLink(r, t) ==
    LET a == issued[t].account
    IN /\ t \in mailed
       /\ ~Running(r)
       /\ IF Accepts(t) THEN Start(r, a, <<Write("save", Followed(row[a], issued[t].kind))>>)
          ELSE UNCHANGED req
       /\ UNCHANGED <<row, issued, mailed, clobbered, adminMade>>

------------------------------------------------------------------------------
\* The steps of the plans

Does(r, op) == Running(r) /\ Head(req[r].todo).op = op

Image(r) == Head(req[r].todo).image

\* What a handler q of account a has read is no longer what the row holds.
Outdate(q, a, u) ==
    [req[q] EXCEPT !.stale = @ \/ (Running(q) /\ req[q].account = a /\ u # row[a])]

\* Row a becomes u; handler r goes on with plan, and its copy is current.
Put(r, a, u, plan) ==
    /\ With(u.email) \subseteq {a}
    /\ row' = [row EXCEPT ![a] = u]
    /\ req' = [q \in Request |->
                 IF q = r THEN Locals(a, plan, req[r].stale) ELSE Outdate(q, a, u)]

\* Mutant: accounts are made active.
InsertActivated(r, a) ==
    /\ Does(r, "insert") /\ ~Exists(a)
    /\ Put(r, a, [Image(r) EXCEPT !.activated = TRUE], Tail(req[r].todo))
    /\ adminMade' = IF Image(r).activated THEN adminMade \cup {a} ELSE adminMade
    /\ UNCHANGED <<issued, mailed, clobbered>>

\* Register's INSERT. Unless an administrator was made, a token is signed
\* for the id of the new row.
Insert(r, a) ==
    /\ Does(r, "insert") /\ ~Exists(a)
    /\ IF Image(r).activated
       THEN /\ Put(r, a, Image(r), Tail(req[r].todo))
            /\ adminMade' = adminMade \cup {a}
            /\ UNCHANGED issued
       ELSE /\ Put(r, a, Image(r), ActivationPlan(Image(r)) \o Tail(req[r].todo))
            /\ Sign("activation", a, None)
            /\ UNCHANGED adminMade
    /\ UNCHANGED <<mailed, clobbered>>

\* gorm's Save.
Save(r) ==
    /\ Does(r, "save")
    /\ Put(r, req[r].account, Image(r), Tail(req[r].todo))
    /\ clobbered' = IF req[r].stale THEN clobbered \cup {req[r].account} ELSE clobbered
    /\ UNCHANGED <<issued, mailed, adminMade>>

\* The UPDATE of editUser.
Update(r) ==
    LET a == req[r].account
    IN /\ Does(r, "update")
       /\ Put(r, a, [row[a] EXCEPT !.email = Image(r).email], Tail(req[r].todo))
       /\ UNCHANGED <<issued, mailed, clobbered, adminMade>>

\* adminCreateUser reads the row that has the address now, and will save it.
Select(r) ==
    /\ Does(r, "select")
    /\ \E a \in With(Image(r).email) :
          req' = [req EXCEPT ![r] = Locals(a, <<Write("save", row[a])>>, FALSE)]
    /\ UNCHANGED <<row, issued, mailed, clobbered, adminMade>>

\* The mail is sent.
Mail(r) ==
    /\ Does(r, "mail")
    /\ mailed' = mailed \cup {Head(req[r].todo).token}
    /\ req' = [req EXCEPT ![r] = Locals(@.account, Tail(@.todo), @.stale)]
    /\ UNCHANGED <<row, issued, clobbered, adminMade>>

\* A mail cannot be sent, a statement fails (an address is taken meanwhile)
\* or the process stops.
Fail(r) ==
    /\ Running(r)
    /\ req' = [req EXCEPT ![r] = Idle]
    /\ UNCHANGED <<row, issued, mailed, clobbered, adminMade>>

Next ==
    \E r \in Request :
        \/ \E email \in Email, asAdmin, byAdmin \in BOOLEAN : Register(r, email, asAdmin, byAdmin)
        \/ \E a \in Account :
              \/ ResendActivation(r, a) \/ RequestPasswordReset(r, a) \/ SaveOtherColumns(r, a)
              \/ \E email \in Email, code \in BOOLEAN : RequestEmailChange(r, a, email, code)
              \/ \E email \in Email : EditEmail(r, a, email)
              \/ Insert(r, a)
        \/ \E t \in mailed : FollowLink(r, t)
        \/ Save(r) \/ Update(r) \/ Select(r) \/ Mail(r) \/ Fail(r)

Spec == Init /\ [][Next]_vars

------------------------------------------------------------------------------

\* Every image of account a: its row, and those that are about to replace it.
Images(a) ==
    ({row[a]} \ {None})
    \cup UNION {{req[r].todo[i].image : i \in {j \in DOMAIN req[r].todo : req[r].todo[j].op = "save"}} :
                  r \in {q \in Request : req[q].account = a}}

\* A link stored with an account is that account's, of its kind, and the
\* address that waits in NewEmail is the one the change link was asked for,
\* in every order of Saves: nobody confirms another address (user.go:292).
Belongs(a, u) ==
    /\ \A kind \in Kind : Column(u, kind) # 0 =>
          LET t == Column(u, kind)
          IN t \in DOMAIN issued /\ issued[t].kind = kind /\ issued[t].account = a
    /\ u.newEmail = IF u.change = 0 THEN None ELSE issued[u.change].wanted

LinksBelong == \A a \in Account : \A u \in Images(a) : Belongs(a, u)

\* The column of token t has it or a newer one.
StoredIn(u, t) == Column(u, issued[t].kind) >= t

\* A link that was mailed is the one in its column, until a newer one is;
\* unless an outdated copy was saved over the row (user.go:77 before 81).
MailedLinkStands ==
    \A t \in mailed :
        LET a == issued[t].account
        IN a \notin clobbered => StoredIn(row[a], t)

\* An account that can log in was made by an administrator, as one, or its
\* activation link was followed; no Save gets around that (user.go:50).
\* (See LinksWork: no link has ever activated an account.)
ActivationRequired ==
    \A a \in Account : \A u \in Images(a) : u.activated => a \in adminMade

\* Why these hold: the inductive invariant, in named parts. Tokens only grow
\* from u to v.
Precedes(u, v) == \A kind \in Kind : Column(u, kind) <= Column(v, kind)

OpAt(r, i) == req[r].todo[i].op
ImageAt(r, i) == req[r].todo[i].image
TokenAt(r, i) == req[r].todo[i].token

\* A handler that writes or mails has an account, whose row exists; one that
\* inserts has none, and does nothing else unless it looks the row up.
PlanShape(r) ==
    \A i \in DOMAIN req[r].todo :
        /\ OpAt(r, i) # "mail" => ImageAt(r, i) \in User
        /\ OpAt(r, i) \in {"save", "update", "mail"} =>
              req[r].account \in Account /\ Exists(req[r].account)
        /\ OpAt(r, i) = "insert" =>
              /\ i = 1 /\ Len(req[r].todo) <= 2
              /\ \A j \in DOMAIN req[r].todo : j > 1 => OpAt(r, j) = "select"
              /\ ImageAt(r, i) = NewAccount(ImageAt(r, i).email, ImageAt(r, i).activated)

\* Images of a handler whose copy is current have the tokens of the row, or
\* newer ones, and later images those of earlier ones.
PlanForward(r) ==
    \A i \in DOMAIN req[r].todo : OpAt(r, i) = "save" =>
        /\ ~req[r].stale => Precedes(row[req[r].account], ImageAt(r, i))
        /\ \A j \in DOMAIN req[r].todo :
              i < j /\ OpAt(r, j) = "save" => Precedes(ImageAt(r, i), ImageAt(r, j))

\* Before a token is mailed it is saved, or it was.
PlanStores(r) ==
    \A i \in DOMAIN req[r].todo : OpAt(r, i) = "mail" =>
        /\ TokenAt(r, i) \in DOMAIN issued
        /\ issued[TokenAt(r, i)].account = req[r].account
        /\ \/ req[r].account \in clobbered
           \/ StoredIn(row[req[r].account], TokenAt(r, i))
           \/ \E j \in 1 .. (i - 1) : OpAt(r, j) = "save" /\ StoredIn(ImageAt(r, j), TokenAt(r, i))

LinksInv ==
    /\ TypeOK
    /\ \A r \in Request : PlanShape(r) /\ PlanForward(r) /\ PlanStores(r)
    /\ \A t \in DOMAIN issued : Exists(issued[t].account)
    /\ LinksBelong
    /\ MailedLinkStands
    /\ ActivationRequired

\* "Activates the account with the given user ID and token. If the token is
\* invalid, an error is returned" (user.go:90): a current link is not refused.
LinksWork == \A t \in mailed : Current(t) => Accepts(t)
==============================================================================
