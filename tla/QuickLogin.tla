------------------------------ MODULE QuickLogin ------------------------------
(***************************************************************************)
(* Quick login: a new device requests a six digit number, the user enters  *)
(* it on a device where they are logged in, and the new device trades it   *)
(* for tokens. auth/quicklogin.go, api/auth/quicklogin.go, cache/cache.go. *)
(*                                                                         *)
(* The three Redis keys of a number are                                    *)
(*   pending    state:quick_login:<number>           may be verified       *)
(*   session    state:quick_login_session:<number>   who requested it      *)
(*   verified   state:quick_login_verified:<number>  who approved it       *)
(* An action is one Redis command (or SQL statement) with the local code   *)
(* around it; EndState is a GET and then a DEL, so other requests run in   *)
(* between. SET and DEL drop their result: either may be lost.             *)
(*                                                                         *)
(* Time is counted in units of 2.5 minutes, which may pass (Tick) between  *)
(* any two commands of a handler, however long it stalls.                  *)
(***************************************************************************)
EXTENDS Naturals

CONSTANTS
    User,           \* the accounts
    NoUser,         \* "no account"
    Number,         \* the six digit numbers
    NoNumber,       \* "no number"
    Request,        \* slots for requests in flight
    MaxSessions     \* bound: how many numbers are requested in a behaviour

ASSUME QuickLoginAssumption ==
    NoUser \notin User /\ NoNumber \notin Number /\ MaxSessions \in Nat

VARIABLES
    issued,     \* session ids 1 .. issued have been generated
    drawn,      \* session id -> the number drawn for it, or NoNumber
    shown,      \* the session ids that were answered, with their number
    pending,    \* number -> the pending key
    session,    \* number -> the session key
    verified,   \* number -> the verified key
    req,        \* request -> the locals of its handler
    logins,     \* history: session id -> logins completed on its approval (2: or more)
    disturbed   \* history: the numbers whose handlers did not run as meant (below)

\* A number is disturbed when two handlers of a kind worked on it at a time,
\* when a handler of it crashed or had a command lost, and when a key expired
\* (Tick) under a handler that had read it and still went on.

vars == <<issued, drawn, shown, pending, session, verified, req, logins, disturbed>>

Session == 1 .. MaxSessions

\* time.Minute*5, time.Minute*10 and time.Minute*5: a key lives to the end of
\* the unit it was written in, and two, four and two more.
PendingTTL == 3

\* Mutant: the session key expires with the pending key.
SessionTTLShort == 3
SessionTTL == 5

VerifiedTTL == 3

\* "by" in a pending or verified key is history: whose request wrote the
\* pending key that led to it. The payloads are the constant "pending", the
\* session id (sid) and the account (user).
NoKey == [ttl |-> 0, by |-> 0, user |-> NoUser]

Live(key) == key.ttl > 0

\* "left" is history too: how long the pending key that a verifying handler
\* read would still have lived.
Idle == [pc |-> "idle", num |-> NoNumber, sid |-> 0, user |-> NoUser,
         by |-> 0, left |-> 0, stored |-> 0]

Running(r) == req[r].pc # "idle"

\* The types of the keys, of the locals of the handlers and of the histories:
\* no session is logged in more than twice.
TypeOK ==
    /\ issued \in 0 .. MaxSessions
    /\ drawn \in [Session -> Number \cup {NoNumber}]
    /\ shown \subseteq Session
    /\ \A keys \in {pending, session, verified} :
          keys \in [Number -> [ttl : 0 .. SessionTTL, by : 0 .. MaxSessions,
                               user : User \cup {NoUser}]]
    /\ req \in [Request ->
          [pc : {"idle", "setPending", "setSession", "delPending", "setVerified",
                 "delVerified", "getSession", "delSession", "login"},
           num : Number \cup {NoNumber}, sid : 0 .. MaxSessions,
           user : User \cup {NoUser}, by : 0 .. MaxSessions, left : 0 .. PendingTTL,
           stored : 0 .. MaxSessions]]
    /\ logins \in [Session -> 0 .. 2]
    /\ disturbed \subseteq Number

Init ==
    /\ issued = 0
    /\ drawn = [s \in Session |-> NoNumber]
    /\ shown = {}
    /\ pending = [n \in Number |-> NoKey]
    /\ session = [n \in Number |-> NoKey]
    /\ verified = [n \in Number |-> NoKey]
    /\ req = [r \in Request |-> Idle]
    /\ logins = [s \in Session |-> 0]
    /\ disturbed = {}

------------------------------------------------------------------------------

Goto(r, pc) == req' = [req EXCEPT ![r].pc = pc]

End(r) == req' = [req EXCEPT ![r] = Idle]

Requesting == {"setPending", "setSession"}
Verifying == {"delPending", "setVerified"}
Completing == {"delVerified", "getSession", "delSession", "login"}

At(r, n, kind) == req[r].num = n /\ req[r].pc \in kind

\* A handler starts to work on number n while another of its kind does.
Overlap(n, kind) ==
    IF \E q \in Request : At(q, n, kind) THEN {n} ELSE {}

\* Request r writes (SET) or removes (DEL) a key of its number; "lost" is a
\* command that failed, of which the code takes no notice.
Write(r, keys, key, lost) ==
    IF lost THEN keys ELSE [keys EXCEPT ![req[r].num] = key]

Noticed(r, lost) == disturbed' = IF lost THEN disturbed \cup {req[r].num} ELSE disturbed

------------------------------------------------------------------------------
\* RequestQuickLoginToken. HasState found no session for n; a handler that
\* draws taken numbers only, eleven times, gives up without any effect.

BeginRequest(r, n) ==
    /\ req[r].pc = "idle"
    /\ issued < MaxSessions
    /\ ~Live(session[n])
    /\ issued' = issued + 1
    /\ drawn' = [drawn EXCEPT ![issued + 1] = n]
    /\ req' = [req EXCEPT ![r] = [Idle EXCEPT !.pc = "setPending", !.num = n, !.sid = issued + 1]]
    /\ disturbed' = disturbed \cup Overlap(n, Requesting)
    /\ UNCHANGED <<shown, pending, session, verified, logins>>

SetPending(r, lost) ==
    /\ req[r].pc = "setPending"
    /\ pending' = Write(r, pending, [NoKey EXCEPT !.ttl = PendingTTL, !.by = req[r].sid], lost)
    /\ Noticed(r, lost)
    /\ Goto(r, "setSession")
    /\ UNCHANGED <<issued, drawn, shown, session, verified, logins>>

\* ... and the number and the session id are answered.
SetSession(r, lost) ==
    /\ req[r].pc = "setSession"
    /\ session' = Write(r, session, [NoKey EXCEPT !.ttl = SessionTTL, !.by = req[r].sid], lost)
    /\ Noticed(r, lost)
    /\ shown' = shown \cup {req[r].sid}
    /\ End(r)
    /\ UNCHANGED <<issued, drawn, pending, verified, logins>>

------------------------------------------------------------------------------
\* VerifyQuickLoginToken, for a user who enters some number.

\* GET the pending key; without one the handler is refused.
BeginVerify(r, u, n) ==
    /\ req[r].pc = "idle"
    /\ Live(pending[n])
    /\ req' = [req EXCEPT ![r] =
                  [Idle EXCEPT !.pc = "delPending", !.num = n, !.user = u,
                               !.by = pending[n].by, !.left = pending[n].ttl]]
    /\ disturbed' = disturbed \cup Overlap(n, Verifying)
    /\ UNCHANGED <<issued, drawn, shown, pending, session, verified, logins>>

\* Mutant: the key is read, not consumed (HasState instead of EndState).
DelPendingKept(r, lost) ==
    /\ req[r].pc = "delPending"
    /\ Goto(r, "setVerified")
    /\ UNCHANGED <<issued, drawn, shown, pending, session, verified, logins, disturbed>>

DelPending(r, lost) ==
    /\ req[r].pc = "delPending"
    /\ pending' = Write(r, pending, NoKey, lost)
    /\ Noticed(r, lost)
    /\ Goto(r, "setVerified")
    /\ UNCHANGED <<issued, drawn, shown, session, verified, logins>>

SetVerified(r, lost) ==
    /\ req[r].pc = "setVerified"
    /\ verified' = Write(r, verified,
                         [ttl |-> VerifiedTTL, by |-> req[r].by, user |-> req[r].user], lost)
    /\ Noticed(r, lost)
    /\ End(r)
    /\ UNCHANGED <<issued, drawn, shown, pending, session, logins>>

------------------------------------------------------------------------------
\* CompleteQuickLogin and completeQuickLogin, for a caller who sends some
\* number and, independently, a session id that was answered or (0) was not.

\* GET the verified key; without one the handler is refused.
BeginComplete(r, s, n) ==
    /\ req[r].pc = "idle"
    /\ s \in shown \cup {0}
    /\ Live(verified[n])
    /\ req' = [req EXCEPT ![r] =
                 [Idle EXCEPT !.pc = "delVerified", !.num = n, !.sid = s,
                              !.user = verified[n].user, !.by = verified[n].by]]
    /\ disturbed' = disturbed \cup Overlap(n, Completing)
    /\ UNCHANGED <<issued, drawn, shown, pending, session, verified, logins>>

\* Mutant: the approval is read, not consumed.
DelVerifiedKept(r, lost) ==
    /\ req[r].pc = "delVerified"
    /\ Goto(r, "getSession")
    /\ UNCHANGED <<issued, drawn, shown, pending, session, verified, logins, disturbed>>

DelVerified(r, lost) ==
    /\ req[r].pc = "delVerified"
    /\ verified' = Write(r, verified, NoKey, lost)
    /\ Noticed(r, lost)
    /\ Goto(r, "getSession")
    /\ UNCHANGED <<issued, drawn, shown, pending, session, logins>>

GetSession(r) ==
    /\ req[r].pc = "getSession"
    /\ IF Live(session[req[r].num])
       THEN req' = [req EXCEPT ![r].pc = "delSession", ![r].stored = session[req[r].num].by]
       ELSE End(r)
    /\ UNCHANGED <<issued, drawn, shown, pending, session, verified, logins, disturbed>>

\* Mutant: the session id is not compared.
DelSessionUnchecked(r, lost) ==
    /\ req[r].pc = "delSession"
    /\ session' = Write(r, session, NoKey, lost)
    /\ Noticed(r, lost)
    /\ Goto(r, "login")
    /\ UNCHANGED <<issued, drawn, shown, pending, verified, logins>>

\* The session ids are compared after both keys are gone.
DelSession(r, lost) ==
    /\ req[r].pc = "delSession"
    /\ session' = Write(r, session, NoKey, lost)
    /\ Noticed(r, lost)
    /\ IF req[r].sid = req[r].stored THEN Goto(r, "login") ELSE End(r)
    /\ UNCHANGED <<issued, drawn, shown, pending, verified, logins>>

\* The account is read and its allowance checked: it gets a token pair
\* (RefreshTokens!BeginPair), or it is banned by now and does not.
Login(r, allowed) ==
    /\ req[r].pc = "login"
    /\ logins' = IF allowed
                 THEN [logins EXCEPT ![req[r].by] = IF @ < 2 THEN @ + 1 ELSE @]
                 ELSE logins
    /\ End(r)
    /\ UNCHANGED <<issued, drawn, shown, pending, session, verified, disturbed>>

------------------------------------------------------------------------------

\* A read fails (panic) or the process stops: the rest of the handler is lost.
Crash(r) ==
    /\ Running(r)
    /\ disturbed' = disturbed \cup {req[r].num}
    /\ End(r)
    /\ UNCHANGED <<issued, drawn, shown, pending, session, verified, logins>>

Age(key) == IF key.ttl > 1 THEN [key EXCEPT !.ttl = @ - 1] ELSE NoKey

\* The pending key that handler r read expires, or would have; or the session
\* key of the approval that r works on.
Overtaken(r, n) ==
    \/ At(r, n, Verifying) /\ req[r].left = 1
    \/ At(r, n, Completing \ {"login"}) /\ session[n].ttl = 1

\* Time passes for the keys; no handler is waited for.
Tick ==
    /\ pending' = [n \in Number |-> Age(pending[n])]
    /\ session' = [n \in Number |-> Age(session[n])]
    /\ verified' = [n \in Number |-> Age(verified[n])]
    /\ req' = [r \in Request |-> [req[r] EXCEPT !.left = IF @ > 0 THEN @ - 1 ELSE 0]]
    /\ disturbed' = disturbed \cup {n \in Number : \E r \in Request : Overtaken(r, n)}
    /\ UNCHANGED <<issued, drawn, shown, logins>>

Next ==
    \/ \E r \in Request :
          \/ \E n \in Number :
                \/ BeginRequest(r, n)
                \/ \E u \in User : BeginVerify(r, u, n)
                \/ \E s \in 0 .. MaxSessions : BeginComplete(r, s, n)
          \/ \E lost \in BOOLEAN :
                \/ SetPending(r, lost) \/ SetSession(r, lost)
                \/ DelPending(r, lost) \/ SetVerified(r, lost)
                \/ DelVerified(r, lost) \/ DelSession(r, lost)
          \/ GetSession(r)
          \/ \E allowed \in BOOLEAN : Login(r, allowed)
          \/ Crash(r)
    \/ Tick

Spec == Init /\ [][Next]_vars

------------------------------------------------------------------------------

\* A device is logged in as u only on an approval that u gave to this very
\* request: never on what is left of an earlier request for the same number.
\* It rests on the three expiries together (quicklogin.go:37, 38 and 57) and
\* on no handler of the number being disturbed.
LoginForOwnApproval ==
    \A r \in Request :
        req[r].pc = "login" => req[r].by = req[r].sid \/ req[r].num \in disturbed

\* An approval opens one login, not two (EndState removes what it read,
\* cache.go:76), again unless the number is disturbed.
OneLoginPerApproval ==
    \A s \in Session : logins[s] > 1 => drawn[s] \in disturbed

\* A prompt approval of a number that a device shows can be used for as long
\* as it lives: the session key it needs belongs to the same request and does
\* not expire before it. The expiries leave no slack for more (5 + 5 = 10
\* minutes): the handler of a late approval, whose SET (quicklogin.go:57) comes
\* after the pending key it had read (43) would have expired, leaves a verified
\* key that outlives the session key. Its number is disturbed.
PromptApprovalFitsSession ==
    \A n \in Number \ disturbed :
        Live(verified[n]) /\ verified[n].by \in shown =>
            /\ session[n].by = verified[n].by
            /\ session[n].ttl >= verified[n].ttl

\* No number waits for a user while an approval for it is open, so the next
\* device that draws it cannot be confused with the one that was approved.
PendingOrVerified ==
    \A n \in Number \ disturbed : ~(Live(pending[n]) /\ Live(verified[n]))

\* Why these hold: the inductive invariant, in named parts. Handlers, keys
\* and logins are about sessions that drew their number.
Drew(s, n) == s \in 1 .. issued /\ drawn[s] = n

SessionsDrawn ==
    /\ shown \subseteq 1 .. issued
    /\ \A s \in Session : IF s <= issued THEN drawn[s] \in Number
                          ELSE drawn[s] = NoNumber /\ logins[s] = 0
    /\ \A n \in Number :
          /\ pending[n].ttl <= PendingTTL /\ verified[n].ttl <= VerifiedTTL
          /\ Live(pending[n]) => Drew(pending[n].by, n)
          /\ Live(verified[n]) => Drew(verified[n].by, n)
          /\ Live(session[n]) => Drew(session[n].by, n)
    /\ \A r \in Request :
          /\ Running(r) => req[r].num \in Number
          /\ req[r].pc \in Requesting => Drew(req[r].sid, req[r].num)
          /\ req[r].pc \in Completing => req[r].sid \in shown \cup {0}
          /\ req[r].pc \in Verifying \cup Completing => Drew(req[r].by, req[r].num)

\* The session key of n is that of s for at least t more, or s is yet to set it.
Backed(n, s, t) ==
    \/ session[n].by = s /\ s \in shown /\ session[n].ttl >= t
    \/ \E r \in Request : At(r, n, {"setSession"}) /\ req[r].sid = s

\* Nothing is left that could become an approval of s once more.
Spent(n, s) ==
    /\ Live(pending[n]) => pending[n].by # s
    /\ Live(verified[n]) => verified[n].by # s
    /\ \A r \in Request : At(r, n, Verifying) => req[r].by # s

\* The number n cannot be approved, nor is it about to be.
Settled(n) == ~Live(pending[n]) /\ \A r \in Request : ~At(r, n, Verifying)

\* No two handlers of a kind work on n.
Alone(n) ==
    \A kind \in {Requesting, Verifying, Completing} :
        \A q, r \in Request : At(q, n, kind) /\ At(r, n, kind) => q = r

KeysOrdered(n) ==
    /\ Live(pending[n]) => ~Live(verified[n]) /\ Backed(n, pending[n].by, pending[n].ttl + 2)
    /\ Live(verified[n]) => Backed(n, verified[n].by, verified[n].ttl)

RequestOrdered(n, r) ==
    At(r, n, Requesting) => ~Live(session[n]) /\ req[r].sid \notin shown

VerifyOrdered(n, r) ==
    /\ At(r, n, Verifying) =>
          ~Live(verified[n]) /\ req[r].left > 0 /\ Backed(n, req[r].by, req[r].left + 2)
    /\ At(r, n, {"setVerified"}) => ~Live(pending[n])

CompleteOrdered(n, r) ==
    /\ At(r, n, {"delVerified"}) /\ Live(verified[n]) => verified[n].by = req[r].by
    /\ At(r, n, {"delVerified", "getSession", "delSession"}) =>
          Settled(n) /\ Backed(n, req[r].by, 1)
    /\ At(r, n, {"getSession", "delSession", "login"}) => Spent(n, req[r].by)
    /\ At(r, n, {"delSession"}) => Live(session[n]) /\ req[r].stored = req[r].by
    /\ At(r, n, {"login"}) => req[r].by = req[r].sid

\* After a login on the approval of s there is no other, nor another handler
\* that has it.
LoginsOrdered(n, s) ==
    drawn[s] = n /\ logins[s] > 0 =>
        /\ logins[s] = 1 /\ s \in shown /\ Spent(n, s)
        /\ \A r \in Request : At(r, n, Completing) => req[r].by # s

QuickInv ==
    /\ TypeOK
    /\ SessionsDrawn
    /\ \A n \in Number \ disturbed :
          /\ Alone(n)
          /\ KeysOrdered(n)
          /\ \A r \in Request : RequestOrdered(n, r) /\ VerifyOrdered(n, r) /\ CompleteOrdered(n, r)
          /\ \A s \in Session : LoginsOrdered(n, s)
==============================================================================
