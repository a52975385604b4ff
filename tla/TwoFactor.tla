------------------------------ MODULE TwoFactor ------------------------------
(***************************************************************************)
(* The row of ONE account in the users table, and the handlers that write  *)
(* it: api/users/totp.go, self.go, edit.go, linking_discord.go and the     *)
(* functions of auth/user.go and auth/authentication.go they call. The     *)
(* subject is the two-factor columns; the ban is there because every       *)
(* handler writes it too.                                                  *)
(*                                                                         *)
(* A handler reads the row once, changes its copy and calls gorm's Save,   *)
(* which writes ALL columns of the copy, some handlers two or three times. *)
(* Nothing locks the row in between, so the Saves of a handler are fixed   *)
(* when it reads: saves is the sequence of row images it is yet to write.  *)
(* Only editUser updates single columns.                                   *)
(*                                                                         *)
(* The columns with the password, mail address, locale and links are left  *)
(* out, and so are handlers that are refused, which write nothing.         *)
(***************************************************************************)
EXTENDS Naturals, Sequences

CONSTANTS
    Request,    \* slots for requests in flight
    Code,       \* the positions in a batch of backup codes (10 in the code)
    MaxSecrets, \* bound: TOTP secrets generated in a behaviour
    MaxBatches  \* bound: batches of backup codes generated in a behaviour

ASSUME TwoFactorAssumption == MaxSecrets \in Nat /\ MaxBatches \in Nat

VARIABLES
    row,        \* the row
    req,        \* request -> what its handler still has to write
    secrets,    \* secrets 1 .. secrets have been generated
    batches,    \* batches 1 .. batches of backup codes have been generated
    proven,     \* history: the secrets a correct code was shown for
    secretOf,   \* history: batch -> the secret whose verification made it
    uses,       \* history: backup code -> times it was accepted (2: or more)
    decided,    \* history: the last IsBanned an administrator wrote
    clobbered   \* history: has a Save overwritten a change it had not read

vars == <<row, req, secrets, batches, proven, secretOf, uses, decided, clobbered>>

Secret == 1 .. MaxSecrets
Batch == 1 .. MaxBatches
BackupCode == Batch \X Code

\* otpSecret 0 is NULL.
User == [isBanned : BOOLEAN, otpActive : BOOLEAN, otpVerified : BOOLEAN,
         otpSecret : 0 .. MaxSecrets, otpBackupCodes : SUBSET BackupCode]

\* What stands for a correct TOTP code where a backup code could be given.
Totp == <<>>

\* saves: images to write; code: the backup code whose removal is the first
\* of them, or Totp; stale: has the row changed since the handler read it.
Local == [saves : Seq(User), code : BackupCode \cup {Totp}, stale : BOOLEAN]

Idle == [saves |-> <<>>, code |-> Totp, stale |-> FALSE]

Running(r) == req[r].saves # <<>>

\* The types of the row, of its images yet to be saved, and of the histories.
TypeOK ==
    /\ row \in User
    /\ req \in [Request -> Local]
    /\ \A r \in Request : Len(req[r].saves) <= 3
    /\ secrets \in 0 .. MaxSecrets
    /\ batches \in 0 .. MaxBatches
    /\ proven \subseteq Secret
    /\ secretOf \in [Batch -> 0 .. MaxSecrets]
    /\ uses \in [BackupCode -> 0 .. 2]
    /\ decided \in BOOLEAN
    /\ clobbered \in BOOLEAN

Init ==
    /\ row = [isBanned |-> FALSE, otpActive |-> FALSE, otpVerified |-> FALSE,
              otpSecret |-> 0, otpBackupCodes |-> {}]
    /\ req = [r \in Request |-> Idle]
    /\ secrets = 0
    /\ batches = 0
    /\ proven = {}
    /\ secretOf = [b \in Batch |-> 0]
    /\ uses = [c \in BackupCode |-> 0]
    /\ decided = FALSE
    /\ clobbered = FALSE

------------------------------------------------------------------------------

HasTwoFactor(u) == u.otpActive /\ u.otpVerified

\* The second factor: nothing where it is off; else a correct TOTP code, or
\* one of the backup codes (TryBackupCodes).
Accepts(u, code) == code = Totp \/ (HasTwoFactor(u) /\ code \in u.otpBackupCodes)

\* Mutant: the code stays in the list.
SpendKept(u, code) == u

\* TryBackupCodes takes the code out of the copy and saves the copy.
Spend(u, code) == [u EXCEPT !.otpBackupCodes = @ \ {code}]

\* A handler read the row and passed its checks: it is going to save the
\* copy without the backup code it was given, if any, and then images.
Start(r, code, images) ==
    req' = [req EXCEPT ![r] =
              [saves |-> IF code = Totp THEN images ELSE <<Spend(row, code)>> \o images,
               code |-> code, stale |-> FALSE]]

NewSecret(r) ==
    /\ secrets < MaxSecrets
    /\ secrets' = secrets + 1
    /\ Start(r, Totp, <<[row EXCEPT !.otpSecret = secrets + 1, !.otpActive = TRUE]>>)
    /\ UNCHANGED <<row, batches, proven, secretOf, uses, decided, clobbered>>

BeginTotp(r) ==
    /\ ~Running(r)
    /\ ~row.otpActive
    /\ NewSecret(r)

\* Mutant: a verified secret can be replaced as well.
RequestUrlUnchecked(r) ==
    /\ ~Running(r)
    /\ row.otpActive
    /\ NewSecret(r)

RequestUrlForVerification(r) ==
    /\ ~Running(r)
    /\ row.otpActive
    /\ ~row.otpVerified
    /\ NewSecret(r)

\* The user shows a code of the secret in the row.
VerifyTotp(r) ==
    /\ ~Running(r)
    /\ row.otpActive
    /\ ~row.otpVerified
    /\ batches < MaxBatches
    /\ batches' = batches + 1
    /\ proven' = proven \cup {row.otpSecret}
    /\ secretOf' = [secretOf EXCEPT ![batches + 1] = row.otpSecret]
    /\ Start(r, Totp, <<[row EXCEPT !.otpVerified = TRUE,
                                    !.otpBackupCodes = {batches + 1} \X Code]>>)
    /\ UNCHANGED <<row, secrets, uses, decided, clobbered>>

\* Mutant: the secret and the codes are cleared, the flags are not.
DisableTotpHalf(r, code) ==
    /\ ~Running(r)
    /\ row.otpActive /\ row.otpVerified
    /\ Accepts(row, code)
    /\ Start(r, code, <<[row EXCEPT !.otpSecret = 0, !.otpBackupCodes = {}]>>)
    /\ UNCHANGED <<row, secrets, batches, proven, secretOf, uses, decided, clobbered>>

\* Mutant: the backup codes are left behind.
DisableTotpKeepsCodes(r, code) ==
    /\ ~Running(r)
    /\ row.otpActive /\ row.otpVerified
    /\ Accepts(row, code)
    /\ Start(r, code, <<[row EXCEPT !.otpActive = FALSE, !.otpVerified = FALSE,
                                    !.otpSecret = 0]>>)
    /\ UNCHANGED <<row, secrets, batches, proven, secretOf, uses, decided, clobbered>>

DisableTotp(r, code) ==
    /\ ~Running(r)
    /\ row.otpActive /\ row.otpVerified
    /\ Accepts(row, code)
    /\ Start(r, code, <<[row EXCEPT !.otpActive = FALSE, !.otpVerified = FALSE,
                                    !.otpSecret = 0, !.otpBackupCodes = {}]>>)
    /\ UNCHANGED <<row, secrets, batches, proven, secretOf, uses, decided, clobbered>>

\* Login saves the row only when a backup code was used.
Login(r, code) ==
    /\ ~Running(r)
    /\ ~row.isBanned
    /\ code # Totp
    /\ Accepts(row, code)
    /\ Start(r, code, <<>>)
    /\ UNCHANGED <<row, secrets, batches, proven, secretOf, uses, decided, clobbered>>

ChangePassword(r, code) ==
    /\ ~Running(r)
    /\ Accepts(row, code)
    /\ Start(r, code, <<Spend(row, code)>>)
    /\ UNCHANGED <<row, secrets, batches, proven, secretOf, uses, decided, clobbered>>

\* GenerateEmailChangeToken saves, and the handler does so again.
RequestEmailChange(r, code) ==
    /\ ~Running(r)
    /\ ~row.isBanned
    /\ Accepts(row, code)
    /\ Start(r, code, <<Spend(row, code), Spend(row, code)>>)
    /\ UNCHANGED <<row, secrets, batches, proven, secretOf, uses, decided, clobbered>>

\* setLocale (refused to a banned user), the Discord link handlers, the
\* requests of a password reset and of a new activation mail (not refused):
\* they change other columns, and write these back as they read them.
SaveOtherColumns(r) ==
    /\ ~Running(r)
    /\ Start(r, Totp, <<row>>)
    /\ UNCHANGED <<row, secrets, batches, proven, secretOf, uses, decided, clobbered>>

------------------------------------------------------------------------------

\* What a handler q that is running has read is no longer what the row holds.
Outdate(q, image) == [req[q] EXCEPT !.stale = @ \/ (Running(q) /\ image # row)]

\* Handler r has written an image; its own copy agrees with the row now.
Advance(r) ==
    [saves |-> Tail(req[r].saves), code |-> Totp,
     stale |-> req[r].stale /\ Len(req[r].saves) > 1]

\* The next Save of a handler.
Save(r) ==
    /\ Running(r)
    /\ row' = Head(req[r].saves)
    /\ req' = [q \in Request |-> IF q = r THEN Advance(r) ELSE Outdate(q, row')]
    /\ uses' = IF req[r].code = Totp THEN uses
               ELSE [uses EXCEPT ![req[r].code] = IF @ < 2 THEN @ + 1 ELSE @]
    /\ clobbered' = (clobbered \/ req[r].stale)
    /\ UNCHANGED <<secrets, batches, proven, secretOf, decided>>

\* A mail cannot be sent, a statement fails or the process stops: the Saves
\* that were to follow are lost.
Fail(r) ==
    /\ Running(r)
    /\ req' = [req EXCEPT ![r] = Idle]
    /\ UNCHANGED <<row, secrets, batches, proven, secretOf, uses, decided, clobbered>>

\* Mutant: gorm skips zero values, as it does for a bool that is no pointer.
EditUserNonZero(banned) ==
    /\ row' = [row EXCEPT !.isBanned = @ \/ banned]
    /\ req' = [q \in Request |-> Outdate(q, row')]
    /\ decided' = banned
    /\ UNCHANGED <<secrets, batches, proven, secretOf, uses, clobbered>>

\* An administrator's PATCH: UPDATE users SET is_banned = ...
EditUser(banned) ==
    /\ row' = [row EXCEPT !.isBanned = banned]
    /\ req' = [q \in Request |-> Outdate(q, row')]
    /\ decided' = banned
    /\ UNCHANGED <<secrets, batches, proven, secretOf, uses, clobbered>>

Next ==
    \/ \E r \in Request :
          \/ BeginTotp(r) \/ RequestUrlForVerification(r) \/ VerifyTotp(r)
          \/ SaveOtherColumns(r)
          \/ \E code \in BackupCode \cup {Totp} :
                \/ DisableTotp(r, code) \/ Login(r, code)
                \/ ChangePassword(r, code) \/ RequestEmailChange(r, code)
          \/ Save(r) \/ Fail(r)
    \/ \E banned \in BOOLEAN : EditUser(banned)

Spec == Init /\ [][Next]_vars

------------------------------------------------------------------------------
\* Every image of the row, the one in the table and those about to replace it.
Images == {row} \cup UNION {{req[r].saves[i] : i \in DOMAIN req[r].saves} : r \in Request}


\* In every order of whole-row Saves the columns of the row fit together: a
\* login never finds two-factor on without a secret to check against (it
\* dereferences OtpSecret, authentication.go:49), and backup codes exist
\* only while two-factor is verified.
Fits(u) ==
    /\ u.otpActive <=> u.otpSecret # 0
    /\ u.otpVerified => u.otpActive
    /\ u.otpBackupCodes # {} => u.otpVerified

ColumnsFit == \A u \in Images : Fits(u)

\* Two-factor is only ever required for a secret whose owner has shown a
\* code of it (totp.go:77), even when secrets are regenerated while they are
\* being verified: nobody is locked out by a secret they never had.
VerifiedSecretProven == \A u \in Images : u.otpVerified => u.otpSecret \in proven

\* The backup codes of the row come from the verification of the secret of
\* the row: codes of an earlier two-factor setup never open the account
\* (totp.go:83 and 149).
CodesOfSecret ==
    \A u \in Images : \A c \in u.otpBackupCodes : secretOf[c[1]] = u.otpSecret

\* The inductive invariant behind these three; no code of a batch that is
\* not generated yet is around.
CodesIssued ==
    \A u \in Images : \A c \in u.otpBackupCodes : c[1] <= batches

TwoFactorInv ==
    TypeOK /\ ColumnsFit /\ VerifiedSecretProven /\ CodesOfSecret /\ CodesIssued

\* A backup code is accepted once (authentication.go:96), as long as no Save
\* has written back a copy of the row that was no longer current.
CodesSpentOnce == ~clobbered => \A c \in BackupCode : uses[c] <= 1

\* A ban stands until an administrator lifts it, again as long as no Save
\* has written back an outdated copy (edit.go:66).
BanStands == ~clobbered => row.isBanned = decided

\* The inductive invariant behind these two. A handler whose copy is current
\* changes nothing but what it is about: its images have the ban of the row,
\* the code it was given is in the row, and without codes used before.
UnusedIn(u) == \A c \in u.otpBackupCodes : uses[c] = 0

AsRead(r) ==
    Running(r) /\ ~req[r].stale =>
        /\ req[r].code # Totp => req[r].code \in row.otpBackupCodes
        /\ \A i \in DOMAIN req[r].saves :
              /\ req[r].saves[i].isBanned = row.isBanned
              /\ ~clobbered => UnusedIn(req[r].saves[i])

\* No image of a handler has the code that it was given.
CodeTakenOut(r) ==
    req[r].code # Totp =>
        /\ req[r].code[1] <= batches
        /\ \A i \in DOMAIN req[r].saves : req[r].code \notin req[r].saves[i].otpBackupCodes

CopiesInv ==
    /\ TwoFactorInv
    /\ \A r \in Request : AsRead(r) /\ CodeTakenOut(r)
    /\ \A c \in BackupCode : uses[c] > 0 => c[1] <= batches
    /\ ~clobbered => UnusedIn(row)
    /\ CodesSpentOnce
    /\ BanStands
==============================================================================
