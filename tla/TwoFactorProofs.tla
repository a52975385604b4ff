--------------------------- MODULE TwoFactorProofs ---------------------------
(***************************************************************************)
(* What TLAPS proves about TwoFactor, for any number of requests, backup   *)
(* codes, secrets and batches: TwoFactorInv is an invariant. A step either *)
(* moves an image into the row (Save) or starts a handler with new images, *)
(* so it is enough that every new image is good.                           *)
(***************************************************************************)
EXTENDS TwoFactor, TLAPS

\* What TwoFactorInv says of one image of the row.
Good(u) ==
    /\ u \in User
    /\ Fits(u)
    /\ u.otpVerified => u.otpSecret \in proven
    /\ \A c \in u.otpBackupCodes : secretOf[c[1]] = u.otpSecret /\ c[1] <= batches

AllGood == \A u \in Images : Good(u)

LEMMA TypedImages == TypeOK => Images \subseteq User
<1>1. ASSUME TypeOK, NEW r \in Request PROVE {req[r].saves[i] : i \in DOMAIN req[r].saves} \subseteq User
  <2>1. req[r] \in Local BY <1>1 DEF TypeOK
  <2>2. req[r].saves \in Seq(User) BY <2>1 DEF Local
  <2> QED BY <2>2
<1> QED BY <1>1 DEF Images, TypeOK

\* The named parts of the invariant say that every image is good.
LEMMA InvIsAllGood == TwoFactorInv <=> TypeOK /\ AllGood
<1>1. ASSUME TypeOK PROVE \A u \in Images : u \in User BY <1>1, TypedImages
<1> QED BY <1>1 DEF TwoFactorInv, AllGood, Good, ColumnsFit, VerifiedSecretProven, CodesOfSecret, CodesIssued

\* Starting a handler adds the images it is given, and the one without the
\* backup code.
LEMMA StartImages ==
    ASSUME TypeOK, NEW r \in Request, NEW code \in BackupCode \cup {Totp},
           NEW images \in Seq(User), Len(images) <= 2, ~Running(r),
           Start(r, code, images), UNCHANGED row
    PROVE  /\ req' \in [Request -> Local]
           /\ \A q \in Request : Len(req'[q].saves) <= 3
           /\ Images' \subseteq Images \cup {Spend(row, code)}
                                \cup {images[i] : i \in DOMAIN images}
<1> DEFINE new == IF code = Totp THEN images ELSE <<Spend(row, code)>> \o images
<1>1. Spend(row, code) \in User BY DEF TypeOK, User, Spend
<1>2. /\ new \in Seq(User) /\ Len(new) <= 3
      /\ \A i \in DOMAIN new : new[i] = Spend(row, code) \/ \E j \in DOMAIN images : new[i] = images[j]
  <2>1. CASE code = Totp BY <2>1
  <2>2. CASE code # Totp
    <3>1. new = <<Spend(row, code)>> \o images BY <2>2
    <3>2. new \in Seq(User) /\ Len(new) = 1 + Len(images) BY <3>1, <1>1
    <3>3. new[1] = Spend(row, code) BY <3>1
    <3>4. ASSUME NEW i \in DOMAIN new, i # 1
          PROVE  i - 1 \in DOMAIN images /\ new[i] = images[i - 1]
      BY <3>1, <3>2, <3>4
    <3> QED BY <3>2, <3>3, <3>4
  <2> QED BY <2>1, <2>2
<1>3. req' = [req EXCEPT ![r] = [saves |-> new, code |-> code, stale |-> FALSE]] BY DEF Start
<1> HIDE DEF new
<1>4. req' \in [Request -> Local] BY <1>2, <1>3 DEF TypeOK, Local
<1>5. req'[r].saves = new /\ \A q \in Request \ {r} : req'[q] = req[q] BY <1>3 DEF TypeOK
<1>6. \A q \in Request : Len(req'[q].saves) <= 3 BY <1>2, <1>5 DEF TypeOK
<1>7. ASSUME NEW u \in Images'
      PROVE  u \in Images \cup {Spend(row, code)} \cup {images[i] : i \in DOMAIN images}
  <2>1. CASE u = row' BY <2>1 DEF Images
  <2>2. ASSUME NEW q \in Request, NEW i \in DOMAIN req'[q].saves, u = req'[q].saves[i]
        PROVE  u \in Images \cup {Spend(row, code)} \cup {images[j] : j \in DOMAIN images}
    <3>1. CASE q = r BY <3>1, <2>2, <1>5, <1>2
    <3>2. CASE q # r BY <3>2, <2>2, <1>5 DEF Images
    <3> QED BY <3>1, <3>2
  <2> QED BY <2>1, <2>2 DEF Images
<1> QED BY <1>4, <1>6, <1>7

\* A step keeps the invariant when the images it adds are good in the new
\* state and the old ones stay good.
LEMMA NewImagesGood ==
    ASSUME TypeOK', NEW S, Images' \subseteq Images \cup S,
           \A u \in Images \cup S : Good(u)'
    PROVE  TwoFactorInv'
<1>1. (TwoFactorInv <=> TypeOK /\ AllGood)' BY InvIsAllGood, PTL
<1>2. \A u \in Images' : Good(u)' OBVIOUS
<1>3. AllGood' BY <1>2 DEF AllGood
<1> QED BY <1>1, <1>3

\* Most steps leave alone what makes an image good.
LEMMA GoodStays ==
    ASSUME TwoFactorInv, UNCHANGED <<proven, secretOf, batches>>, NEW u, Good(u)
    PROVE  Good(u)'
BY DEF Good, Fits, User

LEMMA SpendGood ==
    ASSUME NEW u, Good(u), NEW code
    PROVE  Good(Spend(u, code))
BY DEF Good, Fits, User, Spend

LEMMA InitInv == Init => TwoFactorInv
<1> SUFFICES ASSUME Init PROVE TwoFactorInv OBVIOUS
<1>1. \A r \in Request : req[r] = Idle BY DEF Init
<1>2. row \in User BY TwoFactorAssumption DEF Init, User
<1>3. Idle \in Local BY DEF Idle, Local
<1>4. TypeOK
  <2>1. \A r \in Request : Len(req[r].saves) <= 3
    <3>1. Idle.saves = <<>> /\ Len(<<>>) <= 3 BY DEF Idle
    <3> QED BY <1>1, <3>1
  <2>2. req \in [Request -> Local] BY <1>3 DEF Init
  <2>3. secretOf \in [Batch -> 0 .. MaxSecrets] BY TwoFactorAssumption DEF Init
  <2>4. /\ secrets \in 0 .. MaxSecrets /\ batches \in 0 .. MaxBatches
        /\ proven \subseteq Secret /\ uses \in [BackupCode -> 0 .. 2]
    BY TwoFactorAssumption DEF Init
  <2>5. decided \in BOOLEAN /\ clobbered \in BOOLEAN BY DEF Init
  <2> QED BY <1>2, <2>1, <2>2, <2>3, <2>4, <2>5 DEF TypeOK
<1>5. Images = {row} BY <1>1 DEF Images, Idle
<1>6. Good(row) BY <1>2 DEF Init, Good, Fits
<1> QED BY <1>4, <1>5, <1>6, InvIsAllGood DEF AllGood

\* A handler starts that only changes its own locals: the images it is given
\* are good already.
LEMMA StartStep ==
    ASSUME TwoFactorInv, NEW r \in Request, NEW code \in BackupCode \cup {Totp},
           NEW images \in Seq(User), Len(images) <= 2, ~Running(r),
           Start(r, code, images),
           UNCHANGED <<row, batches, proven, secretOf, uses, decided, clobbered>>,
           secrets' \in 0 .. MaxSecrets,
           \A i \in DOMAIN images : Good(images[i])
    PROVE  TwoFactorInv'
<1>1. TypeOK /\ AllGood BY InvIsAllGood
<1> DEFINE S == {Spend(row, code)} \cup {images[i] : i \in DOMAIN images}
<1>2. /\ req' \in [Request -> Local]
      /\ \A q \in Request : Len(req'[q].saves) <= 3
      /\ Images' \subseteq Images \cup S
  BY <1>1, StartImages
<1>3. TypeOK' BY <1>1, <1>2 DEF TypeOK
<1>4. Good(row) BY <1>1 DEF AllGood, Images
<1>5. \A u \in Images \cup S : Good(u) BY <1>1, <1>4, SpendGood DEF AllGood
<1>6. PICK T : T = S OBVIOUS
<1>7. \A u \in Images \cup T : Good(u)' BY <1>5, <1>6, GoodStays
<1> QED BY <1>2, <1>3, <1>6, <1>7, NewImagesGood
------------------------------------------------------------------------------
\* One lemma per kind of step.

LEMMA NewSecretStep ==
    ASSUME TwoFactorInv, NEW r \in Request, ~Running(r), ~row.otpVerified, NewSecret(r)
    PROVE  TwoFactorInv'
<1> DEFINE image == [row EXCEPT !.otpSecret = secrets + 1, !.otpActive = TRUE]
<1>1. TypeOK /\ Good(row) BY InvIsAllGood DEF AllGood, Images
<1>2. Good(image)
  <2>1. secrets + 1 \in 0 .. MaxSecrets /\ secrets + 1 # 0
    BY <1>1, TwoFactorAssumption DEF TypeOK, NewSecret
  <2>2. image \in User BY <1>1, <2>1 DEF Good, User
  <2>3. /\ image.otpActive
        /\ image.otpSecret = secrets + 1
        /\ image.otpVerified = row.otpVerified
        /\ image.otpBackupCodes = row.otpBackupCodes
    BY <1>1 DEF Good, User
  <2>4. row.otpBackupCodes = {} BY <1>1 DEF Good, Fits
  <2> HIDE DEF image
  <2> QED BY <2>1, <2>2, <2>3, <2>4 DEF Good, Fits
<1>3. secrets' \in 0 .. MaxSecrets BY <1>1, TwoFactorAssumption DEF TypeOK, NewSecret
<1>4. Start(r, Totp, <<image>>) BY DEF NewSecret
<1>5. UNCHANGED <<row, batches, proven, secretOf, uses, decided, clobbered>> BY DEF NewSecret
<1>6. image \in User BY <1>2 DEF Good
<1> HIDE DEF image
<1>7. <<image>> \in Seq(User) /\ Len(<<image>>) <= 2 BY <1>6
<1>8. \A i \in DOMAIN <<image>> : Good(<<image>>[i]) BY <1>2
<1> QED BY <1>3, <1>4, <1>5, <1>7, <1>8, StartStep

LEMMA OneImageStep ==
    ASSUME TwoFactorInv, NEW r \in Request, ~Running(r), NEW code \in BackupCode \cup {Totp},
           NEW image, Good(image), Start(r, code, <<image>>),
           UNCHANGED <<row, secrets, batches, proven, secretOf, uses, decided, clobbered>>
    PROVE  TwoFactorInv'
<1>1. image \in User BY DEF Good
<1>2. <<image>> \in Seq(User) /\ Len(<<image>>) <= 2 BY <1>1
<1>3. \A i \in DOMAIN <<image>> : Good(<<image>>[i]) OBVIOUS
<1>4. secrets' \in 0 .. MaxSecrets BY InvIsAllGood DEF TypeOK
<1> QED BY <1>2, <1>3, <1>4, StartStep

LEMMA VerifyTotpStep ==
    ASSUME TwoFactorInv, NEW r \in Request, VerifyTotp(r)
    PROVE  TwoFactorInv'
<1>0. PICK image : image = [row EXCEPT !.otpVerified = TRUE, !.otpBackupCodes = {batches + 1} \X Code]
  OBVIOUS
<1>1. TypeOK /\ AllGood BY InvIsAllGood
<1>2. Good(row) BY <1>1 DEF AllGood, Images
<1>3. row.otpSecret \in Secret
  BY <1>1, <1>2, TwoFactorAssumption DEF Good, Fits, User, VerifyTotp, Secret
<1>4. batches + 1 \in Batch
  BY <1>1, TwoFactorAssumption DEF TypeOK, VerifyTotp, Batch
<1>5. Good(image)'
  <2>1. image \in User BY <1>0, <1>2, <1>4 DEF Good, User, BackupCode
  <2>2. row' = row /\ row.otpActive BY DEF VerifyTotp
  <2>3. Fits(image) BY <1>0, <1>2, <2>2 DEF Good, Fits, User
  <2>4. image.otpSecret = row.otpSecret /\ row.otpSecret \in proven' BY <1>0, <1>2 DEF Good, User, VerifyTotp
  <2>5. image.otpBackupCodes = {batches + 1} \X Code BY <1>0, <1>2 DEF Good, User
  <2>6. secretOf'[batches + 1] = row.otpSecret /\ batches' = batches + 1
    BY <1>1, <1>4 DEF TypeOK, VerifyTotp
  <2>7. \A c \in image.otpBackupCodes : secretOf'[c[1]] = image.otpSecret /\ c[1] <= batches'
    BY <1>1, <2>4, <2>5, <2>6 DEF TypeOK
  <2> QED BY <2>1, <2>3, <2>4, <2>7 DEF Good
<1>6. ASSUME NEW u, Good(u) PROVE Good(u)'
  <2>2. proven \subseteq proven' /\ batches' = batches + 1 BY DEF VerifyTotp
  <2>3. \A c \in u.otpBackupCodes : c[1] <= batches' /\ secretOf'[c[1]] = u.otpSecret
    <3> SUFFICES ASSUME NEW c \in u.otpBackupCodes
                 PROVE  c[1] <= batches' /\ secretOf'[c[1]] = u.otpSecret
      OBVIOUS
    <3>1. c[1] \in Batch /\ c[1] <= batches /\ secretOf[c[1]] = u.otpSecret
      BY <1>6 DEF Good, User, BackupCode
    <3>2. secretOf' = [secretOf EXCEPT ![batches + 1] = row.otpSecret] BY DEF VerifyTotp
    <3> QED BY <1>1, <2>2, <3>1, <3>2 DEF TypeOK, Batch
  <2> QED BY <1>6, <2>2, <2>3 DEF Good
<1>7. Start(r, Totp, <<image>>) /\ ~Running(r) /\ UNCHANGED row BY <1>0 DEF VerifyTotp
<1>8. image \in User BY <1>5 DEF Good
<1>9. PICK images : images = <<image>> OBVIOUS
<1>10. /\ images \in Seq(User) /\ Len(images) <= 2
      /\ Start(r, Totp, images)
      /\ \A i \in DOMAIN images : images[i] = image
  BY <1>7, <1>8, <1>9
<1>11. PICK S : S = {Spend(row, Totp)} \cup {image} OBVIOUS
<1>12. /\ req' \in [Request -> Local]
       /\ \A q \in Request : Len(req'[q].saves) <= 3
       /\ Images' \subseteq Images \cup S
  <2>1. Images' \subseteq Images \cup {Spend(row, Totp)} \cup {images[i] : i \in DOMAIN images}
        /\ req' \in [Request -> Local]
        /\ \A q \in Request : Len(req'[q].saves) <= 3
    <3>1. PICK code \in BackupCode \cup {Totp} : code = Totp OBVIOUS
    <3>2. Start(r, code, images) BY <1>10, <3>1
    <3>3. TypeOK /\ ~Running(r) /\ UNCHANGED row BY <1>1, <1>7
    <3>4. images \in Seq(User) /\ Len(images) <= 2 BY <1>10
    <3>5. /\ req' \in [Request -> Local]
          /\ \A q \in Request : Len(req'[q].saves) <= 3
          /\ Images' \subseteq Images \cup {Spend(row, code)} \cup {images[i] : i \in DOMAIN images}
      BY <3>2, <3>3, <3>4, StartImages
    <3> QED BY <3>1, <3>5
  <2> QED BY <1>10, <1>11, <2>1
<1>13. TypeOK'
  <2>1. batches' \in 0 .. MaxBatches BY <1>1, TwoFactorAssumption DEF TypeOK, VerifyTotp
  <2>2. proven' \subseteq Secret BY <1>1, <1>3 DEF TypeOK, VerifyTotp
  <2>3. secretOf' \in [Batch -> 0 .. MaxSecrets]
    <3>1. secretOf' = [secretOf EXCEPT ![batches + 1] = row.otpSecret] BY DEF VerifyTotp
    <3>2. row.otpSecret \in 0 .. MaxSecrets BY <1>3, TwoFactorAssumption DEF Secret
    <3> QED BY <1>1, <3>1, <3>2 DEF TypeOK
  <2>4. UNCHANGED <<row, secrets, uses, decided, clobbered>> BY DEF VerifyTotp
  <2> QED BY <1>1, <1>12, <2>1, <2>2, <2>3, <2>4 DEF TypeOK
<1>14. \A u \in Images : Good(u)' BY <1>1, <1>6 DEF AllGood
<1>15. \A u \in S : Good(u)' BY <1>2, <1>5, <1>6, <1>11, SpendGood
<1> QED BY <1>12, <1>13, <1>14, <1>15, NewImagesGood

LEMMA OutdateTyped ==
    ASSUME TypeOK, NEW q \in Request, NEW image
    PROVE  Outdate(q, image) \in Local /\ Outdate(q, image).saves = req[q].saves
<1>1. req[q] \in Local BY DEF TypeOK
<1>2. (req[q].stale \/ (Running(q) /\ image # row)) \in BOOLEAN OBVIOUS
<1>3. Outdate(q, image) = [req[q] EXCEPT !.stale = req[q].stale \/ (Running(q) /\ image # row)]
  BY DEF Outdate
<1> QED BY <1>1, <1>2, <1>3 DEF Local

LEMMA SaveStep ==
    ASSUME TwoFactorInv, NEW r \in Request, Save(r)
    PROVE  TwoFactorInv'
<1>1. TypeOK /\ AllGood BY InvIsAllGood
<1>2. req[r] \in Local /\ req[r].saves \in Seq(User) /\ req[r].saves # <<>> /\ Len(req[r].saves) <= 3
  BY <1>1 DEF TypeOK, Local, Save, Running
<1>3. row' \in Images /\ row' \in User
  <2>1. row' = Head(req[r].saves) BY DEF Save
  <2>2. Head(req[r].saves) = req[r].saves[1] /\ 1 \in DOMAIN req[r].saves BY <1>2
  <2>3. row' \in Images BY <2>1, <2>2 DEF Images
  <2> QED BY <1>1, <2>3, TypedImages
<1>4. PICK rest : rest = Tail(req[r].saves) OBVIOUS
<1>5. /\ rest \in Seq(User) /\ Len(rest) <= 3
      /\ \A i \in DOMAIN rest : i + 1 \in DOMAIN req[r].saves /\ rest[i] = req[r].saves[i + 1]
  BY <1>2, <1>4
<1>6. /\ req'[r].saves = rest
      /\ \A q \in Request \ {r} : req'[q].saves = req[q].saves
  <2>1. req'[r] = Advance(r) /\ \A q \in Request \ {r} : req'[q] = Outdate(q, row')
    BY DEF Save
  <2>2. Advance(r).saves = rest BY <1>4 DEF Advance
  <2>3. \A q \in Request : Outdate(q, row').saves = req[q].saves
    <3>1. PICK image : image = row' OBVIOUS
    <3> QED BY <1>1, <3>1, OutdateTyped
  <2> QED BY <2>1, <2>2, <2>3
<1>7. req' \in [Request -> Local]
  <2>1. Advance(r) \in Local
    <3>1. (req[r].stale /\ Len(req[r].saves) > 1) \in BOOLEAN OBVIOUS
    <3> QED BY <1>4, <1>5, <3>1 DEF Advance, Local
  <2>2. ASSUME NEW q \in Request PROVE Outdate(q, row') \in Local
    BY <2>2, <1>1, OutdateTyped
  <2> QED BY <2>1, <2>2 DEF Save
<1>8. Images' \subseteq Images
  <2> SUFFICES ASSUME NEW u \in Images' PROVE u \in Images OBVIOUS
  <2>1. CASE u = row' BY <1>3, <2>1
  <2>2. ASSUME NEW q \in Request, NEW i \in DOMAIN req'[q].saves, u = req'[q].saves[i]
        PROVE  u \in Images
    <3>1. CASE q = r BY <3>1, <2>2, <1>5, <1>6 DEF Images
    <3>2. CASE q # r BY <3>2, <2>2, <1>6 DEF Images
    <3> QED BY <3>1, <3>2
  <2> QED BY <2>1, <2>2 DEF Images
<1>9. TypeOK'
  <2>1. \A q \in Request : Len(req'[q].saves) <= 3 BY <1>1, <1>5, <1>6 DEF TypeOK
  <2>2. uses' \in [BackupCode -> 0 .. 2]
    <3>1. CASE req[r].code = Totp BY <1>1, <3>1 DEF TypeOK, Save
    <3>2. CASE req[r].code # Totp
      <4>1. req[r].code \in BackupCode BY <1>2, <3>2 DEF Local
      <4> QED BY <1>1, <3>2, <4>1 DEF TypeOK, Save
    <3> QED BY <3>1, <3>2
  <2>3. clobbered' \in BOOLEAN BY DEF Save
  <2>4. UNCHANGED <<secrets, batches, proven, secretOf, decided>> BY DEF Save
  <2> QED BY <1>1, <1>3, <1>7, <2>1, <2>2, <2>3, <2>4 DEF TypeOK
<1>10. UNCHANGED <<proven, secretOf, batches>> BY DEF Save
<1>11. \A u \in Images : Good(u)' BY <1>1, <1>10, GoodStays DEF AllGood
<1> QED BY <1>8, <1>9, <1>11, NewImagesGood
LEMMA FailStep ==
    ASSUME TwoFactorInv, NEW r \in Request, Fail(r)
    PROVE  TwoFactorInv'
<1>1. TypeOK /\ AllGood BY InvIsAllGood
<1>2. Idle \in Local /\ Idle.saves = <<>> /\ Len(Idle.saves) <= 3 /\ DOMAIN Idle.saves = {}
  BY DEF Idle, Local
<1>3. req' = [req EXCEPT ![r] = Idle] BY DEF Fail
<1>4. req' \in [Request -> Local] BY <1>1, <1>2, <1>3 DEF TypeOK
<1>5. req'[r] = Idle /\ \A q \in Request \ {r} : req'[q] = req[q] BY <1>1, <1>3 DEF TypeOK
<1>6. \A q \in Request : Len(req'[q].saves) <= 3 BY <1>1, <1>2, <1>5 DEF TypeOK
<1>7. UNCHANGED <<row, secrets, batches, proven, secretOf, uses, decided, clobbered>> BY DEF Fail
<1>8. TypeOK' BY <1>1, <1>4, <1>6, <1>7 DEF TypeOK
<1>9. Images' \subseteq Images
  <2> SUFFICES ASSUME NEW q \in Request, NEW i \in DOMAIN req'[q].saves
               PROVE  req'[q].saves[i] \in Images
    BY <1>7 DEF Images
  <2> QED BY <1>2, <1>5 DEF Images
<1>10. \A u \in Images : Good(u)' BY <1>1, <1>7, GoodStays DEF AllGood
<1> QED BY <1>8, <1>9, <1>10, NewImagesGood

LEMMA EditUserStep ==
    ASSUME TwoFactorInv, NEW banned \in BOOLEAN, EditUser(banned)
    PROVE  TwoFactorInv'
<1>1. TypeOK /\ AllGood BY InvIsAllGood
<1>2. Good(row) BY <1>1 DEF AllGood, Images
<1>3. PICK image : image = [row EXCEPT !.isBanned = banned] OBVIOUS
<1>4. Good(image) BY <1>2, <1>3 DEF Good, Fits, User
<1>5. row' = image BY <1>3 DEF EditUser
<1>6. ASSUME NEW q \in Request PROVE req'[q] \in Local /\ req'[q].saves = req[q].saves
  <2>1. req'[q] = Outdate(q, row') BY DEF EditUser
  <2> QED BY <1>1, <2>1, OutdateTyped
<1>7. req' \in [Request -> Local] BY <1>6 DEF EditUser
<1>8. UNCHANGED <<secrets, batches, proven, secretOf, uses, clobbered>> /\ decided' = banned
  BY DEF EditUser
<1>9. row' \in User BY <1>4, <1>5 DEF Good
<1>10. \A q \in Request : Len(req'[q].saves) <= 3 BY <1>1, <1>6 DEF TypeOK
<1>11. TypeOK' BY <1>1, <1>7, <1>8, <1>9, <1>10 DEF TypeOK
<1>12. Images' \subseteq Images \cup {image} BY <1>5, <1>6 DEF Images
<1>13. \A u \in Images \cup {image} : Good(u)' BY <1>1, <1>4, <1>8, GoodStays DEF AllGood
<1> QED BY <1>11, <1>12, <1>13, NewImagesGood

------------------------------------------------------------------------------

LEMMA StepInv == TwoFactorInv /\ [Next]_vars => TwoFactorInv'
<1> SUFFICES ASSUME TwoFactorInv, [Next]_vars PROVE TwoFactorInv' OBVIOUS
<1>1. TypeOK /\ Good(row) BY InvIsAllGood DEF AllGood, Images
<1>2. ASSUME NEW r \in Request, BeginTotp(r) PROVE TwoFactorInv'
  BY <1>1, <1>2, NewSecretStep DEF BeginTotp, Good, Fits
<1>3. ASSUME NEW r \in Request, RequestUrlForVerification(r) PROVE TwoFactorInv'
  BY <1>3, NewSecretStep DEF RequestUrlForVerification
<1>4. ASSUME NEW r \in Request, SaveOtherColumns(r) PROVE TwoFactorInv'
  BY <1>1, <1>4, OneImageStep DEF SaveOtherColumns
<1>5. ASSUME NEW r \in Request, NEW code \in BackupCode \cup {Totp}, DisableTotp(r, code)
      PROVE  TwoFactorInv'
  <2>1. PICK image : image = [row EXCEPT !.otpActive = FALSE, !.otpVerified = FALSE,
                                         !.otpSecret = 0, !.otpBackupCodes = {}]
    OBVIOUS
  <2>2. Good(image)
    <3>1. image \in User
      <4>1. row \in User /\ 0 \in 0 .. MaxSecrets BY <1>1, TwoFactorAssumption DEF Good
      <4>2. {} \in SUBSET BackupCode OBVIOUS
      <4> QED BY <2>1, <4>1, <4>2 DEF User
    <3>2. /\ ~image.otpActive /\ ~image.otpVerified
          /\ image.otpSecret = 0 /\ image.otpBackupCodes = {}
      BY <1>1, <2>1 DEF Good, User
    <3> QED BY <3>1, <3>2 DEF Good, Fits
  <2> QED BY <1>5, <2>1, <2>2, OneImageStep DEF DisableTotp
<1>6. ASSUME NEW r \in Request, NEW code \in BackupCode \cup {Totp}, Login(r, code)
      PROVE  TwoFactorInv'
  <2>1. <<>> \in Seq(User) /\ Len(<<>>) <= 2 /\ DOMAIN <<>> = {} OBVIOUS
  <2>2. secrets' \in 0 .. MaxSecrets BY <1>1, <1>6 DEF TypeOK, Login
  <2> QED BY <1>6, <2>1, <2>2, StartStep DEF Login
<1>7. ASSUME NEW r \in Request, NEW code \in BackupCode \cup {Totp}, ChangePassword(r, code)
      PROVE  TwoFactorInv'
  BY <1>1, <1>7, SpendGood, OneImageStep DEF ChangePassword
<1>8. ASSUME NEW r \in Request, NEW code \in BackupCode \cup {Totp}, RequestEmailChange(r, code)
      PROVE  TwoFactorInv'
  <2>1. PICK image : image = Spend(row, code) OBVIOUS
  <2>2. Good(image) BY <1>1, <2>1, SpendGood
  <2>3. PICK images : images = <<image, image>> OBVIOUS
  <2>4. image \in User BY <2>2 DEF Good
  <2>5. images \in Seq(User) /\ Len(images) <= 2 /\ \A i \in DOMAIN images : images[i] = image
    BY <2>3, <2>4
  <2>6. \A i \in DOMAIN images : Good(images[i]) BY <2>2, <2>5
  <2>7. secrets' \in 0 .. MaxSecrets BY <1>1, <1>8 DEF TypeOK, RequestEmailChange
  <2> QED BY <1>8, <2>1, <2>3, <2>5, <2>6, <2>7, StartStep DEF RequestEmailChange
<1>9. ASSUME NEW r \in Request, Save(r) \/ Fail(r) \/ VerifyTotp(r) PROVE TwoFactorInv'
  BY <1>9, SaveStep, FailStep, VerifyTotpStep
<1>10. ASSUME NEW banned \in BOOLEAN, EditUser(banned) PROVE TwoFactorInv'
  BY <1>10, EditUserStep
<1>11. CASE UNCHANGED vars
  BY <1>11 DEF vars, TwoFactorInv, TypeOK, ColumnsFit, VerifiedSecretProven, CodesOfSecret,
               CodesIssued, Images
<1> QED BY <1>2, <1>3, <1>4, <1>5, <1>6, <1>7, <1>8, <1>9, <1>10, <1>11 DEF Next

------------------------------------------------------------------------------
\* The copies that are current, the codes and the ban.

\* What CopiesInv says of the locals of a handler.
TakenOut(l) ==
    l.code # Totp =>
        /\ l.code[1] <= batches
        /\ \A i \in DOMAIN l.saves : l.code \notin l.saves[i].otpBackupCodes

Fresh(l) ==
    l.saves # <<>> /\ ~l.stale =>
        /\ l.code # Totp => l.code \in row.otpBackupCodes
        /\ \A i \in DOMAIN l.saves :
              /\ l.saves[i].isBanned = row.isBanned
              /\ ~clobbered => UnusedIn(l.saves[i])

\* What it says of the row and the histories.
RowFresh ==
    /\ \A c \in BackupCode : uses[c] > 0 => c[1] <= batches
    /\ ~clobbered => UnusedIn(row)
    /\ CodesSpentOnce
    /\ BanStands

HandlersFresh == \A r \in Request : Fresh(req[r]) /\ TakenOut(req[r])

LEMMA CopiesInvParts == CopiesInv <=> TwoFactorInv /\ RowFresh /\ HandlersFresh
BY DEF CopiesInv, HandlersFresh, RowFresh, Fresh, TakenOut, AsRead, CodeTakenOut, Running

\* A handler starts: nothing but its locals changes, and perhaps a batch of
\* codes is new.
LEMMA StartFresh ==
    ASSUME CopiesInv, TwoFactorInv', NEW r \in Request, NEW code \in BackupCode \cup {Totp},
           NEW images \in Seq(User), Start(r, code, images),
           UNCHANGED <<row, uses, decided, clobbered>>, batches' \in Nat, batches <= batches',
           Accepts(row, code),
           \A i \in DOMAIN images :
              /\ images[i].isBanned = row.isBanned
              /\ code # Totp => code \notin images[i].otpBackupCodes
              /\ ~clobbered => UnusedIn(images[i])
    PROVE  CopiesInv'
<1> DEFINE new == IF code = Totp THEN images ELSE <<Spend(row, code)>> \o images
<1>1. /\ TypeOK /\ TwoFactorInv /\ RowFresh /\ Good(row)
      /\ HandlersFresh
  BY CopiesInvParts, InvIsAllGood DEF AllGood, Images
<1>2. Spend(row, code) \in User BY <1>1 DEF TypeOK, User, Spend
<1>3. /\ Spend(row, code).isBanned = row.isBanned
      /\ Spend(row, code).otpBackupCodes = row.otpBackupCodes \ {code}
  BY <1>1 DEF TypeOK, User, Spend
<1>4. ASSUME NEW i \in DOMAIN new
      PROVE  new[i] = Spend(row, code) \/ \E j \in DOMAIN images : new[i] = images[j]
  <2>1. CASE code = Totp BY <2>1
  <2>2. CASE code # Totp
    <3>1. new = <<Spend(row, code)>> \o images BY <2>2
    <3>2. new[1] = Spend(row, code) /\ Len(new) = 1 + Len(images) /\ DOMAIN new = 1 .. Len(new)
      BY <3>1, <1>2
    <3>3. CASE i # 1
      <4>1. i - 1 \in DOMAIN images /\ new[i] = images[i - 1] BY <3>1, <3>2, <3>3
      <4> QED BY <4>1
    <3> QED BY <3>2, <3>3
  <2> QED BY <2>1, <2>2
<1>5. req' = [req EXCEPT ![r] = [saves |-> new, code |-> code, stale |-> FALSE]] BY DEF Start
<1> HIDE DEF new
<1>6. PICK l : l = [saves |-> new, code |-> code, stale |-> FALSE] OBVIOUS
<1>7. req'[r] = l /\ \A q \in Request \ {r} : req'[q] = req[q] BY <1>1, <1>5, <1>6 DEF TypeOK
<1>8. code # Totp => code \in row.otpBackupCodes /\ code \in BackupCode /\ code[1] <= batches
  BY <1>1 DEF Accepts, Good, User
<1>9. ASSUME NEW i \in DOMAIN new
      PROVE  /\ new[i].isBanned = row.isBanned
             /\ code # Totp => code \notin new[i].otpBackupCodes
             /\ ~clobbered => UnusedIn(new[i])
  BY <1>1, <1>3, <1>4 DEF RowFresh, UnusedIn
<1>10. Fresh(l) BY <1>6, <1>8, <1>9 DEF Fresh
<1>11. TakenOut(l) BY <1>6, <1>8, <1>9 DEF TakenOut
<1>12. ASSUME NEW q \in Request PROVE (Fresh(req[q]) /\ TakenOut(req[q]))'
  <2>1. PICK m : m = req'[q] OBVIOUS
  <2>2. Fresh(m) /\ TakenOut(m) BY <1>1, <1>7, <1>10, <1>11, <2>1 DEF HandlersFresh
  <2>3. Fresh(m)' BY <2>2 DEF Fresh, UnusedIn
  <2>4. TakenOut(m)'
    <3>1. m.code # Totp => m.code[1] \in Nat
      <4>1. m.code \in BackupCode \cup {Totp}
        <5>1. CASE q = r BY <1>6, <1>7, <2>1, <5>1
        <5>2. CASE q # r
          <6>1. req[q] \in Local BY <1>1 DEF TypeOK
          <6> QED BY <1>7, <2>1, <5>2, <6>1 DEF Local
        <5> QED BY <5>1, <5>2
      <4> QED BY <4>1 DEF BackupCode, Batch
    <3>2. batches \in Nat BY <1>1 DEF TypeOK
    <3> QED BY <2>2, <3>1, <3>2 DEF TakenOut
  <2> QED BY <2>1, <2>3, <2>4 DEF Fresh, TakenOut, UnusedIn
<1>13. RowFresh'
  <2>1. ASSUME NEW c \in BackupCode, uses'[c] > 0 PROVE c[1] <= batches'
    <3>1. c[1] <= batches /\ c[1] \in Nat /\ batches \in Nat
      BY <1>1, <2>1 DEF RowFresh, BackupCode, Batch, TypeOK
    <3> QED BY <3>1
  <2> QED BY <1>1, <2>1 DEF RowFresh, UnusedIn, CodesSpentOnce, BanStands
<1>14. HandlersFresh' BY <1>12 DEF HandlersFresh
<1> QED BY <1>13, <1>14, CopiesInvParts, PTL

\* A Save: handlers that are still current have read the image it writes, so
\* nothing changed for them, and no code was spent.
LEMMA SaveFresh ==
    ASSUME CopiesInv, TwoFactorInv', NEW r \in Request, Save(r)
    PROVE  CopiesInv'
<1>1. TypeOK /\ TwoFactorInv /\ RowFresh /\ HandlersFresh
  BY CopiesInvParts, InvIsAllGood
<1>2. PICK l : l = req[r] OBVIOUS
<1>3. /\ l.saves \in Seq(User) /\ l.saves # <<>> /\ l.code \in BackupCode \cup {Totp}
      /\ l.stale \in BOOLEAN
  BY <1>1, <1>2 DEF TypeOK, Local, Save, Running
<1>4. PICK image : image = Head(l.saves) OBVIOUS
<1>5. /\ 1 \in DOMAIN l.saves /\ image = l.saves[1] /\ image \in User
      /\ DOMAIN l.saves = 1 .. Len(l.saves) /\ Len(l.saves) \in Nat
  BY <1>3, <1>4
<1>6. row' = image BY <1>2, <1>4 DEF Save
<1>7. Fresh(l) /\ TakenOut(l) BY <1>1, <1>2 DEF HandlersFresh
<1>8. UNCHANGED <<batches, decided>> /\ (clobbered' <=> clobbered \/ l.stale) BY <1>2 DEF Save
<1>9. /\ l.code = Totp => uses' = uses
      /\ l.code # Totp => \A c \in BackupCode :
            /\ c # l.code => uses'[c] = uses[c]
            /\ uses[c] = 0 => uses'[c] <= 1
  BY <1>1, <1>2, <1>3 DEF Save, TypeOK
<1>10. \A c \in BackupCode : uses[c] \in 0 .. 2 BY <1>1 DEF TypeOK
\* An image without the code has the unused codes it had.
<1>11. ASSUME NEW u \in User, UnusedIn(u), l.code # Totp => l.code \notin u.otpBackupCodes
       PROVE  UnusedIn(u)'
  BY <1>9, <1>11 DEF UnusedIn, User
<1>12. l.code # Totp => l.code \notin image.otpBackupCodes BY <1>5, <1>7 DEF TakenOut
<1>13. ~l.stale => /\ image.isBanned = row.isBanned
                   /\ ~clobbered => UnusedIn(image)
                   /\ l.code # Totp => l.code \in row.otpBackupCodes /\ image # row
  BY <1>3, <1>5, <1>7, <1>12 DEF Fresh
<1>14. RowFresh'
  <2>1. ASSUME NEW c \in BackupCode, uses'[c] > 0 PROVE c[1] <= batches
    BY <1>1, <1>7, <1>9, <1>10, <2>1 DEF RowFresh, TakenOut
  <2>2. ASSUME ~clobbered' PROVE UnusedIn(row)'
    <3>1. UnusedIn(image)' BY <1>5, <1>8, <1>11, <1>12, <1>13, <2>2
    <3> QED BY <1>6, <3>1 DEF UnusedIn
  <2>3. ASSUME ~clobbered', NEW c \in BackupCode PROVE uses'[c] <= 1
    <3>1. uses[c] <= 1 BY <1>1, <1>8, <2>3 DEF RowFresh, CodesSpentOnce
    <3>2. l.code # Totp => uses[l.code] = 0 BY <1>1, <1>8, <1>13, <2>3 DEF RowFresh, UnusedIn
    <3> QED BY <1>9, <3>1, <3>2
  <2>4. ~clobbered' => row'.isBanned = decided'
    BY <1>1, <1>6, <1>8, <1>13 DEF RowFresh, BanStands
  <2> QED BY <1>8, <2>1, <2>2, <2>3, <2>4 DEF RowFresh, CodesSpentOnce, BanStands
<1>15. ASSUME NEW q \in Request, q # r PROVE (Fresh(req[q]) /\ TakenOut(req[q]))'
  <2>1. PICK m : m = req[q] OBVIOUS
  <2>2. PICK n : n = req'[q] OBVIOUS
  <2>3. Fresh(m) /\ TakenOut(m) /\ m.saves \in Seq(User)
    BY <1>1, <2>1 DEF HandlersFresh, TypeOK, Local
  <2>4. n = Outdate(q, row') BY <1>15, <2>2 DEF Save
  <2>5. n = [m EXCEPT !.stale = m.stale \/ (m.saves # <<>> /\ image # row)]
    BY <1>6, <2>1, <2>4 DEF Outdate, Running
  <2>6. n.saves = m.saves /\ n.code = m.code /\ (n.stale <=> m.stale \/ (m.saves # <<>> /\ image # row))
    BY <1>1, <2>1, <2>5 DEF TypeOK, Local
  <2>7. TakenOut(n)' BY <1>8, <2>3, <2>6 DEF TakenOut
  <2>8. ASSUME n.saves # <<>>, ~n.stale PROVE Fresh(n)'
    <3>1. row' = row /\ Fresh(m) /\ ~m.stale BY <1>6, <2>3, <2>6, <2>8
    <3>2. ASSUME ~clobbered', NEW i \in DOMAIN n.saves PROVE UnusedIn(n.saves[i])'
      <4>1. UnusedIn(m.saves[i]) BY <1>8, <2>6, <2>8, <3>1, <3>2 DEF Fresh
      <4>2. uses' = uses BY <1>8, <1>9, <1>13, <1>6, <3>1, <3>2
      <4> QED BY <2>6, <4>1, <4>2 DEF UnusedIn
    <3> QED BY <2>6, <2>8, <3>1, <3>2 DEF Fresh
  <2>9. Fresh(n)' BY <2>8 DEF Fresh
  <2> QED BY <2>2, <2>7, <2>9 DEF Fresh, TakenOut, UnusedIn
<1>16. (Fresh(req[r]) /\ TakenOut(req[r]))'
  <2>1. PICK n : n = req'[r] OBVIOUS
  <2>2. n = Advance(r) BY <2>1 DEF Save
  <2>3. /\ n.saves = Tail(l.saves) /\ n.code = Totp
        /\ n.stale <=> l.stale /\ Len(l.saves) > 1
    BY <1>2, <2>2 DEF Advance
  <2>4. \A i \in DOMAIN n.saves : i + 1 \in DOMAIN l.saves /\ n.saves[i] = l.saves[i + 1]
    BY <1>3, <2>3
  <2>5. ASSUME n.saves # <<>>, ~n.stale PROVE Fresh(n)'
    <3>1. Len(l.saves) > 1 BY <1>3, <2>3, <2>5
    <3>2. ~l.stale BY <2>3, <2>5, <3>1
    <3>3. ASSUME NEW i \in DOMAIN n.saves
          PROVE  /\ n.saves[i].isBanned = row'.isBanned
                 /\ ~clobbered' => UnusedIn(n.saves[i])'
      <4>1. PICK u : u = n.saves[i] OBVIOUS
      <4>2. /\ u \in User /\ u.isBanned = row.isBanned /\ (~clobbered => UnusedIn(u))
            /\ l.code # Totp => l.code \notin u.otpBackupCodes
        BY <1>3, <1>5, <1>7, <2>4, <3>2, <3>3, <4>1 DEF Fresh, TakenOut
      <4>3. ~clobbered' => UnusedIn(u)' BY <1>8, <1>11, <4>2
      <4> QED BY <1>6, <1>13, <3>2, <4>1, <4>2, <4>3 DEF UnusedIn
    <3> QED BY <2>3, <3>3 DEF Fresh
  <2>6. Fresh(n)' BY <2>5 DEF Fresh
  <2>7. TakenOut(n)' BY <2>3 DEF TakenOut
  <2> QED BY <2>1, <2>6, <2>7 DEF Fresh, TakenOut, UnusedIn
<1>17. HandlersFresh' BY <1>15, <1>16 DEF HandlersFresh
<1> QED BY <1>14, <1>17, CopiesInvParts, PTL

\* An administrator's UPDATE: a ban that is new makes every copy outdated.
LEMMA EditUserFresh ==
    ASSUME CopiesInv, TwoFactorInv', NEW banned \in BOOLEAN, EditUser(banned)
    PROVE  CopiesInv'
<1>1. TypeOK /\ TwoFactorInv /\ RowFresh /\ HandlersFresh
  BY CopiesInvParts, InvIsAllGood
<1>2. PICK image : image = [row EXCEPT !.isBanned = banned] OBVIOUS
<1>3. row' = image /\ decided' = banned /\ UNCHANGED <<batches, uses, clobbered>>
  BY <1>2 DEF EditUser
<1>4. image.isBanned = banned /\ image.otpBackupCodes = row.otpBackupCodes
  BY <1>1, <1>2 DEF TypeOK, User
<1>5. RowFresh' BY <1>1, <1>3, <1>4 DEF RowFresh, UnusedIn, CodesSpentOnce, BanStands
<1>6. ASSUME NEW q \in Request PROVE (Fresh(req[q]) /\ TakenOut(req[q]))'
  <2>1. PICK m : m = req[q] OBVIOUS
  <2>2. PICK n : n = req'[q] OBVIOUS
  <2>3. Fresh(m) /\ TakenOut(m) BY <1>1, <2>1 DEF HandlersFresh
  <2>4. n = [m EXCEPT !.stale = m.stale \/ (m.saves # <<>> /\ image # row)]
    BY <1>3, <2>1, <2>2 DEF EditUser, Outdate, Running
  <2>5. n.saves = m.saves /\ n.code = m.code /\ (n.stale <=> m.stale \/ (m.saves # <<>> /\ image # row))
    BY <1>1, <2>1, <2>4 DEF TypeOK, Local
  <2>6. TakenOut(n)' BY <1>3, <2>3, <2>5 DEF TakenOut
  <2>7. Fresh(n)' BY <1>3, <2>3, <2>5 DEF Fresh, UnusedIn
  <2> QED BY <2>2, <2>6, <2>7 DEF Fresh, TakenOut, UnusedIn
<1>7. HandlersFresh' BY <1>6 DEF HandlersFresh
<1> QED BY <1>5, <1>7, CopiesInvParts, PTL

LEMMA FailFresh ==
    ASSUME CopiesInv, TwoFactorInv', NEW r \in Request, Fail(r)
    PROVE  CopiesInv'
<1>1. TypeOK /\ TwoFactorInv /\ RowFresh /\ HandlersFresh
  BY CopiesInvParts, InvIsAllGood
<1>2. \A q \in Request : req'[q] = req[q] \/ req'[q] = Idle BY <1>1 DEF Fail, TypeOK
<1>3. UNCHANGED <<row, uses, batches, decided, clobbered>> BY DEF Fail
<1>4. ASSUME NEW q \in Request PROVE (Fresh(req[q]) /\ TakenOut(req[q]))'
  <2>1. PICK n : n = req'[q] OBVIOUS
  <2>2. Fresh(n) /\ TakenOut(n)
    BY <1>1, <1>2, <2>1 DEF HandlersFresh, Idle, Fresh, TakenOut
  <2> QED BY <1>3, <2>1, <2>2 DEF Fresh, TakenOut, UnusedIn
<1>5. HandlersFresh' BY <1>4 DEF HandlersFresh
<1>6. RowFresh' BY <1>1, <1>3 DEF RowFresh, UnusedIn, CodesSpentOnce, BanStands
<1> QED BY <1>5, <1>6, CopiesInvParts, PTL

\* A handler starts with one image that has the ban of the row, and of its
\* codes those that are left.
LEMMA OneImageFresh ==
    ASSUME CopiesInv, TwoFactorInv', NEW r \in Request, NEW code \in BackupCode \cup {Totp},
           Accepts(row, code), NEW image \in User, Start(r, code, <<image>>),
           UNCHANGED <<row, uses, decided, clobbered, batches>>,
           image.isBanned = row.isBanned,
           image.otpBackupCodes \subseteq row.otpBackupCodes \ {code}
    PROVE  CopiesInv'
<1>1. RowFresh /\ TypeOK BY CopiesInvParts, InvIsAllGood
<1>2. PICK images : images = <<image>> OBVIOUS
<1>3. images \in Seq(User) /\ \A i \in DOMAIN images : images[i] = image BY <1>2
<1>4. batches' \in Nat /\ batches <= batches' BY <1>1 DEF TypeOK
<1>5. \A i \in DOMAIN images :
         /\ images[i].isBanned = row.isBanned
         /\ code # Totp => code \notin images[i].otpBackupCodes
         /\ ~clobbered => UnusedIn(images[i])
  BY <1>1, <1>3 DEF RowFresh, UnusedIn
<1> QED BY <1>2, <1>3, <1>4, <1>5, StartFresh

LEMMA VerifyTotpFresh ==
    ASSUME CopiesInv, TwoFactorInv', NEW r \in Request, VerifyTotp(r)
    PROVE  CopiesInv'
<1>1. RowFresh /\ TypeOK BY CopiesInvParts, InvIsAllGood
<1>2. PICK image : image = [row EXCEPT !.otpVerified = TRUE, !.otpBackupCodes = {batches + 1} \X Code]
  OBVIOUS
<1>3. batches \in Nat /\ batches + 1 \in Batch
  BY <1>1, TwoFactorAssumption DEF VerifyTotp, TypeOK, Batch
<1>4. /\ image \in User /\ image.isBanned = row.isBanned
      /\ image.otpBackupCodes = {batches + 1} \X Code
  BY <1>1, <1>2, <1>3 DEF TypeOK, User, BackupCode
<1>5. UnusedIn(image)
  <2>1. ASSUME NEW c \in {batches + 1} \X Code PROVE uses[c] = 0
    <3>1. c \in BackupCode /\ c[1] = batches + 1 BY <1>3, <2>1 DEF BackupCode
    <3>2. uses[c] \in 0 .. 2 BY <1>1, <3>1 DEF TypeOK
    <3>3. uses[c] > 0 => c[1] <= batches BY <1>1, <3>1 DEF RowFresh
    <3> QED BY <1>3, <3>1, <3>2, <3>3
  <2> QED BY <1>4, <2>1 DEF UnusedIn
<1>6. PICK images : images = <<image>> OBVIOUS
<1>7. images \in Seq(User) /\ \A i \in DOMAIN images : images[i] = image BY <1>4, <1>6
<1>8. PICK code \in BackupCode \cup {Totp} : code = Totp OBVIOUS
<1>9. Start(r, code, images) /\ UNCHANGED <<row, uses, decided, clobbered>> /\ batches' = batches + 1
  BY <1>2, <1>6, <1>8 DEF VerifyTotp
<1>10. batches' \in Nat /\ batches <= batches' BY <1>3, <1>9
<1>11. Accepts(row, code) BY <1>8 DEF Accepts
<1>12. \A i \in DOMAIN images :
         /\ images[i].isBanned = row.isBanned
         /\ code # Totp => code \notin images[i].otpBackupCodes
         /\ ~clobbered => UnusedIn(images[i])
  BY <1>4, <1>5, <1>7, <1>8
<1> QED BY <1>7, <1>9, <1>10, <1>11, <1>12, StartFresh

LEMMA NewSecretFresh ==
    ASSUME CopiesInv, TwoFactorInv', NEW r \in Request, NewSecret(r), ~row.otpVerified
    PROVE  CopiesInv'
<1>1. TypeOK /\ Good(row) BY CopiesInvParts, InvIsAllGood DEF AllGood, Images
<1>2. PICK image : image = [row EXCEPT !.otpSecret = secrets + 1, !.otpActive = TRUE] OBVIOUS
<1>3. secrets + 1 \in 0 .. MaxSecrets BY <1>1, TwoFactorAssumption DEF TypeOK, NewSecret
<1>4. /\ image \in User /\ image.isBanned = row.isBanned
      /\ image.otpBackupCodes = row.otpBackupCodes /\ row.otpBackupCodes = {}
  BY <1>1, <1>2, <1>3 DEF Good, Fits, User
<1>5. PICK code \in BackupCode \cup {Totp} : code = Totp OBVIOUS
<1>6. Start(r, code, <<image>>) /\ Accepts(row, code)
      /\ UNCHANGED <<row, uses, decided, clobbered, batches>>
  BY <1>2, <1>5 DEF NewSecret, Accepts
<1> QED BY <1>4, <1>6, OneImageFresh

LEMMA InitFresh == Init => CopiesInv
<1> SUFFICES ASSUME Init PROVE CopiesInv OBVIOUS
<1>1. TwoFactorInv BY InitInv
<1>2. \A r \in Request : req[r] = Idle BY DEF Init
<1>3. HandlersFresh
  <2>1. Idle.saves = <<>> /\ Idle.code = Totp BY DEF Idle
  <2>2. Fresh(Idle) /\ TakenOut(Idle) BY <2>1 DEF Fresh, TakenOut
  <2> QED BY <1>2, <2>2 DEF HandlersFresh
<1>4. RowFresh
  <2>1. /\ \A c \in BackupCode : uses[c] = 0
        /\ row.otpBackupCodes = {} /\ row.isBanned = decided
    BY DEF Init
  <2> QED BY <2>1 DEF RowFresh, UnusedIn, CodesSpentOnce, BanStands
<1> QED BY <1>1, <1>3, <1>4, CopiesInvParts

LEMMA StepFresh == CopiesInv /\ [Next]_vars => CopiesInv'
<1> SUFFICES ASSUME CopiesInv, [Next]_vars PROVE CopiesInv' OBVIOUS
<1>1. TypeOK /\ Good(row) /\ TwoFactorInv /\ RowFresh
  BY CopiesInvParts, InvIsAllGood DEF AllGood, Images
<1>2. TwoFactorInv' BY <1>1, StepInv
<1>3. ASSUME NEW code PROVE /\ Spend(row, code) \in User
                            /\ Spend(row, code).isBanned = row.isBanned
                            /\ Spend(row, code).otpBackupCodes = row.otpBackupCodes \ {code}
  BY <1>1 DEF Good, User, Spend
<1>4. ASSUME NEW r \in Request, BeginTotp(r) \/ RequestUrlForVerification(r) PROVE CopiesInv'
  BY <1>1, <1>2, <1>4, NewSecretFresh DEF BeginTotp, RequestUrlForVerification, Good, Fits
<1>5. ASSUME NEW r \in Request, SaveOtherColumns(r) PROVE CopiesInv'
  <2>1. PICK code \in BackupCode \cup {Totp} : code = Totp OBVIOUS
  <2>2. Start(r, code, <<row>>) /\ Accepts(row, code) BY <1>5, <2>1 DEF SaveOtherColumns, Accepts
  <2>3. row.otpBackupCodes \subseteq row.otpBackupCodes \ {code}
    <3>1. code \notin row.otpBackupCodes \/ code \in BackupCode BY <1>1 DEF Good, User
    <3>2. Totp \notin BackupCode BY DEF Totp, BackupCode
    <3> QED BY <1>1, <2>1, <3>2 DEF Good, User
  <2> QED BY <1>1, <1>2, <1>5, <2>2, <2>3, OneImageFresh DEF SaveOtherColumns, Good
<1>6. ASSUME NEW r \in Request, NEW code \in BackupCode \cup {Totp}, DisableTotp(r, code)
      PROVE  CopiesInv'
  <2>1. PICK image : image = [row EXCEPT !.otpActive = FALSE, !.otpVerified = FALSE,
                                         !.otpSecret = 0, !.otpBackupCodes = {}]
    OBVIOUS
  <2>2. image \in User
    <3>1. row \in User /\ 0 \in 0 .. MaxSecrets BY <1>1, TwoFactorAssumption DEF Good
    <3>2. {} \in SUBSET BackupCode OBVIOUS
    <3> QED BY <2>1, <3>1, <3>2 DEF User
  <2>3. image.isBanned = row.isBanned /\ image.otpBackupCodes = {} BY <1>1, <2>1 DEF Good, User
  <2> QED BY <1>2, <1>6, <2>1, <2>2, <2>3, OneImageFresh DEF DisableTotp
<1>7. ASSUME NEW r \in Request, NEW code \in BackupCode \cup {Totp}, Login(r, code)
      PROVE  CopiesInv'
  <2>1. <<>> \in Seq(User) /\ DOMAIN <<>> = {} OBVIOUS
  <2>2. batches' \in Nat /\ batches <= batches' BY <1>1, <1>7 DEF TypeOK, Login
  <2> QED BY <1>2, <1>7, <2>1, <2>2, StartFresh DEF Login
<1>8. ASSUME NEW r \in Request, NEW code \in BackupCode \cup {Totp}, ChangePassword(r, code)
      PROVE  CopiesInv'
  BY <1>2, <1>3, <1>8, OneImageFresh DEF ChangePassword
<1>9. ASSUME NEW r \in Request, NEW code \in BackupCode \cup {Totp}, RequestEmailChange(r, code)
      PROVE  CopiesInv'
  <2>1. PICK image : image = Spend(row, code) OBVIOUS
  <2>2. PICK images : images = <<image, image>> OBVIOUS
  <2>3. images \in Seq(User) /\ \A i \in DOMAIN images : images[i] = image
    BY <1>3, <2>1, <2>2
  <2>4. \A i \in DOMAIN images :
           /\ images[i].isBanned = row.isBanned
           /\ code # Totp => code \notin images[i].otpBackupCodes
           /\ ~clobbered => UnusedIn(images[i])
    BY <1>1, <1>3, <2>1, <2>3 DEF RowFresh, UnusedIn
  <2>5. batches' \in Nat /\ batches <= batches' BY <1>1, <1>9 DEF TypeOK, RequestEmailChange
  <2> QED BY <1>2, <1>9, <2>1, <2>2, <2>3, <2>4, <2>5, StartFresh DEF RequestEmailChange
<1>10. ASSUME NEW r \in Request, Save(r) \/ Fail(r) \/ VerifyTotp(r) PROVE CopiesInv'
  BY <1>2, <1>10, SaveFresh, FailFresh, VerifyTotpFresh
<1>11. ASSUME NEW banned \in BOOLEAN, EditUser(banned) PROVE CopiesInv'
  BY <1>2, <1>11, EditUserFresh
<1>12. CASE UNCHANGED vars
  BY <1>2, <1>12 DEF vars, CopiesInv, AsRead, CodeTakenOut, UnusedIn, Running, CodesSpentOnce, BanStands
<1> QED BY <1>4, <1>5, <1>6, <1>7, <1>8, <1>9, <1>10, <1>11, <1>12 DEF Next

\* In every reachable state the columns of the row, and of every copy that a
\* running handler is about to save, are consistent (TwoFactorInv).
THEOREM TwoFactorInvariant == Spec => []TwoFactorInv
BY InitInv, StepInv, PTL DEF Spec

\* Two-factor is never on without a secret, whatever whole-row Saves of
\* concurrent handlers overwrite each other (authentication.go:49).
THEOREM ColumnsAlwaysFit == Spec => []ColumnsFit
<1>1. TwoFactorInv => ColumnsFit BY DEF TwoFactorInv
<1> QED BY <1>1, TwoFactorInvariant, PTL

\* Two-factor is only required for a secret its owner has shown a code of.
THEOREM VerifiedIsProven == Spec => []VerifiedSecretProven
<1>1. TwoFactorInv => VerifiedSecretProven BY DEF TwoFactorInv
<1> QED BY <1>1, TwoFactorInvariant, PTL

\* The backup codes always belong to the secret they are stored with.
THEOREM CodesMatchSecret == Spec => []CodesOfSecret
<1>1. TwoFactorInv => CodesOfSecret BY DEF TwoFactorInv
<1> QED BY <1>1, TwoFactorInvariant, PTL

\* In every reachable state a handler whose copy is current is about to save
\* the row with the ban it has and without a code used before (CopiesInv).
THEOREM CopiesInvariant == Spec => []CopiesInv
BY InitFresh, StepFresh, PTL DEF Spec

\* A backup code opens an account once (authentication.go:96), unless a Save
\* wrote back an outdated copy.
THEOREM CodesAlwaysSpentOnce == Spec => []CodesSpentOnce
<1>1. CopiesInv => CodesSpentOnce BY DEF CopiesInv
<1> QED BY <1>1, CopiesInvariant, PTL

\* A ban stands until an administrator lifts it (edit.go:66), again unless a
\* Save wrote back an outdated copy.
THEOREM BansAlwaysStand == Spec => []BanStands
<1>1. CopiesInv => BanStands BY DEF CopiesInv
<1> QED BY <1>1, CopiesInvariant, PTL
==============================================================================
