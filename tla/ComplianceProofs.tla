--------------------------- MODULE ComplianceProofs --------------------------
(***************************************************************************)
(* The indexes of flags, the history of the records of Compliance and the  *)
(* versions they are about, for any versions, certification types,         *)
(* certificates and dates.                                                 *)
(***************************************************************************)
EXTENDS Compliance, LedgerLemmas

\* A status that is set is the status the record has, and what the record
\* had is at the end of its history.
LEMMA StatusIsSet ==
  ASSUME NEW info, NEW date, NEW cd
  PROVE  /\ SetCertifiedStatus(info, date, cd).status = "certified"
         /\ SetCertifiedStatus(info, date, cd).date = date
         /\ SetCertifiedStatus(info, date, cd).history = Trail(info)
         /\ SetRevokedStatus(info, date).status = "revoked"
         /\ SetRevokedStatus(info, date).date = date
         /\ SetRevokedStatus(info, date).history = Trail(info)
BY DEF SetCertifiedStatus, SetRevokedStatus, SetStatus, Trail

\* A new record has the status it is made with.
LEMMA NewStatus ==
  ASSUME NEW k, NEW string, NEW status, NEW date, NEW cd
  PROVE  NewInfo(k, string, status, date, cd).status = status
BY DEF NewInfo

-----------------------------------------------------------------------------
(* The flags. *)

\* The indexes after a step that writes the record of k with this status,
\* and the flags of k and of no other record.
LEMMA FlagsWritten ==
  ASSUME FlagsAgree, NEW k \in Key, NEW info,
         complianceInfo' = Put(complianceInfo, k, info),
         Flagged(certifiedModel', k) <=> info.status = "certified",
         Flagged(revokedModel', k) <=> info.status = "revoked",
         Flagged(provisionalModel', k) <=> info.status = "provisional",
         \A j \in Key : j # k =>
           /\ Flagged(certifiedModel', j) <=> Flagged(certifiedModel, j)
           /\ Flagged(revokedModel', j) <=> Flagged(revokedModel, j)
           /\ Flagged(provisionalModel', j) <=> Flagged(provisionalModel, j)
  PROVE  FlagsAgree'
<1>1. \A s : HasStatus(k, s)' <=> info.status = s
  BY DEF HasStatus, Put
<1>2. \A j \in Key : \A s : j # k => (HasStatus(j, s)' <=> HasStatus(j, s))
  BY DEF HasStatus, Put
<1>3. QED
  BY <1>1, <1>2, Zenon DEF FlagsAgree

\* What Put does to the flags of an index.
LEMMA PutFlag ==
  ASSUME NEW index, NEW k, NEW flag \in BOOLEAN
  PROVE  /\ Flagged(Put(index, k, flag), k) <=> flag
         /\ \A j : j # k => (Flagged(Put(index, k, flag), j) <=> Flagged(index, j))
BY DEF Flagged, Put

\* Certification sets one flag and clears two.
LEMMA CertifyFlags ==
  ASSUME FlagsAgree, NEW signer, NEW k \in Key, NEW string, NEW date, NEW cd,
         CertifyModel(signer, k, string, date, cd)
  PROVE  FlagsAgree'
<1>1. PICK info : info.status = "certified" /\ complianceInfo' = Put(complianceInfo, k, info)
  BY StatusIsSet, NewStatus DEF CertifyModel
<1>2. /\ certifiedModel' = Put(certifiedModel, k, TRUE)
      /\ revokedModel' = Put(revokedModel, k, FALSE)
      /\ provisionalModel' = Put(provisionalModel, k, FALSE)
  BY DEF CertifyModel
<1>3. /\ Flagged(certifiedModel', k) /\ ~Flagged(revokedModel', k)
      /\ ~Flagged(provisionalModel', k)
      /\ \A j \in Key : j # k =>
           /\ Flagged(certifiedModel', j) <=> Flagged(certifiedModel, j)
           /\ Flagged(revokedModel', j) <=> Flagged(revokedModel, j)
           /\ Flagged(provisionalModel', j) <=> Flagged(provisionalModel, j)
  BY <1>2, PutFlag, Zenon
<1>4. QED
  BY <1>1, <1>3, FlagsWritten

\* Revocation clears the other flags, which without a record are not set.
LEMMA RevokeFlags ==
  ASSUME FlagsAgree, NEW signer, NEW k \in Key, NEW string, NEW date,
         RevokeModel(signer, k, string, date)
  PROVE  FlagsAgree'
<1>1. PICK info : info.status = "revoked" /\ complianceInfo' = Put(complianceInfo, k, info)
  <2>1. CASE k \in DOMAIN complianceInfo
    <3>1. complianceInfo' =
            Put(complianceInfo, k, SetRevokedStatus(complianceInfo[k], date))
      BY <2>1, Zenon DEF RevokeModel
    <3>2. SetRevokedStatus(complianceInfo[k], date).status = "revoked"
      BY StatusIsSet
    <3>3. QED
      BY <3>1, <3>2
  <2>2. CASE k \notin DOMAIN complianceInfo
    <3>1. complianceInfo' = Put(complianceInfo, k,
                                NewInfo(k, string, "revoked", date, NoCertificate))
      BY <2>2, Zenon DEF RevokeModel
    <3>2. NewInfo(k, string, "revoked", date, NoCertificate).status = "revoked"
      BY NewStatus
    <3>3. QED
      BY <3>1, <3>2
  <2>3. QED
    BY <2>1, <2>2
<1>2. revokedModel' = Put(revokedModel, k, TRUE)
  BY DEF RevokeModel
<1>3. \/ /\ certifiedModel' = Put(certifiedModel, k, FALSE)
         /\ provisionalModel' = Put(provisionalModel, k, FALSE)
      \/ /\ k \notin DOMAIN complianceInfo
         /\ certifiedModel' = certifiedModel /\ provisionalModel' = provisionalModel
  BY Zenon DEF RevokeModel
<1>4. k \notin DOMAIN complianceInfo =>
        ~Flagged(certifiedModel, k) /\ ~Flagged(provisionalModel, k)
  BY DEF FlagsAgree, HasStatus
<1>5. /\ ~Flagged(certifiedModel', k) /\ Flagged(revokedModel', k)
      /\ ~Flagged(provisionalModel', k)
      /\ \A j \in Key : j # k =>
           /\ Flagged(certifiedModel', j) <=> Flagged(certifiedModel, j)
           /\ Flagged(revokedModel', j) <=> Flagged(revokedModel, j)
           /\ Flagged(provisionalModel', j) <=> Flagged(provisionalModel, j)
  <2>1. CASE /\ certifiedModel' = Put(certifiedModel, k, FALSE)
             /\ provisionalModel' = Put(provisionalModel, k, FALSE)
    BY <1>2, <2>1, PutFlag, Zenon
  <2>2. CASE /\ k \notin DOMAIN complianceInfo
             /\ certifiedModel' = certifiedModel /\ provisionalModel' = provisionalModel
    BY <1>2, <1>4, <2>2, PutFlag, Zenon
  <2>3. QED
    BY <1>3, <2>1, <2>2, Zenon
<1>6. QED
  BY <1>1, <1>5, FlagsWritten

\* A record that begins as provisional has no other flag.
LEMMA ProvisionFlags ==
  ASSUME FlagsAgree, NEW signer, NEW k \in Key, NEW string, NEW date, NEW cd,
         ProvisionModel(signer, k, string, date, cd)
  PROVE  FlagsAgree'
<1>1. PICK info : info.status = "provisional" /\ complianceInfo' = Put(complianceInfo, k, info)
  BY NewStatus DEF ProvisionModel
<1>2. /\ provisionalModel' = Put(provisionalModel, k, TRUE)
      /\ certifiedModel' = certifiedModel /\ revokedModel' = revokedModel
  BY DEF ProvisionModel
<1>3. ~Flagged(certifiedModel, k) /\ ~Flagged(revokedModel, k)
  BY DEF FlagsAgree, HasStatus, ProvisionModel
<1>4. /\ ~Flagged(certifiedModel', k) /\ ~Flagged(revokedModel', k)
      /\ Flagged(provisionalModel', k)
      /\ \A j \in Key : j # k =>
           /\ Flagged(certifiedModel', j) <=> Flagged(certifiedModel, j)
           /\ Flagged(revokedModel', j) <=> Flagged(revokedModel, j)
           /\ Flagged(provisionalModel', j) <=> Flagged(provisionalModel, j)
  BY <1>2, <1>3, PutFlag, Zenon
<1>5. QED
  BY <1>1, <1>4, FlagsWritten

\* The inductive step: FlagsAgree needs no strengthening.
LEMMA FlagsStep == FlagsAgree /\ [Next]_vars => FlagsAgree'
<1> SUFFICES ASSUME FlagsAgree, [Next]_vars PROVE FlagsAgree'
  OBVIOUS
<1>1. CASE ComplianceTx
  BY <1>1, CertifyFlags, RevokeFlags, ProvisionFlags, Zenon DEF ComplianceTx
<1>2. CASE ChangeCenters \/ AddVersion \/ UNCHANGED vars
  BY <1>2 DEF ChangeCenters, AddVersion, vars, records, flags, FlagsAgree, HasStatus
<1>3. QED
  BY <1>1, <1>2 DEF Next

\* The indexes that the queries of x/compliance read say what the records
\* say, in every reachable state.
THEOREM FlagsCorrect == Spec => []FlagsAgree
<1>1. Init => FlagsAgree
  BY EmptyIsStore DEF Init, InitRecords, FlagsAgree, HasStatus, Flagged
<1>2. QED
  BY <1>1, FlagsStep, PTL DEF Spec

-----------------------------------------------------------------------------
(* The history. *)

\* A step that writes one record, by setting a new status or by making it.
LEMMA TrailWritten ==
  ASSUME NEW k, NEW info, complianceInfo' = Put(complianceInfo, k, info),
         k \in DOMAIN complianceInfo =>
           /\ info.history = Trail(complianceInfo[k])
           /\ info.status \notin {complianceInfo[k].status, "provisional"}
           /\ info.date >= complianceInfo[k].date
  PROVE  TrailStep
BY DEF TrailStep, Put

\* Certification and revocation check the status and the date of the record
\* they find, and make it a part of the history.
LEMMA TrailHolds == [Next]_vars => TrailStep \/ UNCHANGED vars
<1> SUFFICES ASSUME Next PROVE TrailStep
  OBVIOUS
<1>1. ASSUME UNCHANGED complianceInfo PROVE TrailStep
  BY <1>1 DEF TrailStep
<1>2. ASSUME NEW signer, NEW k, NEW string, NEW date, NEW cd,
             CertifyModel(signer, k, string, date, cd)
      PROVE  TrailStep
  <2>1. CASE k \in DOMAIN complianceInfo
    <3> DEFINE info == SetCertifiedStatus(complianceInfo[k], date, cd)
    <3>1. complianceInfo' = Put(complianceInfo, k, info)
      BY <1>2, <2>1 DEF CertifyModel
    <3>2. complianceInfo[k].status # "certified" /\ date >= complianceInfo[k].date
      BY <1>2, <2>1 DEF CertifyModel, CanChange
    <3>3. /\ info.history = Trail(complianceInfo[k])
          /\ info.status = "certified" /\ info.date = date
      BY StatusIsSet
    <3> HIDE DEF info
    <3>4. QED
      BY <3>1, <3>2, <3>3, TrailWritten
  <2>2. CASE k \notin DOMAIN complianceInfo
    BY <1>2, <2>2, TrailWritten, Zenon DEF CertifyModel
  <2>3. QED
    BY <2>1, <2>2
<1>3. ASSUME NEW signer, NEW k, NEW string, NEW date, RevokeModel(signer, k, string, date)
      PROVE  TrailStep
  <2>1. CASE k \in DOMAIN complianceInfo
    <3> DEFINE info == SetRevokedStatus(complianceInfo[k], date)
    <3>1. complianceInfo' = Put(complianceInfo, k, info)
      BY <1>3, <2>1, Zenon DEF RevokeModel
    <3>2. complianceInfo[k].status # "revoked" /\ date >= complianceInfo[k].date
      BY <1>3, <2>1 DEF RevokeModel, CanChange
    <3>3. /\ info.history = Trail(complianceInfo[k])
          /\ info.status = "revoked" /\ info.date = date
      BY StatusIsSet
    <3> HIDE DEF info
    <3>4. QED
      BY <3>1, <3>2, <3>3, TrailWritten
  <2>2. CASE k \notin DOMAIN complianceInfo
    BY <1>3, <2>2, TrailWritten, Zenon DEF RevokeModel
  <2>3. QED
    BY <2>1, <2>2
<1>4. ASSUME NEW signer, NEW k, NEW string, NEW date, NEW cd,
             ProvisionModel(signer, k, string, date, cd)
      PROVE  TrailStep
  BY <1>4, TrailWritten, Zenon DEF ProvisionModel
<1>5. CASE ComplianceTx
  BY <1>2, <1>3, <1>4, <1>5, Zenon DEF ComplianceTx
<1>6. CASE ChangeCenters \/ AddVersion
  BY <1>1, <1>6 DEF ChangeCenters, AddVersion, records
<1>7. QED
  BY <1>5, <1>6 DEF Next

\* Statuses are added to the history of a record in the order of their
\* dates, none is lost or repeated, and provisional is only ever the first.
THEOREM TrailCorrect == Spec => TrailGrowsInOrder
BY TrailHolds, PTL DEF Spec, TrailGrowsInOrder

-----------------------------------------------------------------------------
(* What a record is decided on. *)

\* A transaction writes the record of k: a new one, of a version that is
\* there with its string unless the record is provisional, or one with the
\* next status, of a version that is there with the string of the message.
Writes(k, string, info) ==
  /\ complianceInfo' = Put(complianceInfo, k, info)
  /\ info.key = k /\ info.date \in Date /\ info.status \in Status
  /\ info.status # "provisional" => VersionMatches(k[1], string)
  /\ \/ k \notin DOMAIN complianceInfo /\ info.history = <<>> /\ info.string = string
     \/ /\ k \in DOMAIN complianceInfo
        /\ info.history = Trail(complianceInfo[k]) /\ info.string = complianceInfo[k].string
        /\ info.status \notin {complianceInfo[k].status, "provisional"}

\* What every record is: its key, its dates and statuses, and provisional
\* only when it has no history.
RecordsOK ==
  \A k \in DOMAIN complianceInfo :
    /\ k \in Key
    /\ complianceInfo[k].key = k
    /\ complianceInfo[k].status \in Status
    /\ complianceInfo[k].date \in Date
    /\ complianceInfo[k].history \in Seq([status : Status, date : Date])
    /\ complianceInfo[k].status = "provisional" => complianceInfo[k].history = <<>>

\* Certification writes a record, and lists it.
LEMMA CertifyWrites ==
  ASSUME RecordsOK, NEW signer, NEW k, NEW string, NEW date \in Date, NEW cd,
         CertifyModel(signer, k, string, date, cd)
  PROVE  \E info : /\ Writes(k, string, info) /\ info.status = "certified" /\ info.certificate = cd
                   /\ ListCertified(info)
<1>1. PICK info :
        /\ info = IF k \in DOMAIN complianceInfo
                  THEN SetStatus(complianceInfo[k], "certified", date, cd)
                  ELSE NewInfo(k, string, "certified", date, cd)
        /\ complianceInfo' = Put(complianceInfo, k, info) /\ ListCertified(info)
        /\ VersionMatches(k[1], string) /\ CanChange(k, "certified", date)
  BY Zenon DEF CertifyModel, SetCertifiedStatus
<1>2. info.status = "certified" /\ info.certificate = cd /\ info.date = date
  BY <1>1 DEF NewInfo, SetStatus
<1>3. CASE k \in DOMAIN complianceInfo
  <2>1. info.key = k /\ info.string = complianceInfo[k].string
        /\ info.history = Trail(complianceInfo[k])
    BY <1>1, <1>3 DEF RecordsOK, SetStatus, Trail
  <2>2. complianceInfo[k].status # "certified"
    BY <1>1, <1>3, Zenon DEF CanChange
  <2>3. QED
    BY <1>1, <1>2, <1>3, <2>1, <2>2 DEF Writes, Status
<1>4. CASE k \notin DOMAIN complianceInfo
  <2>1. info.key = k /\ info.string = string /\ info.history = <<>>
    BY <1>1, <1>4 DEF NewInfo
  <2>2. QED
    BY <1>1, <1>2, <1>4, <2>1 DEF Writes, Status
<1>5. QED
  BY <1>3, <1>4, Zenon

\* Revocation writes a record; one that is there leaves its list.
LEMMA RevokeWrites ==
  ASSUME RecordsOK, NEW signer, NEW k, NEW string, NEW date \in Date,
         RevokeModel(signer, k, string, date)
  PROVE  \E info : /\ Writes(k, string, info) /\ info.status = "revoked"
                   /\ \/ /\ k \in DOMAIN complianceInfo
                         /\ info.certificate = complianceInfo[k].certificate
                         /\ UnlistRevoked(info, k[1], string)
                      \/ k \notin DOMAIN complianceInfo /\ UNCHANGED deviceSoftwareCompliance
<1>1. VersionMatches(k[1], string) /\ CanChange(k, "revoked", date)
  BY Zenon DEF RevokeModel
<1>2. CASE k \in DOMAIN complianceInfo
  <2>1. PICK info :
          /\ info = SetStatus(complianceInfo[k], "revoked", date, complianceInfo[k].certificate)
          /\ complianceInfo' = Put(complianceInfo, k, info) /\ UnlistRevoked(info, k[1], string)
    BY <1>2, Zenon DEF RevokeModel, SetRevokedStatus
  <2>2. /\ info.key = k /\ info.string = complianceInfo[k].string /\ info.status = "revoked"
        /\ info.date = date /\ info.history = Trail(complianceInfo[k])
        /\ info.certificate = complianceInfo[k].certificate
    BY <1>2, <2>1 DEF RecordsOK, SetStatus, Trail
  <2>3. complianceInfo[k].status # "revoked"
    BY <1>1, <1>2, Zenon DEF CanChange
  <2>4. QED
    BY <1>1, <1>2, <2>1, <2>2, <2>3 DEF Writes, Status
<1>3. CASE k \notin DOMAIN complianceInfo
  <2>1. PICK info : /\ info = NewInfo(k, string, "revoked", date, NoCertificate)
                    /\ complianceInfo' = Put(complianceInfo, k, info)
                    /\ UNCHANGED deviceSoftwareCompliance
    BY <1>3, Zenon DEF RevokeModel
  <2>2. /\ info.key = k /\ info.string = string /\ info.status = "revoked"
        /\ info.date = date /\ info.history = <<>>
    BY <2>1 DEF NewInfo
  <2>3. QED
    BY <1>1, <1>3, <2>1, <2>2 DEF Writes, Status
<1>4. QED
  BY <1>2, <1>3, Zenon

\* A provisional record is a new one, of any version.
LEMMA ProvisionWrites ==
  ASSUME NEW signer, NEW k, NEW string, NEW date \in Date, NEW cd,
         ProvisionModel(signer, k, string, date, cd)
  PROVE  /\ \E info : Writes(k, string, info) /\ info.status = "provisional"
         /\ k \notin DOMAIN complianceInfo /\ UNCHANGED deviceSoftwareCompliance
<1>1. PICK info : /\ info = NewInfo(k, string, "provisional", date, cd)
                  /\ complianceInfo' = Put(complianceInfo, k, info)
                  /\ k \notin DOMAIN complianceInfo /\ UNCHANGED deviceSoftwareCompliance
  BY Zenon DEF ProvisionModel
<1>2. /\ info.key = k /\ info.string = string /\ info.status = "provisional"
      /\ info.date = date /\ info.history = <<>>
  BY <1>1 DEF NewInfo
<1>3. QED
  BY <1>1, <1>2 DEF Writes, Status

\* The first status of a record stays the first.
LEMMA FirstStays ==
  ASSUME NEW S, NEW h \in Seq(S), NEW e \in S, NEW f
  PROVE  /\ Append(h, e) \in Seq(S)
         /\ Append(Append(h, e), f)[1] = Append(h, e)[1]
         /\ h = <<>> => Append(h, e)[1] = e
OBVIOUS

\* Whatever is written, records stay what they are.
LEMMA WritesKeepRecords ==
  ASSUME RecordsOK, NEW k \in Key, NEW string, NEW info, Writes(k, string, info)
  PROVE  RecordsOK'
<1>1. info.history \in Seq([status : Status, date : Date])
  <2>1. CASE k \notin DOMAIN complianceInfo
    <3>1. info.history = <<>>
      BY <2>1, Zenon DEF Writes
    <3>2. QED
      BY <3>1
  <2>2. CASE k \in DOMAIN complianceInfo
    <3>1. [status |-> complianceInfo[k].status, date |-> complianceInfo[k].date]
            \in [status : Status, date : Date]
      BY <2>2 DEF RecordsOK
    <3>2. complianceInfo[k].history \in Seq([status : Status, date : Date])
      BY <2>2, Zenon DEF RecordsOK
    <3>3. Trail(complianceInfo[k]) \in Seq([status : Status, date : Date])
      BY <3>1, <3>2, FirstStays, Zenon DEF Trail
    <3>4. QED
      BY <2>2, <3>3, Zenon DEF Writes
  <2>3. QED
    BY <2>1, <2>2, Zenon
<1>2. info.status = "provisional" => info.history = <<>>
  BY DEF Writes
<1>3. info.key = k /\ info.status \in Status /\ info.date \in Date
  BY Zenon DEF Writes
<1>4. /\ DOMAIN complianceInfo' = DOMAIN complianceInfo \cup {k} /\ complianceInfo'[k] = info
      /\ \A j \in DOMAIN complianceInfo : j # k => complianceInfo'[j] = complianceInfo[j]
  BY DEF Writes, Put
<1>5. QED
  BY <1>1, <1>2, <1>3, <1>4, Zenon DEF RecordsOK

\* A record that was certified or revoked has its version on the ledger,
\* with its string unless the record began as a provisional one.
DecidedOnVersion ==
  \A k \in DOMAIN complianceInfo :
    complianceInfo[k].status # "provisional" =>
      /\ k[1] \in DOMAIN versionString
      /\ \/ Trail(complianceInfo[k])[1].status = "provisional"
         \/ complianceInfo[k].string = versionString[k[1]]

\* Certification and revocation look at the version; a record that was not
\* decided before is provisional, and its first status is too.
LEMMA WritesAreDecided ==
  ASSUME RecordsOK, DecidedOnVersion, NEW k \in Key, NEW string, NEW info,
         Writes(k, string, info), UNCHANGED versionString
  PROVE  DecidedOnVersion'
<1>1. /\ DOMAIN complianceInfo' = DOMAIN complianceInfo \cup {k} /\ complianceInfo'[k] = info
      /\ \A j \in DOMAIN complianceInfo : j # k => complianceInfo'[j] = complianceInfo[j]
  BY DEF Writes, Put
<1>2. ASSUME info.status # "provisional"
      PROVE  /\ k[1] \in DOMAIN versionString
             /\ Trail(info)[1].status = "provisional" \/ info.string = versionString[k[1]]
  <2>1. k[1] \in DOMAIN versionString /\ versionString[k[1]] = string
    BY <1>2, Zenon DEF Writes, VersionMatches
  <2>2. CASE k \notin DOMAIN complianceInfo
    BY <2>1, <2>2, Zenon DEF Writes
  <2>3. CASE k \in DOMAIN complianceInfo
    <3>1. PICK old : old = complianceInfo[k]
      BY Zenon
    <3>2. info.history = Trail(old) /\ info.string = old.string
      BY <2>3, <3>1, Zenon DEF Writes
    <3>3. PICK e \in [status : Status, date : Date] : e = [status |-> old.status, date |-> old.date]
      BY <2>3, <3>1, Zenon DEF RecordsOK
    <3>4. old.history \in Seq([status : Status, date : Date])
      BY <2>3, <3>1, Zenon DEF RecordsOK
    <3>5. Trail(info)[1] = Trail(old)[1] /\ (old.history = <<>> => Trail(old)[1] = e)
      <4>1. PICK f : Trail(info) = Append(info.history, f)
        BY Zenon DEF Trail
      <4>2. Trail(old) = Append(old.history, e)
        BY <3>3, Zenon DEF Trail
      <4>3. /\ Append(Append(old.history, e), f)[1] = Append(old.history, e)[1]
            /\ old.history = <<>> => Append(old.history, e)[1] = e
        <5>1. PICK S : S = [status : Status, date : Date]
          BY Zenon
        <5>2. old.history \in Seq(S) /\ e \in S
          BY <3>4, <5>1, Zenon
        <5>3. QED
          BY <5>2, FirstStays
      <4>4. QED
        BY <3>2, <4>1, <4>2, <4>3, Zenon
    <3>6. CASE old.status = "provisional"
      <4>1. Trail(old)[1] = e
        BY <2>3, <3>1, <3>5, <3>6, Zenon DEF RecordsOK
      <4>2. QED
        BY <2>1, <3>3, <3>5, <3>6, <4>1
    <3>7. CASE old.status # "provisional"
      BY <2>1, <2>3, <3>1, <3>2, <3>5, <3>7, Zenon DEF DecidedOnVersion
    <3>8. QED
      BY <3>6, <3>7, Zenon
  <2>4. QED
    BY <2>2, <2>3, Zenon
<1>3. ASSUME NEW j \in DOMAIN complianceInfo', complianceInfo'[j].status # "provisional"
      PROVE  /\ j[1] \in DOMAIN versionString
             /\ \/ Trail(complianceInfo'[j])[1].status = "provisional"
                \/ complianceInfo'[j].string = versionString[j[1]]
  <2>1. CASE j = k
    BY <1>1, <1>2, <1>3, <2>1, Zenon
  <2>2. CASE j # k
    BY <1>1, <1>3, <2>2, Zenon DEF DecidedOnVersion
  <2>3. QED
    BY <2>1, <2>2, Zenon
<1>4. QED
  BY <1>3, Zenon DEF DecidedOnVersion, Trail

\* Versions that are added take nothing from those that are there.
LEMMA AddKeepsDecided ==
  ASSUME DecidedOnVersion, AddVersion
  PROVE  DecidedOnVersion'
<1>1. PICK v, string : v \notin DOMAIN versionString /\ versionString' = Put(versionString, v, string)
  BY Zenon DEF AddVersion
<1>2. UNCHANGED complianceInfo
  BY Zenon DEF AddVersion, records
<1>3. \A x \in DOMAIN versionString : x \in DOMAIN versionString' /\ versionString'[x] = versionString[x]
  BY <1>1 DEF Put
<1>4. QED
  BY <1>2, <1>3, Zenon DEF DecidedOnVersion, Trail

\* The two together are inductive.
LEMMA DecidedStep == RecordsOK /\ DecidedOnVersion /\ [Next]_vars => RecordsOK' /\ DecidedOnVersion'
<1> SUFFICES ASSUME RecordsOK, DecidedOnVersion, [Next]_vars PROVE RecordsOK' /\ DecidedOnVersion'
  BY Zenon
<1>1. ASSUME NEW k \in Key, NEW string, NEW info, Writes(k, string, info), UNCHANGED versionString
      PROVE  RecordsOK' /\ DecidedOnVersion'
  BY <1>1, WritesKeepRecords, WritesAreDecided, Zenon
<1>2. ASSUME NEW signer, NEW k \in Key, NEW string, NEW date \in Date, NEW cd,
             CertifyModel(signer, k, string, date, cd)
      PROVE  RecordsOK' /\ DecidedOnVersion'
  <2>1. UNCHANGED versionString
    BY <1>2, Zenon DEF CertifyModel
  <2>2. QED
    BY <1>1, <1>2, <2>1, CertifyWrites, Zenon
<1>3. ASSUME NEW signer, NEW k \in Key, NEW string, NEW date \in Date,
             RevokeModel(signer, k, string, date)
      PROVE  RecordsOK' /\ DecidedOnVersion'
  <2>1. UNCHANGED versionString
    BY <1>3, Zenon DEF RevokeModel
  <2>2. QED
    BY <1>1, <1>3, <2>1, RevokeWrites, Zenon
<1>4. ASSUME NEW signer, NEW k \in Key, NEW string, NEW date \in Date, NEW cd,
             ProvisionModel(signer, k, string, date, cd)
      PROVE  RecordsOK' /\ DecidedOnVersion'
  <2>1. UNCHANGED versionString
    BY <1>4, Zenon DEF ProvisionModel
  <2>2. QED
    BY <1>1, <1>4, <2>1, ProvisionWrites, Zenon
<1>5. CASE ComplianceTx
  BY <1>2, <1>3, <1>4, <1>5, Zenon DEF ComplianceTx
<1>6. CASE AddVersion
  <2>1. UNCHANGED complianceInfo
    BY <1>6, Zenon DEF AddVersion, records
  <2>2. QED
    BY <1>6, <2>1, AddKeepsDecided, Zenon DEF RecordsOK
<1>7. CASE ChangeCenters \/ UNCHANGED vars
  <2>1. UNCHANGED complianceInfo /\ UNCHANGED versionString
    BY <1>7, Zenon DEF ChangeCenters, vars, records
  <2>2. QED
    BY <2>1, Zenon DEF RecordsOK, DecidedOnVersion, Trail
<1>8. QED
  BY <1>5, <1>6, <1>7, Zenon DEF Next

\* Nothing is certified or revoked that is not on the ledger: CertifyModel
\* and RevokeModel find its version, and versions stay.
THEOREM DecidedCorrect == Spec => [](RecordsOK /\ DecidedOnVersion)
<1>1. Init => RecordsOK /\ DecidedOnVersion
  BY EmptyIsStore DEF Init, InitRecords, RecordsOK, DecidedOnVersion
<1>2. QED
  BY <1>1, DecidedStep, PTL DEF Spec

-----------------------------------------------------------------------------
(* The lists of the compliance certificates. *)

\* The list holds what is in S, each once and nothing else.
HoldsOnce(list, S) ==
  /\ list \in Seq(S) /\ Range(list) = S
  /\ \A i, j \in DOMAIN list : list[i] = list[j] => i = j

\* It is empty when there is nothing to hold.
LEMMA EmptyHolds ==
  ASSUME NEW list, NEW S, HoldsOnce(list, S)
  PROVE  list = <<>> <=> S = {}
BY DEF HoldsOnce, Range

\* The empty list holds nothing.
LEMMA NothingHeld == HoldsOnce(<<>>, {})
BY DEF HoldsOnce, Range

\* SetDeviceSoftwareCompliance with one more at the end.
LEMMA AppendHolds ==
  ASSUME NEW list, NEW S, HoldsOnce(list, S), NEW x, x \notin S
  PROVE  HoldsOnce(Append(list, x), S \cup {x})
<1>1. PICK T : T = S \cup {x}
  BY Zenon
<1>2. list \in Seq(S) /\ Range(list) = S /\ \A i, j \in DOMAIN list : list[i] = list[j] => i = j
  BY Zenon DEF HoldsOnce
<1>3. list \in Seq(T) /\ x \in T
  BY <1>1, <1>2
<1>4. PICK new : new = Append(list, x)
  BY Zenon
<1>5. /\ new \in Seq(T) /\ Len(list) \in Nat /\ DOMAIN list = 1..Len(list)
      /\ DOMAIN new = 1..(Len(list) + 1) /\ new[Len(list) + 1] = x
      /\ \A i \in 1..Len(list) : new[i] = list[i]
  BY <1>3, <1>4
<1>6. \A i \in 1..(Len(list) + 1) : i \in DOMAIN list \/ i = Len(list) + 1
  BY <1>5
<1>7. \A i \in DOMAIN list : i \in DOMAIN new /\ Len(list) + 1 \in DOMAIN new
  BY <1>5
<1>8. Len(list) + 1 \in DOMAIN new
  BY <1>5
<1>9. \A i \in DOMAIN list : list[i] \in S
  BY <1>2
<1>10. Range(new) = T
  <2>1. \A y : y \in Range(new) <=> \E i \in DOMAIN new : new[i] = y
    BY DEF Range
  <2>2. \A y \in S : \E i \in DOMAIN list : list[i] = y
    BY <1>2 DEF Range
  <2>3. \A y : y \in T <=> y \in S \/ y = x
    BY <1>1
  <2>4. \A y : y \in Range(new) <=> y \in T
    BY <1>5, <1>6, <1>7, <1>8, <1>9, <2>1, <2>2, <2>3, Zenon
  <2>5. QED
    BY <2>4, Zenon
<1>11. \A i, j \in DOMAIN new : new[i] = new[j] => i = j
  BY <1>2, <1>5, <1>6, <1>9, Zenon
<1>12. QED
  BY <1>1, <1>4, <1>5, <1>10, <1>11, Zenon DEF HoldsOnce

\* A place is cut from the list.
LEMMA CutHolds ==
  ASSUME NEW list, NEW S, HoldsOnce(list, S), NEW first \in DOMAIN list
  PROVE  HoldsOnce(SubSeq(list, 1, first - 1) \o SubSeq(list, first + 1, Len(list)),
                   S \ {list[first]})
<1>1. PICK rest : rest = SubSeq(list, 1, first - 1) \o SubSeq(list, first + 1, Len(list))
  BY Zenon
<1>2. list \in Seq(S) /\ Range(list) = S /\ \A i, j \in DOMAIN list : list[i] = list[j] => i = j
  BY Zenon DEF HoldsOnce
<1>3. Len(list) \in Nat /\ DOMAIN list = 1..Len(list) /\ first \in 1..Len(list) /\ first \in Nat
  BY <1>2
<1>4. rest \in Seq(S) /\ CutFrom(rest, list, first)
  BY <1>1, <1>2, <1>3, CutPlaces, Zenon
<1>5. /\ Len(rest) = Len(list) - 1
      /\ \A i \in DOMAIN rest : rest[i] = IF i < first THEN list[i] ELSE list[i + 1]
  BY <1>4, Zenon DEF CutFrom
<1>6. DOMAIN rest = 1..(Len(list) - 1)
  BY <1>4, <1>5
\* Where the places of rest come from.
<1>7. PICK from \in [1..(Len(list) - 1) -> Int] :
        \A i \in 1..(Len(list) - 1) : from[i] = IF i < first THEN i ELSE i + 1
  <2>1. [i \in 1..(Len(list) - 1) |-> IF i < first THEN i ELSE i + 1] \in [1..(Len(list) - 1) -> Int]
    BY <1>3
  <2>2. QED
    BY <2>1, Zenon
<1>8. \A i \in DOMAIN rest : /\ rest[i] = list[from[i]] /\ from[i] \in DOMAIN list
                             /\ from[i] # first
  <2>1. \A i \in 1..(Len(list) - 1) : from[i] \in 1..Len(list) /\ from[i] # first
    BY <1>3, <1>7
  <2>2. QED
    BY <1>3, <1>5, <1>6, <1>7, <2>1
<1>9. \A i, j \in DOMAIN rest : from[i] = from[j] => i = j
  BY <1>3, <1>6, <1>7
<1>10. \A n \in DOMAIN list : n # first => \E i \in DOMAIN rest : from[i] = n
  <2>1. ASSUME NEW n \in DOMAIN list, n # first
        PROVE  \E i \in 1..(Len(list) - 1) : from[i] = n
    <3>1. CASE n < first
      BY <1>3, <1>7, <2>1, <3>1
    <3>2. CASE n > first
      <4>1. n - 1 \in 1..(Len(list) - 1) /\ ~(n - 1 < first) /\ (n - 1) + 1 = n
        BY <1>3, <2>1, <3>2
      <4>2. QED
        BY <1>7, <4>1
    <3>3. QED
      BY <1>3, <2>1, <3>1, <3>2
  <2>2. QED
    BY <1>6, <2>1
<1>11. PICK T : T = S \ {list[first]}
  BY Zenon
<1>12. \A y : y \in T <=> y \in S /\ y # list[first]
  BY <1>11
<1>13. \A i \in DOMAIN list : list[i] \in S
  BY <1>2
<1>14. \A y \in S : \E i \in DOMAIN list : list[i] = y
  BY <1>2 DEF Range
<1>15. \A i \in DOMAIN rest : rest[i] \in T
  BY <1>2, <1>8, <1>12, <1>13, Zenon
<1>16. rest \in Seq(T)
  BY <1>4, <1>15
<1>17. Range(rest) = T
  <2>1. \A y : y \in Range(rest) <=> \E i \in DOMAIN rest : rest[i] = y
    BY DEF Range
  <2>2. \A y : y \in Range(rest) => y \in T
    BY <1>15, <2>1, Zenon
  <2>3. ASSUME NEW y \in T
        PROVE  y \in Range(rest)
    <3>1. PICK n \in DOMAIN list : list[n] = y /\ n # first
      BY <1>12, <1>14, Zenon
    <3>2. QED
      BY <1>8, <1>10, <2>1, <3>1, ZenonT(60)
  <2>4. QED
    BY <2>2, <2>3, Zenon
<1>18. \A i, j \in DOMAIN rest : rest[i] = rest[j] => i = j
  BY <1>2, <1>8, <1>9, Zenon
<1>19. QED
  BY <1>1, <1>11, <1>16, <1>17, <1>18, Zenon DEF HoldsOnce

\* The copies that the list of a certificate is to hold.
CertifiedIn(infos, cd) ==
  {k \in DOMAIN infos : infos[k].status = "certified" /\ infos[k].certificate = cd}

CopiesIn(infos, cd) == {infos[k] : k \in CertifiedIn(infos, cd)}

ListIn(lists, cd) == IF cd \in DOMAIN lists THEN lists[cd] ELSE <<>>

\* The copy has another string than its version.
MisnamedIn(strings, copy) ==
  copy.key[1] \in DOMAIN strings /\ copy.string # strings[copy.key[1]]

\* The copy is of a record as it is now, or as it was before it changed.
Past(infos, copy) ==
  /\ copy.key \in DOMAIN infos /\ Len(copy.history) \in Nat
  /\ copy = infos[copy.key] \/ Len(copy.history) < Len(infos[copy.key].history)

\* A list holds what it is to hold, and else only misnamed copies of the past.
Held(list, infos, strings, cd) ==
  \E S : /\ HoldsOnce(list, S) /\ CopiesIn(infos, cd) \subseteq S
         /\ \A copy \in S : /\ Past(infos, copy)
                            /\ copy \in CopiesIn(infos, cd) \/ MisnamedIn(strings, copy)

\* All lists do, and none is kept that is empty.
ListsHold(infos, strings, lists) ==
  \A cd \in CDCertificate : /\ Held(ListIn(lists, cd), infos, strings, cd)
                            /\ cd \in DOMAIN lists => ListIn(lists, cd) # <<>>

ListsInv == ListsHold(complianceInfo, versionString, deviceSoftwareCompliance)

\* CertifiedAreListed in these terms.
LEMMA ListsAgree == ListsInv => CertifiedAreListed
<1> SUFFICES ASSUME ListsInv PROVE CertifiedAreListed
  BY Zenon
<1>1. ASSUME NEW cd \in CDCertificate
      PROVE  /\ CertifiedWith(cd) \subseteq Range(ListOf(cd))
             /\ \A copy \in Range(ListOf(cd)) \ CertifiedWith(cd) : Misnamed(copy)
             /\ \A i, j \in DOMAIN ListOf(cd) : ListOf(cd)[i] = ListOf(cd)[j] => i = j
             /\ cd \in DOMAIN deviceSoftwareCompliance => ListOf(cd) # <<>>
  <2>1. ListOf(cd) = ListIn(deviceSoftwareCompliance, cd)
    BY Zenon DEF ListOf, ListIn
  <2>2. CertifiedWith(cd) = CopiesIn(complianceInfo, cd)
    BY Zenon DEF CertifiedWith, CopiesIn, CertifiedIn
  <2>3. \A copy : MisnamedIn(versionString, copy) => Misnamed(copy)
    BY Zenon DEF MisnamedIn, Misnamed
  <2>4. PICK S : /\ HoldsOnce(ListOf(cd), S) /\ CertifiedWith(cd) \subseteq S
                 /\ \A copy \in S : copy \in CertifiedWith(cd) \/ Misnamed(copy)
    BY <2>1, <2>2, <2>3, Zenon DEF ListsInv, ListsHold, Held
  <2>5. /\ Range(ListOf(cd)) = S
        /\ \A i, j \in DOMAIN ListOf(cd) : ListOf(cd)[i] = ListOf(cd)[j] => i = j
    BY <2>4, Zenon DEF HoldsOnce
  <2>6. cd \in DOMAIN deviceSoftwareCompliance => ListOf(cd) # <<>>
    BY <2>1, Zenon DEF ListsInv, ListsHold
  <2>7. QED
    BY <2>4, <2>5, <2>6, Zenon
<1>2. QED
  BY <1>1, Zenon DEF CertifiedAreListed

\* Every record is filed under its key.
KeysIn(infos) == \A k \in DOMAIN infos : infos[k].key = k

\* A record is written that was not certified with this certificate, and is
\* not now.
LEMMA OtherCopies ==
  ASSUME NEW infos, NEW new, NEW k, NEW info, new = Put(infos, k, info), NEW cd,
         k \notin CertifiedIn(infos, cd),
         ~(info.status = "certified" /\ info.certificate = cd)
  PROVE  CopiesIn(new, cd) = CopiesIn(infos, cd)
<1>1. /\ DOMAIN new = DOMAIN infos \cup {k} /\ new[k] = info
      /\ \A j \in DOMAIN infos : j # k => new[j] = infos[j]
  BY DEF Put
<1>2. \A j : j \in CertifiedIn(new, cd) <=> j \in CertifiedIn(infos, cd)
  BY <1>1 DEF CertifiedIn
<1>3. \A j \in CertifiedIn(infos, cd) : new[j] = infos[j]
  BY <1>1, Zenon DEF CertifiedIn
<1>4. QED
  BY <1>2, <1>3 DEF CopiesIn

\* One that was not is now.
LEMMA OneMoreCopy ==
  ASSUME NEW infos, NEW new, NEW k, NEW info, new = Put(infos, k, info), NEW cd,
         k \notin CertifiedIn(infos, cd), info.status = "certified", info.certificate = cd
  PROVE  CopiesIn(new, cd) = CopiesIn(infos, cd) \cup {info}
<1>1. /\ DOMAIN new = DOMAIN infos \cup {k} /\ new[k] = info
      /\ \A j \in DOMAIN infos : j # k => new[j] = infos[j]
  BY DEF Put
<1>2. \A j : j \in CertifiedIn(new, cd) <=> j = k \/ j \in CertifiedIn(infos, cd)
  BY <1>1 DEF CertifiedIn
<1>3. \A j \in CertifiedIn(infos, cd) : new[j] = infos[j]
  BY <1>1, Zenon DEF CertifiedIn
<1>4. QED
  BY <1>1, <1>2, <1>3 DEF CopiesIn

\* One that was is no longer.
LEMMA OneCopyLess ==
  ASSUME NEW infos, KeysIn(infos), NEW new, NEW k, NEW info, new = Put(infos, k, info), NEW cd,
         k \in CertifiedIn(infos, cd), info.status # "certified"
  PROVE  CopiesIn(new, cd) = CopiesIn(infos, cd) \ {infos[k]}
<1>1. /\ DOMAIN new = DOMAIN infos \cup {k} /\ new[k] = info
      /\ \A j \in DOMAIN infos : j # k => new[j] = infos[j]
  BY DEF Put
<1>2. \A j : j \in CertifiedIn(new, cd) <=> j # k /\ j \in CertifiedIn(infos, cd)
  BY <1>1 DEF CertifiedIn
<1>3. \A j \in CertifiedIn(infos, cd) : infos[j].key = j /\ (j # k => new[j] = infos[j])
  BY <1>1, Zenon DEF CertifiedIn, KeysIn
<1>4. \A j \in CertifiedIn(infos, cd) : infos[j] = infos[k] => j = k
  BY <1>3
<1>5. QED
  BY <1>2, <1>3, <1>4 DEF CopiesIn

\* The record of k is new, or its history is one longer than it was.
Grows(infos, k, info) ==
  /\ Len(info.history) \in Nat
  /\ k \in DOMAIN infos => /\ Len(infos[k].history) \in Nat
                           /\ Len(info.history) = Len(infos[k].history) + 1

\* What was a copy of the past stays one.
LEMMA PastStays ==
  ASSUME NEW infos, NEW k, NEW info, Grows(infos, k, info), NEW new,
         new = Put(infos, k, info), NEW copy, Past(infos, copy)
  PROVE  Past(new, copy)
<1>1. /\ DOMAIN new = DOMAIN infos \cup {k} /\ new[k] = info
      /\ \A j \in DOMAIN infos : j # k => new[j] = infos[j]
  BY DEF Put
<1>2. CASE copy.key # k
  BY <1>1, <1>2 DEF Past
<1>3. CASE copy.key = k
  <2>1. Len(copy.history) \in Nat /\ k \in DOMAIN infos
    BY <1>3, Zenon DEF Past
  <2>2. copy = infos[k] \/ Len(copy.history) < Len(infos[k].history)
    BY <1>3, Zenon DEF Past
  <2>3. Len(copy.history) = Len(infos[k].history) \/ Len(copy.history) < Len(infos[k].history)
    BY <2>2, Zenon
  <2>4. Len(copy.history) < Len(info.history)
    BY <2>1, <2>3 DEF Grows
  <2>5. QED
    BY <1>1, <1>3, <2>1, <2>4 DEF Past
<1>4. QED
  BY <1>2, <1>3, Zenon

\* Certification: the copy of the record joins the list of its certificate.
LEMMA MoreHeld ==
  ASSUME NEW infos, NEW strings, NEW cd, NEW list,
         Held(list, infos, strings, cd), NEW k, k \notin CertifiedIn(infos, cd),
         NEW info, Grows(infos, k, info), info.key = k, info.status = "certified",
         info.certificate = cd, NEW new, new = Put(infos, k, info)
  PROVE  Held(Append(list, info), new, strings, cd) /\ Append(list, info) # <<>>
<1>1. PICK S : /\ HoldsOnce(list, S) /\ CopiesIn(infos, cd) \subseteq S
               /\ \A copy \in S : /\ Past(infos, copy)
                                  /\ copy \in CopiesIn(infos, cd) \/ MisnamedIn(strings, copy)
  BY Zenon DEF Held
<1>2. info \notin S
  <2>1. SUFFICES ASSUME info \in S PROVE FALSE
    BY Zenon
  <2>2. /\ k \in DOMAIN infos
        /\ info = infos[k] \/ Len(info.history) < Len(infos[k].history)
    BY <1>1, <2>1, Zenon DEF Past
  <2>3. Len(info.history) = Len(infos[k].history) \/ Len(info.history) < Len(infos[k].history)
    BY <2>2, Zenon
  <2>4. QED
    BY <2>2, <2>3 DEF Grows
<1>3. PICK T : T = S \cup {info}
  BY Zenon
<1>4. HoldsOnce(Append(list, info), T)
  BY <1>1, <1>2, <1>3, AppendHolds, Zenon
<1>5. CopiesIn(new, cd) = CopiesIn(infos, cd) \cup {info}
  BY OneMoreCopy
<1>6. Past(new, info)
  BY DEF Past, Grows, Put
<1>7. \A copy \in S : Past(new, copy)
  BY <1>1, PastStays, Zenon
<1>8. Append(list, info) # <<>>
  <2>1. T # {}
    BY <1>3
  <2>2. QED
    BY <1>4, <2>1, EmptyHolds, Zenon
<1>9. QED
  <2>1. CopiesIn(new, cd) \subseteq T
    BY <1>1, <1>3, <1>5
  <2>2. \A copy \in T : copy \in S \/ copy = info
    BY <1>3
  <2>3. info \in CopiesIn(new, cd) /\ CopiesIn(infos, cd) \subseteq CopiesIn(new, cd)
    BY <1>5
  <2>4. \A copy \in T : /\ Past(new, copy)
                        /\ copy \in CopiesIn(new, cd) \/ MisnamedIn(strings, copy)
    BY <1>1, <1>6, <1>7, <2>2, <2>3, Zenon
  <2>5. QED
    BY <1>4, <1>8, <2>1, <2>4, Zenon DEF Held

\* A list stays when a record is written that was not certified with its
\* certificate and is not now.
LEMMA SameHeld ==
  ASSUME NEW infos, NEW strings, NEW cd, NEW list, Held(list, infos, strings, cd),
         NEW k, k \notin CertifiedIn(infos, cd), NEW info, Grows(infos, k, info),
         ~(info.status = "certified" /\ info.certificate = cd),
         NEW new, new = Put(infos, k, info)
  PROVE  Held(list, new, strings, cd)
<1>1. CopiesIn(new, cd) = CopiesIn(infos, cd)
  BY OtherCopies
<1>2. \A copy : Past(infos, copy) => Past(new, copy)
  BY PastStays, Zenon
<1>3. QED
  BY <1>1, <1>2, Zenon DEF Held

\* A certified record has another certificate than the records that its
\* version has under other types, unless those are revoked.
ApartIn(infos) ==
  \A j, k \in DOMAIN infos :
    /\ j[1] = k[1] /\ infos[j].certificate = infos[k].certificate
    /\ infos[j].status = "certified" /\ infos[k].status # "revoked"
    => j = k

\* RemoveComplianceInfo looks for the version and its string, and not for the
\* type.  With the types apart the copy it finds is that of the record; it
\* finds none when the record is misnamed or not certified.
LEMMA FoundIsRecord ==
  ASSUME NEW infos, KeysIn(infos), ApartIn(infos), NEW strings, NEW cd, NEW copy,
         copy \in CopiesIn(infos, cd) \/ MisnamedIn(strings, copy),
         NEW k \in DOMAIN infos, infos[k].certificate = cd, infos[k].status # "revoked",
         k[1] \in DOMAIN strings, copy.key[1] = k[1], copy.string = strings[k[1]]
  PROVE  copy = infos[k] /\ k \in CertifiedIn(infos, cd)
<1>1. copy \in CopiesIn(infos, cd)
  BY Zenon DEF MisnamedIn
<1>2. PICK j \in CertifiedIn(infos, cd) : copy = infos[j]
  BY <1>1 DEF CopiesIn
<1>3. j \in DOMAIN infos /\ infos[j].status = "certified" /\ infos[j].certificate = cd
  BY <1>2, Zenon DEF CertifiedIn
<1>4. j[1] = k[1]
  BY <1>2, <1>3, Zenon DEF KeysIn
<1>5. QED
  BY <1>2, <1>3, <1>4, Zenon DEF ApartIn

\* Revocation: the list of the record's certificate loses the copy of the
\* record, or keeps it as a misnamed one of the past.
LEMMA LessHeld ==
  ASSUME NEW infos, KeysIn(infos), ApartIn(infos), NEW strings, NEW cd, NEW list,
         Held(list, infos, strings, cd), NEW k \in DOMAIN infos,
         infos[k].certificate = cd, infos[k].status # "revoked",
         k[1] \in DOMAIN strings, NEW info, Grows(infos, k, info), info.status = "revoked",
         NEW new, new = Put(infos, k, info)
  PROVE  Held(RemoveComplianceInfo(list, k[1], strings[k[1]]), new, strings, cd)
<1> DEFINE string == strings[k[1]]
           found == {i \in DOMAIN list : list[i].key[1] = k[1] /\ list[i].string = string}
           first == CHOOSE i \in found : \A j \in found : i <= j
<1>1. PICK S : /\ HoldsOnce(list, S) /\ CopiesIn(infos, cd) \subseteq S
               /\ \A copy \in S : /\ Past(infos, copy)
                                  /\ copy \in CopiesIn(infos, cd) \/ MisnamedIn(strings, copy)
  BY Zenon DEF Held
<1>2. /\ list \in Seq(S) /\ Range(list) = S
      /\ \A i, j \in DOMAIN list : list[i] = list[j] => i = j
  BY <1>1, Zenon DEF HoldsOnce
<1>3. \A i \in DOMAIN list : list[i] \in S /\ i \in Nat
  BY <1>2
<1>4. \A i \in found : list[i] = infos[k] /\ k \in CertifiedIn(infos, cd)
  <2>1. ASSUME NEW i \in found
        PROVE  list[i] = infos[k] /\ k \in CertifiedIn(infos, cd)
    <3>1. PICK copy : copy = list[i]
      BY Zenon
    <3>2. copy.key[1] = k[1] /\ copy.string = strings[k[1]] /\ copy \in S
      BY <1>3, <3>1, Zenon
    <3>3. copy \in CopiesIn(infos, cd) \/ MisnamedIn(strings, copy)
      BY <1>1, <3>2, Zenon
    <3>4. copy = infos[k] /\ k \in CertifiedIn(infos, cd)
      BY <3>2, <3>3, FoundIsRecord, SMTT(60)
    <3>5. QED
      BY <3>1, <3>4, Zenon
  <2>2. QED
    BY <2>1, Zenon
<1>5. \A copy \in S : Past(new, copy)
  BY <1>1, PastStays, Zenon
<1>6. CopiesIn(new, cd) = CopiesIn(infos, cd) \ {infos[k]}
  <2>1. CASE k \in CertifiedIn(infos, cd)
    BY <2>1, OneCopyLess
  <2>2. CASE k \notin CertifiedIn(infos, cd)
    <3>1. CopiesIn(new, cd) = CopiesIn(infos, cd)
      BY <2>2, OtherCopies
    <3>2. infos[k] \notin CopiesIn(infos, cd)
      <4>1. \A j \in CertifiedIn(infos, cd) : infos[j].key = j
        BY Zenon DEF CertifiedIn, KeysIn
      <4>2. infos[k].key = k
        BY Zenon DEF KeysIn
      <4>3. QED
        BY <2>2, <4>1, <4>2 DEF CopiesIn
    <3>3. QED
      BY <3>1, <3>2
  <2>3. QED
    BY <2>1, <2>2, Zenon
<1>7. \A copy : copy \in CopiesIn(new, cd) <=> copy \in CopiesIn(infos, cd) /\ copy # infos[k]
  BY <1>6
<1>8. CASE found = {}
  <2>1. RemoveComplianceInfo(list, k[1], string) = list
    BY <1>8, Zenon DEF RemoveComplianceInfo
  <2>2. infos[k] \in S => MisnamedIn(strings, infos[k])
    <3>1. SUFFICES ASSUME infos[k] \in S PROVE MisnamedIn(strings, infos[k])
      BY Zenon
    <3>2. PICK n \in DOMAIN list : list[n] = infos[k]
      BY <1>2, <3>1 DEF Range
    <3>3. infos[k].key = k
      BY Zenon DEF KeysIn
    <3>4. infos[k].string # string
      BY <1>8, <3>2, <3>3, Zenon
    <3>5. QED
      BY <3>3, <3>4, Zenon DEF MisnamedIn
  <2>3. QED
    BY <1>1, <1>5, <1>7, <2>1, <2>2, Zenon DEF Held
<1>9. CASE found # {}
  <2>1. PICK n : n \in found
    BY <1>9, Zenon
  <2>2. n \in DOMAIN list /\ n \in Nat /\ list[n] = infos[k]
    BY <1>3, <1>4, <2>1, Zenon
  <2>3. \A i \in found : i = n
    BY <1>2, <1>4, <2>2, Zenon
  <2>4. first = n
    BY <2>1, <2>2, <2>3
  <2>5. RemoveComplianceInfo(list, k[1], string)
          = SubSeq(list, 1, n - 1) \o SubSeq(list, n + 1, Len(list))
    BY <1>9, <2>4, Zenon DEF RemoveComplianceInfo
  <2>6. PICK T : T = S \ {list[n]}
    BY Zenon
  <2>7. HoldsOnce(RemoveComplianceInfo(list, k[1], string), T)
    <3>1. HoldsOnce(SubSeq(list, 1, n - 1) \o SubSeq(list, n + 1, Len(list)), S \ {list[n]})
      BY <1>1, <2>2, CutHolds, Zenon
    <3>2. QED
      BY <2>5, <2>6, <3>1, Zenon
  <2>8. \A copy : copy \in T <=> copy \in S /\ copy # infos[k]
    BY <2>2, <2>6
  <2>9. QED
    BY <1>1, <1>5, <1>7, <2>7, <2>8, Zenon DEF Held
<1>10. QED
  BY <1>8, <1>9, Zenon

\* The lists after a certification.
LEMMA CertifyHolds ==
  ASSUME NEW infos, NEW strings, NEW lists, ListsHold(infos, strings, lists),
         NEW k, k \in DOMAIN infos => infos[k].status # "certified",
         NEW info, Grows(infos, k, info), info.key = k, info.status = "certified",
         NEW new, new = Put(infos, k, info), NEW newLists,
         newLists = Put(lists, info.certificate,
                        Append(ListIn(lists, info.certificate), info))
  PROVE  ListsHold(new, strings, newLists)
<1>1. \A cd : k \notin CertifiedIn(infos, cd)
  BY Zenon DEF CertifiedIn
<1>2. ASSUME NEW cd \in CDCertificate
      PROVE  /\ Held(ListIn(newLists, cd), new, strings, cd)
             /\ cd \in DOMAIN newLists => ListIn(newLists, cd) # <<>>
  <2>1. /\ Held(ListIn(lists, cd), infos, strings, cd)
        /\ cd \in DOMAIN lists => ListIn(lists, cd) # <<>>
    BY Zenon DEF ListsHold
  <2>2. CASE info.certificate = cd
    <3>1. ListIn(newLists, cd) = Append(ListIn(lists, cd), info)
      BY <2>2 DEF ListIn, Put
    <3>2. /\ Held(Append(ListIn(lists, cd), info), new, strings, cd)
          /\ Append(ListIn(lists, cd), info) # <<>>
      BY <1>1, <2>1, <2>2, MoreHeld
    <3>3. QED
      BY <3>1, <3>2, Zenon
  <2>3. CASE info.certificate # cd
    <3>1. Held(ListIn(lists, cd), new, strings, cd)
      BY <1>1, <2>1, <2>3, SameHeld
    <3>2. ListIn(newLists, cd) = ListIn(lists, cd) /\ (cd \in DOMAIN newLists <=> cd \in DOMAIN lists)
      BY <2>3 DEF ListIn, Put
    <3>3. QED
      BY <2>1, <3>1, <3>2, Zenon
  <2>4. QED
    BY <2>2, <2>3, Zenon
<1>3. QED
  BY <1>2, Zenon DEF ListsHold

\* The lists after UnlistRevoked.
Unlisted(lists, newLists, cd, version, string) ==
  LET rest == RemoveComplianceInfo(lists[cd], version, string)
  IN  newLists = IF cd \notin DOMAIN lists THEN lists
                 ELSE IF rest = <<>> THEN Delete(lists, cd) ELSE Put(lists, cd, rest)

\* They hold what they are to hold, whether the record was certified, was
\* provisional or has another string than its version.
LEMMA RevokeHolds ==
  ASSUME NEW infos, KeysIn(infos), ApartIn(infos), NEW strings,
         NEW lists, ListsHold(infos, strings, lists),
         NEW k \in DOMAIN infos, infos[k].status # "revoked", k[1] \in DOMAIN strings,
         NEW info, Grows(infos, k, info), info.status = "revoked",
         NEW new, new = Put(infos, k, info), NEW newLists,
         Unlisted(lists, newLists, infos[k].certificate, k[1], strings[k[1]])
  PROVE  ListsHold(new, strings, newLists)
<1>1. ASSUME NEW cd \in CDCertificate
      PROVE  /\ Held(ListIn(newLists, cd), new, strings, cd)
             /\ cd \in DOMAIN newLists => ListIn(newLists, cd) # <<>>
  <2>1. /\ Held(ListIn(lists, cd), infos, strings, cd)
        /\ cd \in DOMAIN lists => ListIn(lists, cd) # <<>>
    BY Zenon DEF ListsHold
  <2>2. k \notin CertifiedIn(infos, cd) => Held(ListIn(lists, cd), new, strings, cd)
    BY <2>1, SameHeld
  <2>3. CASE infos[k].certificate # cd
    <3>1. k \notin CertifiedIn(infos, cd)
      BY <2>3, Zenon DEF CertifiedIn
    <3>2. ListIn(newLists, cd) = ListIn(lists, cd) /\ (cd \in DOMAIN newLists <=> cd \in DOMAIN lists)
      BY <2>3 DEF Unlisted, ListIn, Put, Delete
    <3>3. QED
      BY <2>1, <2>2, <3>1, <3>2, Zenon
  <2>4. CASE infos[k].certificate = cd /\ cd \notin DOMAIN lists
    <3>1. newLists = lists /\ ListIn(lists, cd) = <<>>
      BY <2>4, Zenon DEF Unlisted, ListIn
    <3>2. PICK S : HoldsOnce(<<>>, S) /\ CopiesIn(infos, cd) \subseteq S
      BY <2>1, <3>1, Zenon DEF Held
    <3>3. S = {}
      BY <3>2, EmptyHolds, Zenon
    <3>4. k \notin CertifiedIn(infos, cd)
      BY <3>2, <3>3, Zenon DEF CopiesIn
    <3>5. QED
      BY <2>1, <2>2, <3>1, <3>4, Zenon
  <2>5. CASE infos[k].certificate = cd /\ cd \in DOMAIN lists
    <3>1. PICK rest : rest = RemoveComplianceInfo(lists[cd], k[1], strings[k[1]])
      BY Zenon
    <3>2. newLists = IF rest = <<>> THEN Delete(lists, cd) ELSE Put(lists, cd, rest)
      BY <2>5, <3>1, Zenon DEF Unlisted
    <3>3. ListIn(newLists, cd) = rest /\ (cd \in DOMAIN newLists => rest # <<>>)
      BY <3>2 DEF ListIn, Put, Delete
    <3>4. Held(lists[cd], infos, strings, cd)
      BY <2>1, <2>5, Zenon DEF ListIn
    <3>5. Held(rest, new, strings, cd)
      BY <2>5, <3>1, <3>4, LessHeld
    <3>6. QED
      BY <3>3, <3>5, Zenon
  <2>6. QED
    BY <2>3, <2>4, <2>5, Zenon
<1>2. QED
  BY <1>1, Zenon DEF ListsHold

\* A record that is not certified is written where there was none, and the
\* lists stay.
LEMMA OthersHold ==
  ASSUME NEW infos, NEW strings, NEW lists, ListsHold(infos, strings, lists),
         NEW k, k \notin DOMAIN infos, NEW info, Grows(infos, k, info),
         info.status # "certified", NEW new, new = Put(infos, k, info)
  PROVE  ListsHold(new, strings, lists)
<1>1. \A cd : k \notin CertifiedIn(infos, cd)
  BY Zenon DEF CertifiedIn
<1>2. \A cd, list : Held(list, infos, strings, cd) => Held(list, new, strings, cd)
  BY <1>1, SameHeld
<1>3. QED
  BY <1>2, Zenon DEF ListsHold

\* A version that is added takes nothing from the lists: what was misnamed
\* still is.
LEMMA VersionsHold ==
  ASSUME NEW infos, NEW lists, NEW strings, ListsHold(infos, strings, lists),
         NEW more, \A v \in DOMAIN strings : v \in DOMAIN more /\ more[v] = strings[v]
  PROVE  ListsHold(infos, more, lists)
<1>1. \A copy : MisnamedIn(strings, copy) => MisnamedIn(more, copy)
  BY Zenon DEF MisnamedIn
<1>2. \A cd, list : Held(list, infos, strings, cd) => Held(list, infos, more, cd)
  BY <1>1, Zenon DEF Held
<1>3. QED
  BY <1>2, Zenon DEF ListsHold

\* A record that is written has one status more than the one it replaces.
LEMMA WritesGrow ==
  ASSUME RecordsOK, NEW k, NEW string, NEW info, Writes(k, string, info)
  PROVE  Grows(complianceInfo, k, info)
<1>1. CASE k \notin DOMAIN complianceInfo
  <2>1. info.history = <<>>
    BY <1>1, Zenon DEF Writes
  <2>2. QED
    BY <1>1, <2>1 DEF Grows
<1>2. CASE k \in DOMAIN complianceInfo
  <2>1. PICK old : old = complianceInfo[k]
    BY Zenon
  <2>2. PICK S : S = [status : Status, date : Date]
    BY Zenon
  <2>3. old.history \in Seq(S) /\ old.status \in Status /\ old.date \in Date
    BY <1>2, <2>1, <2>2, Zenon DEF RecordsOK
  <2>4. PICK e \in S : e = [status |-> old.status, date |-> old.date]
    BY <2>2, <2>3, Zenon
  <2>5. info.history = Append(old.history, e)
    BY <1>2, <2>1, <2>4, Zenon DEF Writes, Trail
  <2>6. Len(old.history) \in Nat /\ Len(Append(old.history, e)) = Len(old.history) + 1
    BY <2>3, <2>4
  <2>7. Len(old.history) \in Nat /\ Len(info.history) = Len(old.history) + 1
    BY <2>5, <2>6, Zenon
  <2>8. Len(info.history) \in Nat
    BY <2>7
  <2>9. QED
    BY <2>1, <2>7, <2>8, Zenon DEF Grows
<1>3. QED
  BY <1>1, <1>2, Zenon

\* Every step keeps the lists so.
LEMMA ListsStep ==
  ASSUME TypesApart, RecordsOK, ListsInv, [Next]_vars
  PROVE  ListsInv'
<1>1. ListsHold(complianceInfo, versionString, deviceSoftwareCompliance)
  BY Zenon DEF ListsInv
<1>2. KeysIn(complianceInfo)
  BY Zenon DEF RecordsOK, KeysIn
<1>3. ApartIn(complianceInfo)
  BY Zenon DEF ApartIn, TypesApart
<1>4. SUFFICES ListsHold(complianceInfo', versionString', deviceSoftwareCompliance')
  BY Zenon DEF ListsInv
<1>5. ASSUME NEW signer, NEW k, NEW string, NEW date \in Date, NEW cd,
             CertifyModel(signer, k, string, date, cd)
      PROVE  ListsHold(complianceInfo', versionString', deviceSoftwareCompliance')
  <2>1. PICK info : Writes(k, string, info) /\ info.status = "certified" /\ ListCertified(info)
    BY <1>5, CertifyWrites, Zenon
  <2>2. /\ complianceInfo' = Put(complianceInfo, k, info) /\ info.key = k
        /\ k \in DOMAIN complianceInfo => complianceInfo[k].status # "certified"
    BY <2>1 DEF Writes
  <2>3. deviceSoftwareCompliance' =
          Put(deviceSoftwareCompliance, info.certificate,
              Append(ListIn(deviceSoftwareCompliance, info.certificate), info))
    BY <2>1, Zenon DEF ListCertified, ListIn
  <2>4. Grows(complianceInfo, k, info)
    BY <2>1, WritesGrow, Zenon
  <2>5. UNCHANGED versionString
    BY <1>5, ZenonT(60) DEF CertifyModel
  <2>6. ListsHold(complianceInfo', versionString, deviceSoftwareCompliance')
    BY <1>1, <2>1, <2>2, <2>3, <2>4, CertifyHolds
  <2>7. QED
    BY <2>5, <2>6, Zenon
<1>6. ASSUME NEW signer, NEW k, NEW string, NEW date \in Date,
             RevokeModel(signer, k, string, date)
      PROVE  ListsHold(complianceInfo', versionString', deviceSoftwareCompliance')
  <2>1. PICK info : /\ Writes(k, string, info) /\ info.status = "revoked"
                    /\ \/ /\ k \in DOMAIN complianceInfo
                          /\ info.certificate = complianceInfo[k].certificate
                          /\ UnlistRevoked(info, k[1], string)
                       \/ k \notin DOMAIN complianceInfo /\ UNCHANGED deviceSoftwareCompliance
    BY <1>6, RevokeWrites, Zenon
  <2>2. complianceInfo' = Put(complianceInfo, k, info) /\ VersionMatches(k[1], string)
    BY <2>1 DEF Writes
  <2>3. Grows(complianceInfo, k, info)
    BY <2>1, WritesGrow, Zenon
  <2>4. UNCHANGED versionString
    BY <1>6, Zenon DEF RevokeModel
  <2>5. CASE k \in DOMAIN complianceInfo
    <3>1. k[1] \in DOMAIN versionString /\ string = versionString[k[1]]
      BY <2>2, Zenon DEF VersionMatches
    <3>2. complianceInfo[k].status # "revoked"
      BY <2>1, <2>5, Zenon DEF Writes
    <3>3. Unlisted(deviceSoftwareCompliance, deviceSoftwareCompliance',
                   complianceInfo[k].certificate, k[1], versionString[k[1]])
      BY <2>1, <2>5, <3>1, Zenon DEF UnlistRevoked, Unlisted
    <3>4. ListsHold(complianceInfo', versionString, deviceSoftwareCompliance')
      BY <1>1, <1>2, <1>3, <2>1, <2>2, <2>3, <2>5, <3>1, <3>2, <3>3, RevokeHolds
    <3>5. QED
      BY <2>4, <3>4, Zenon
  <2>6. CASE k \notin DOMAIN complianceInfo
    <3>1. UNCHANGED deviceSoftwareCompliance
      BY <2>1, <2>6, Zenon
    <3>2. ListsHold(complianceInfo', versionString, deviceSoftwareCompliance)
      BY <1>1, <2>1, <2>2, <2>3, <2>6, OthersHold
    <3>3. QED
      BY <2>4, <3>1, <3>2, Zenon
  <2>7. QED
    BY <2>5, <2>6, Zenon
<1>7. ASSUME NEW signer, NEW k, NEW string, NEW date \in Date, NEW cd,
             ProvisionModel(signer, k, string, date, cd)
      PROVE  ListsHold(complianceInfo', versionString', deviceSoftwareCompliance')
  <2>1. PICK info : Writes(k, string, info) /\ info.status = "provisional"
    BY <1>7, ProvisionWrites, Zenon
  <2>2. k \notin DOMAIN complianceInfo /\ UNCHANGED deviceSoftwareCompliance
    BY <1>7, ProvisionWrites, Zenon
  <2>3. complianceInfo' = Put(complianceInfo, k, info)
    BY <2>1, Zenon DEF Writes
  <2>4. Grows(complianceInfo, k, info)
    BY <2>1, WritesGrow, Zenon
  <2>5. UNCHANGED versionString
    BY <1>7, Zenon DEF ProvisionModel
  <2>6. ListsHold(complianceInfo', versionString, deviceSoftwareCompliance)
    BY <1>1, <2>1, <2>2, <2>3, <2>4, OthersHold
  <2>7. QED
    BY <2>2, <2>5, <2>6, Zenon
<1>8. CASE ComplianceTx
  BY <1>5, <1>6, <1>7, <1>8, Zenon DEF ComplianceTx
<1>9. CASE AddVersion
  <2>1. UNCHANGED complianceInfo /\ UNCHANGED deviceSoftwareCompliance
    BY <1>9, Zenon DEF AddVersion, records
  <2>2. PICK v, string : v \notin DOMAIN versionString /\ versionString' = Put(versionString, v, string)
    BY <1>9, Zenon DEF AddVersion
  <2>3. \A x \in DOMAIN versionString : x \in DOMAIN versionString' /\ versionString'[x] = versionString[x]
    BY <2>2 DEF Put
  <2>4. ListsHold(complianceInfo, versionString', deviceSoftwareCompliance)
    BY <1>1, <2>3, VersionsHold, Zenon
  <2>5. QED
    BY <2>1, <2>4, Zenon
<1>10. CASE ChangeCenters \/ UNCHANGED vars
  <2>1. UNCHANGED <<complianceInfo, versionString, deviceSoftwareCompliance>>
    BY <1>10, Zenon DEF ChangeCenters, vars, records
  <2>2. QED
    BY <1>1, <2>1
<1>11. QED
  BY <1>8, <1>9, <1>10, Zenon DEF Next

\* The list of a certificate holds, once each, the current records of what is
\* certified with it, and else only copies that have another string than
\* their version (CertifyModel, RevokeModel), if no certified record ever has
\* the certificate of another type of its version that is not revoked.
THEOREM ListsCorrect == Spec /\ []TypesApart => []CertifiedAreListed
<1>1. Init => ListsInv
  <2>1. ASSUME Init, NEW cd
        PROVE  CopiesIn(complianceInfo, cd) = {} /\ ListIn(deviceSoftwareCompliance, cd) = <<>>
               /\ cd \notin DOMAIN deviceSoftwareCompliance
    BY <2>1 DEF Init, InitRecords, EmptyStore, CopiesIn, CertifiedIn, ListIn
  <2>2. \A infos, strings, cd : CopiesIn(infos, cd) = {} => Held(<<>>, infos, strings, cd)
    BY NothingHeld DEF Held
  <2>3. QED
    BY <2>1, <2>2, Zenon DEF ListsInv, ListsHold
<1>2. TypesApart /\ RecordsOK /\ ListsInv /\ [Next]_vars => ListsInv'
  BY ListsStep, Zenon
<1>3. QED
  BY <1>1, <1>2, ListsAgree, DecidedCorrect, PTL DEF Spec
=============================================================================
