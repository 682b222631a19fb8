------------------------------ MODULE Compliance -----------------------------
(***************************************************************************)
(* x/compliance: the certification centers record which software versions  *)
(* are provisional, certified or revoked under a certification type.  The  *)
(* status is kept three times: in the record (ComplianceInfo), in three    *)
(* indexes of flags, and, as a copy of the record, in the list of the      *)
(* compliance certificate it was certified with (DeviceSoftwareCompliance).*)
(* The versions are those of x/model, and the centers accounts of          *)
(* x/dclauth; both change while records are made.                          *)
(***************************************************************************)
EXTENDS Integers, Sequences, Functions, KVStore

CONSTANTS
  Address,             \* account addresses
  Version,             \* keys of model versions: vid, pid, software version
  VersionString,       \* software version strings
  CertificationType,
  CDCertificate,       \* ids of compliance certificates
  NoCertificate,       \* the empty id
  MaxDate,             \* bound: dates are 1..MaxDate
  MaxHistory           \* bound on the number of past statuses of a record

VARIABLES
  centers,             \* the accounts with the CertificationCenter role
  versionString,       \* x/model: the string of every version on the ledger
  complianceInfo,      \* <<version, type>> |-> record
  certifiedModel,      \* <<version, type>> |-> flag
  revokedModel,
  provisionalModel,
  deviceSoftwareCompliance    \* certificate |-> list of certified records

flags == <<certifiedModel, revokedModel, provisionalModel>>
records == <<complianceInfo, flags, deviceSoftwareCompliance>>
vars == <<centers, versionString, records>>

Key == Version \X CertificationType

Date == 1..MaxDate

Status == {"provisional", "certified", "revoked"}

-----------------------------------------------------------------------------
(* Records and lists. *)

\* A record of the version and type k with nothing in its history.
NewInfo(k, string, status, date, cd) ==
  [key |-> k, string |-> string, status |-> status, date |-> date,
   certificate |-> cd, history |-> <<>>]

\* What SetCertifiedStatus and SetRevokedStatus have in common: the status
\* and date the record has are moved to its history.
SetStatus(info, status, date, cd) ==
  [key |-> info.key, string |-> info.string, status |-> status, date |-> date,
   certificate |-> cd,
   history |-> Append(info.history, [status |-> info.status, date |-> info.date])]

SetCertifiedStatus(info, date, cd) == SetStatus(info, "certified", date, cd)

SetRevokedStatus(info, date) == SetStatus(info, "revoked", date, info.certificate)

\* The list without the first copy of the version with this string,
\* whatever certification type the copy has.
RemoveComplianceInfo(list, version, string) ==
  LET found == {i \in DOMAIN list : list[i].key[1] = version /\ list[i].string = string}
      first == CHOOSE i \in found : \A j \in found : i <= j
  IN  IF found = {} THEN list
      ELSE SubSeq(list, 1, first - 1) \o SubSeq(list, first + 1, Len(list))

\* The copy of a certified record joins the list of its certificate.
ListCertified(info) ==
  LET cd == info.certificate
      list == IF cd \in DOMAIN deviceSoftwareCompliance
              THEN deviceSoftwareCompliance[cd] ELSE <<>>
  IN  deviceSoftwareCompliance' = Put(deviceSoftwareCompliance, cd, Append(list, info))

\* The list of the revoked record's certificate is left as it is.
UnlistRevoked_Not(info, version, string) == UNCHANGED deviceSoftwareCompliance

\* A copy leaves the list of the revoked record's certificate; a list that
\* is left empty is removed.  When the certificate has no list an empty one
\* is stored and removed again.
UnlistRevoked(info, version, string) ==
  LET cd == info.certificate IN
  IF cd \notin DOMAIN deviceSoftwareCompliance
  THEN UNCHANGED deviceSoftwareCompliance
  ELSE LET list == RemoveComplianceInfo(deviceSoftwareCompliance[cd], version, string)
       IN  deviceSoftwareCompliance' = IF list = <<>>
                                       THEN Delete(deviceSoftwareCompliance, cd)
                                       ELSE Put(deviceSoftwareCompliance, cd, list)

-----------------------------------------------------------------------------
(* The handlers. *)

\* The string is not compared.
VersionMatches_AnyString(version, string) == version \in DOMAIN versionString

\* The version is on the ledger with this string.
VersionMatches(version, string) ==
  version \in DOMAIN versionString /\ versionString[version] = string

\* The date of the record is not looked at.
CanChange_AnyDate(k, status, date) ==
  k \in DOMAIN complianceInfo => complianceInfo[k].status # status

\* A record does not have the status yet, and is not younger than date.
CanChange(k, status, date) ==
  k \in DOMAIN complianceInfo =>
    /\ complianceInfo[k].status # status
    /\ date >= complianceInfo[k].date

\* The bound on histories.
HistoryBound(k) == k \in DOMAIN complianceInfo => Len(complianceInfo[k].history) < MaxHistory

\* The flag of a status the record leaves stays set.
CertifyModel_StaleFlag(signer, k, string, date, cd) ==
  /\ signer \in centers
  /\ VersionMatches(k[1], string)
  /\ CanChange(k, "certified", date)
  /\ HistoryBound(k)
  /\ LET info == IF k \in DOMAIN complianceInfo
                 THEN SetCertifiedStatus(complianceInfo[k], date, cd)
                 ELSE NewInfo(k, string, "certified", date, cd)
     IN  /\ complianceInfo' = Put(complianceInfo, k, info)
         /\ ListCertified(info)
  /\ certifiedModel' = Put(certifiedModel, k, TRUE)
  /\ revokedModel' = Put(revokedModel, k, FALSE)
  /\ UNCHANGED <<centers, versionString, provisionalModel>>

CertifyModel(signer, k, string, date, cd) ==
  /\ signer \in centers
  /\ VersionMatches(k[1], string)
  /\ CanChange(k, "certified", date)
  /\ HistoryBound(k)
  /\ LET info == IF k \in DOMAIN complianceInfo
                 THEN SetCertifiedStatus(complianceInfo[k], date, cd)
                 ELSE NewInfo(k, string, "certified", date, cd)
     IN  /\ complianceInfo' = Put(complianceInfo, k, info)
         /\ ListCertified(info)
  /\ certifiedModel' = Put(certifiedModel, k, TRUE)
  /\ revokedModel' = Put(revokedModel, k, FALSE)
  /\ provisionalModel' = Put(provisionalModel, k, FALSE)
  /\ UNCHANGED <<centers, versionString>>

\* A record that is there is revoked; without one only the revocation is
\* recorded, with no certificate.
RevokeModel(signer, k, string, date) ==
  /\ signer \in centers
  /\ VersionMatches(k[1], string)
  /\ CanChange(k, "revoked", date)
  /\ HistoryBound(k)
  /\ \/ /\ k \in DOMAIN complianceInfo
        /\ LET info == SetRevokedStatus(complianceInfo[k], date)
           IN  /\ complianceInfo' = Put(complianceInfo, k, info)
               /\ UnlistRevoked(info, k[1], string)
        /\ certifiedModel' = Put(certifiedModel, k, FALSE)
        /\ provisionalModel' = Put(provisionalModel, k, FALSE)
     \/ /\ k \notin DOMAIN complianceInfo
        /\ complianceInfo' = Put(complianceInfo, k,
                                 NewInfo(k, string, "revoked", date, NoCertificate))
        /\ UNCHANGED <<certifiedModel, provisionalModel, deviceSoftwareCompliance>>
  /\ revokedModel' = Put(revokedModel, k, TRUE)
  /\ UNCHANGED <<centers, versionString>>

\* Neither the version nor its string is looked at.
ProvisionModel(signer, k, string, date, cd) ==
  /\ signer \in centers
  /\ k \notin DOMAIN complianceInfo
  /\ complianceInfo' = Put(complianceInfo, k, NewInfo(k, string, "provisional", date, cd))
  /\ provisionalModel' = Put(provisionalModel, k, TRUE)
  /\ UNCHANGED <<centers, versionString, certifiedModel, revokedModel,
                 deviceSoftwareCompliance>>

ComplianceTx ==
  \E signer \in Address, k \in Key, string \in VersionString, date \in Date :
    \/ RevokeModel(signer, k, string, date)
    \/ \E cd \in CDCertificate :
         \/ CertifyModel(signer, k, string, date, cd)
         \/ ProvisionModel(signer, k, string, date, cd)

\* x/dclauth adds or revokes a certification center.
ChangeCenters ==
  /\ \E a \in Address : centers' \in {centers \cup {a}, centers \ {a}} \ {centers}
  /\ UNCHANGED <<versionString, records>>

\* x/model adds a version; a version is never removed, and keeps its string.
AddVersion ==
  /\ \E v \in Version \ DOMAIN versionString, string \in VersionString :
       versionString' = Put(versionString, v, string)
  /\ UNCHANGED <<centers, records>>

-----------------------------------------------------------------------------
InitRecords ==
  /\ complianceInfo = EmptyStore
  /\ certifiedModel = EmptyStore
  /\ revokedModel = EmptyStore
  /\ provisionalModel = EmptyStore
  /\ deviceSoftwareCompliance = EmptyStore

Init ==
  /\ centers = {}
  /\ versionString = EmptyStore
  /\ InitRecords

Next == ComplianceTx \/ ChangeCenters \/ AddVersion

Spec == Init /\ [][Next]_vars

-----------------------------------------------------------------------------
(* Properties. *)

InfoType ==
  [key : Key, string : VersionString, status : Status, date : Date,
   certificate : CDCertificate \cup {NoCertificate},
   history : Seq([status : Status, date : Date])]

\* Records, flags and lists are of their types; only a record that was
\* never certified nor provisional is without a certificate (RevokeModel).
TypeOK ==
  /\ centers \subseteq Address
  /\ IsStore(versionString, Version, VersionString)
  /\ IsStore(complianceInfo, Key, InfoType)
  /\ \A k \in DOMAIN complianceInfo :
       complianceInfo[k].certificate = NoCertificate => complianceInfo[k].status = "revoked"
  /\ IsStore(certifiedModel, Key, BOOLEAN)
  /\ IsStore(revokedModel, Key, BOOLEAN)
  /\ IsStore(provisionalModel, Key, BOOLEAN)
  /\ IsStore(deviceSoftwareCompliance, CDCertificate, Seq(InfoType))

Flagged(index, k) == k \in DOMAIN index /\ index[k]

HasStatus(k, status) == k \in DOMAIN complianceInfo /\ complianceInfo[k].status = status

\* The indexes that GET_CERTIFIED_MODEL, GET_REVOKED_MODEL and
\* GET_PROVISIONAL_MODEL read say what the record says: of the three flags
\* the one of its status is set and no other, and no flag without a record.
FlagsAgree ==
  \A k \in Key :
    /\ Flagged(certifiedModel, k) <=> HasStatus(k, "certified")
    /\ Flagged(revokedModel, k) <=> HasStatus(k, "revoked")
    /\ Flagged(provisionalModel, k) <=> HasStatus(k, "provisional")

\* The statuses of a record from the first to the one it has.
Trail(info) == Append(info.history, [status |-> info.status, date |-> info.date])

\* No record goes; its trail stays, or one status is added at the end that
\* differs from the last, is not older, and is not provisional.
TrailStep ==
  \A k \in DOMAIN complianceInfo :
    /\ k \in DOMAIN complianceInfo'
    /\ LET old == complianceInfo[k]
           new == complianceInfo'[k]
       IN  Trail(new) # Trail(old) =>
             /\ new.history = Trail(old)
             /\ new.status \notin {old.status, "provisional"}
             /\ new.date >= old.date

\* The history of certifications and revocations can be trusted: whatever
\* order messages come in, the statuses of a record are kept, in the order
\* of their dates, and provisional is only ever the first of them.
TrailGrowsInOrder == [][TrailStep]_vars

\* What is certified with a certificate, and what GET_DEVICE_SOFTWARE_COMPLIANCE
\* returns for it.
CertifiedWith(cd) ==
  {complianceInfo[k] : k \in {j \in DOMAIN complianceInfo :
                               /\ complianceInfo[j].status = "certified"
                               /\ complianceInfo[j].certificate = cd}}

ListOf(cd) ==
  IF cd \in DOMAIN deviceSoftwareCompliance THEN deviceSoftwareCompliance[cd] ELSE <<>>

\* The list of a certificate is the current records of what is certified
\* with it, each once, and nothing that was revoked since, as the comment in
\* RevokeModel has it: "remove compliance info from the entity Device
\* Compliance Info".
DeviceListsAgree ==
  \A cd \in CDCertificate :
    /\ Range(ListOf(cd)) = CertifiedWith(cd)
    /\ \A i, j \in DOMAIN ListOf(cd) : ListOf(cd)[i] = ListOf(cd)[j] => i = j
    /\ cd \in DOMAIN deviceSoftwareCompliance => ListOf(cd) # <<>>

\* The record was made, as a provisional one, with another string than its
\* version has.
Misnamed(info) ==
  LET version == info.key[1]
  IN  version \in DOMAIN versionString /\ info.string # versionString[version]

\* What is certified with a certificate is on its list, as the record is now
\* and once; all that is on the list is certified with it, but for copies of
\* a record that is misnamed, which RevokeModel does not find.  A string that
\* does not match makes its own record stay on a list and does nothing to the
\* lists of others (CertifyModel, RevokeModel, ProvisionModel).
CertifiedAreListed ==
  \A cd \in CDCertificate :
    /\ CertifiedWith(cd) \subseteq Range(ListOf(cd))
    /\ \A copy \in Range(ListOf(cd)) \ CertifiedWith(cd) : Misnamed(copy)
    /\ \A i, j \in DOMAIN ListOf(cd) : ListOf(cd)[i] = ListOf(cd)[j] => i = j
    /\ cd \in DOMAIN deviceSoftwareCompliance => ListOf(cd) # <<>>

\* A certified record has another certificate than the records that its
\* version has under other types, unless those are revoked.
TypesApart ==
  \A j, k \in DOMAIN complianceInfo :
    /\ j[1] = k[1] /\ complianceInfo[j].certificate = complianceInfo[k].certificate
    /\ complianceInfo[j].status = "certified" /\ complianceInfo[k].status # "revoked"
    => j = k
=============================================================================
