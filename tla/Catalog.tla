------------------------------- MODULE Catalog -------------------------------
(***************************************************************************)
(* x/model and x/compliance together: the versions that are certified are  *)
(* those the vendors put on the ledger, while models are updated, deleted  *)
(* and created again.                                                      *)
(***************************************************************************)
EXTENDS Model

CONSTANTS CertificationType, CDCertificate, NoCertificate, MaxDate, MaxHistory

ASSUME CertificateAssumption == NoCertificate \notin CDCertificate
ASSUME HistoryAssumption == MaxDate \in Nat /\ MaxHistory \in Nat

VARIABLES
  centers, complianceInfo, certifiedModel, revokedModel, provisionalModel,
  deviceSoftwareCompliance

records == <<complianceInfo, certifiedModel, revokedModel, provisionalModel,
             deviceSoftwareCompliance>>
allVars == <<vars, centers, records>>

\* GetModelVersion, as x/compliance uses it: every version with its string.
StringOf == [k \in DOMAIN modelVersion |-> modelVersion[k].string]

C == INSTANCE Compliance WITH Version <- VersionKey, versionString <- StringOf

-----------------------------------------------------------------------------
\* A transaction of x/model, or x/dclauth changes the vendors.
VendorStep == Next /\ UNCHANGED <<centers, records>>

\* A transaction of x/compliance, or x/dclauth changes the centers.
CenterStep ==
  /\ UNCHANGED vars
  /\ \/ C!ComplianceTx
     \/ C!ChangeCenters

CatalogInit == Init /\ centers = {} /\ C!InitRecords

CatalogNext == VendorStep \/ CenterStep

CatalogSpec == CatalogInit /\ [][CatalogNext]_allVars

-----------------------------------------------------------------------------
(* Properties. *)

\* What x/compliance assumes of x/model holds: versions are only added, and
\* keep their strings, although models are deleted and versions updated.
\* Every behaviour of the two is one of x/compliance.
ImplementsCompliance == C!Spec

\* A certified record has another compliance certificate than the records
\* that its version has under other certification types, unless those are
\* revoked.  RevokeModel needs it to take the right copy off a list; with one
\* type it always holds.
TypesApart == C!TypesApart

\* If the types are always apart, what is certified with a compliance
\* certificate is on its list, as the record is now and once, and nothing else
\* is, while models and versions change.  A record made provisional with
\* another string than its version has is not found in the list when it is
\* revoked; such a record stays on it, and no other does (CertifyModel,
\* RevokeModel).
CertifiedAreListed == C!CertifiedAreListed

\* The three indexes of flags say what the records say, whichever handlers
\* wrote them and whatever vendors do to the versions meanwhile.
FlagsAgree == C!FlagsAgree

\* The statuses of a record are kept, in the order of their dates, and a
\* record outlives the model it is about (CertifyModel, RevokeModel).
TrailGrowsInOrder == C!TrailGrowsInOrder

\* "The corresponding Model and Model Version must be present on the ledger"
\* (docs/transactions.md:405): what is certified, or was and is revoked now,
\* has its version there, although models were deleted and created again
\* since.  It has the string of the version too, unless the record began as a
\* provisional one, which is made without a look at the version (CertifyModel,
\* ProvisionModel, DeleteModel).
CertifiedHasVersion ==
  \A k \in DOMAIN complianceInfo :
    LET trail == C!Trail(complianceInfo[k])
    IN  (\E i \in DOMAIN trail : trail[i].status = "certified") =>
          /\ k[1] \in DOMAIN modelVersion
          /\ \/ trail[1].status = "provisional"
             \/ complianceInfo[k].string = modelVersion[k[1]].string
=============================================================================
