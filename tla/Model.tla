-------------------------------- MODULE Model --------------------------------
(***************************************************************************)
(* x/model: vendors describe their device models and the software versions *)
(* of each.  Two lists are kept beside the records: the products of a      *)
(* vendor (VendorProducts) and the versions of a model (ModelVersions).    *)
(* Of a record's fields the model has those that a handler checks or that  *)
(* are stored twice; a URL is either set or not.                           *)
(***************************************************************************)
EXTENDS Integers, Sequences, Functions, KVStore

CONSTANTS
  Address,            \* account addresses
  Vid, Pid,           \* vendor and product ids
  ProductName,
  SoftwareVersion,
  VersionString,      \* software version strings
  Image,              \* BOOLEAN; {FALSE} when no version has an image
  MaxRevision,        \* greatest revision of a localized string file (65535)
  MaxApplicable       \* bound on applicable software versions

ASSUME ImageAssumption == Image \subseteq BOOLEAN
ASSUME BoundAssumption == MaxRevision \in Nat \ {0} /\ MaxApplicable \in Nat

VARIABLES
  vendors,            \* accounts with the Vendor role: address |-> vendor id
  model,              \* <<vid, pid>> |-> record
  vendorProducts,     \* vid |-> list of products
  modelVersion,       \* <<vid, pid, software version>> |-> record
  modelVersions       \* <<vid, pid>> |-> list of software versions

catalog == <<model, vendorProducts, modelVersion, modelVersions>>
vars == <<vendors, catalog>>

VersionKey == Vid \X Pid \X SoftwareVersion

\* Applicable software versions; zero in an update keeps what is stored.
Applicable == 0..MaxApplicable

-----------------------------------------------------------------------------
(* The lists. *)

ProductsOf(vid) == IF vid \in DOMAIN vendorProducts THEN vendorProducts[vid] ELSE <<>>

\* The product is appended even when the list has it.
SetVendorProduct_Appends(vid, product) ==
  vendorProducts' = Put(vendorProducts, vid, Append(ProductsOf(vid), product))

\* The product replaces the one with its id, or is appended.
SetVendorProduct(vid, product) ==
  LET list == ProductsOf(vid)
      listed == \E i \in DOMAIN list : list[i].pid = product.pid
  IN  vendorProducts' =
        Put(vendorProducts, vid,
            IF listed
            THEN [i \in DOMAIN list |-> IF list[i].pid = product.pid THEN product ELSE list[i]]
            ELSE Append(list, product))

\* The list without its first product with this id.
WithoutProduct(list, pid) ==
  LET found == {i \in DOMAIN list : list[i].pid = pid}
      first == CHOOSE i \in found : \A j \in found : i <= j
  IN  IF found = {} THEN list
      ELSE SubSeq(list, 1, first - 1) \o SubSeq(list, first + 1, Len(list))

\* A list that becomes empty is removed.
RemoveVendorProduct(vid, pid) ==
  LET list == WithoutProduct(ProductsOf(vid), pid)
  IN  vendorProducts' = IF list = <<>> THEN Delete(vendorProducts, vid)
                                       ELSE Put(vendorProducts, vid, list)

VersionsOf(k) == IF k \in DOMAIN modelVersions THEN modelVersions[k] ELSE <<>>

\* The version replaces the list.
AddModelVersion_Replaces(vid, pid, version) ==
  modelVersions' = Put(modelVersions, <<vid, pid>>, <<version>>)

\* A version that is in the list is not added again.
AddModelVersion(vid, pid, version) ==
  LET list == VersionsOf(<<vid, pid>>) IN
  modelVersions' = IF version \in Range(list) THEN modelVersions
                   ELSE Put(modelVersions, <<vid, pid>>, Append(list, version))

-----------------------------------------------------------------------------
(* The handlers. *)

\* The signer has the Vendor role and this vendor id.
CheckModelRights(signer, vid) == signer \in DOMAIN vendors /\ vendors[signer] = vid

CreateModel(signer, vid, pid, name, lsfUrl) ==
  /\ CheckModelRights(signer, vid)
  /\ <<vid, pid>> \notin DOMAIN model
  /\ model' = Put(model, <<vid, pid>>,
                  [name |-> name, lsfUrl |-> lsfUrl, lsfRevision |-> IF lsfUrl THEN 1 ELSE 0])
  /\ SetVendorProduct(vid, [pid |-> pid, name |-> name])
  /\ UNCHANGED <<vendors, modelVersion, modelVersions>>

\* A revision without a file is accepted.
LsfRevisionAllowed_NoUrl(old, lsfUrl, lsfRevision) ==
  lsfRevision > 0 => lsfRevision = old.lsfRevision + 1

\* A revision can be skipped.
LsfRevisionAllowed_Skips(old, lsfUrl, lsfRevision) ==
  lsfRevision > 0 => (lsfUrl \/ old.lsfUrl) /\ lsfRevision > old.lsfRevision

\* A revision is given only for a file that is there, and is the next one.
LsfRevisionAllowed(old, lsfUrl, lsfRevision) ==
  lsfRevision > 0 => (lsfUrl \/ old.lsfUrl) /\ lsfRevision = old.lsfRevision + 1

\* The revision after an update: the one given, or the one stored; a file
\* that has none yet gets the first.
NextLsfRevision(old, lsfUrl, lsfRevision) ==
  CASE lsfRevision > 0                      -> lsfRevision
    [] lsfUrl /\ old.lsfRevision = 0        -> 1
    [] OTHER                                -> old.lsfRevision

\* An update gives a name, a URL and a revision, or leaves them as they are.
UpdateModel(signer, vid, pid, names, lsfUrl, lsfRevision) ==
  LET k == <<vid, pid>> IN
  /\ CheckModelRights(signer, vid)
  /\ k \in DOMAIN model
  /\ LsfRevisionAllowed(model[k], lsfUrl, lsfRevision)
  /\ \E name \in (IF names = {} THEN {model[k].name} ELSE names) :
       /\ model' = Put(model, k,
                       [name |-> name, lsfUrl |-> lsfUrl \/ model[k].lsfUrl,
                        lsfRevision |-> NextLsfRevision(model[k], lsfUrl, lsfRevision)])
       /\ SetVendorProduct(vid, [pid |-> pid, name |-> name])
  /\ UNCHANGED <<vendors, modelVersion, modelVersions>>

\* The versions of the model go with it.
DeleteModel_Versions(signer, vid, pid) ==
  /\ CheckModelRights(signer, vid)
  /\ <<vid, pid>> \in DOMAIN model
  /\ model' = Delete(model, <<vid, pid>>)
  /\ RemoveVendorProduct(vid, pid)
  /\ modelVersion' = [k \in {v \in DOMAIN modelVersion : <<v[1], v[2]>> # <<vid, pid>>}
                        |-> modelVersion[k]]
  /\ modelVersions' = Delete(modelVersions, <<vid, pid>>)
  /\ UNCHANGED vendors

\* The versions of the model stay, and so does their list.
DeleteModel(signer, vid, pid) ==
  /\ CheckModelRights(signer, vid)
  /\ <<vid, pid>> \in DOMAIN model
  /\ model' = Delete(model, <<vid, pid>>)
  /\ RemoveVendorProduct(vid, pid)
  /\ UNCHANGED <<vendors, modelVersion, modelVersions>>

\* What MsgCreateModelVersion.ValidateBasic accepts: the range is not empty,
\* and an image that can be downloaded has its size and checksum.
ValidNewVersion(new) == new.min <= new.max /\ (new.otaUrl => new.otaChecksum)

CreateModelVersion(signer, vid, pid, version, new) ==
  /\ CheckModelRights(signer, vid)
  /\ <<vid, pid>> \in DOMAIN model
  /\ <<vid, pid, version>> \notin DOMAIN modelVersion
  /\ modelVersion' = Put(modelVersion, <<vid, pid, version>>, new)
  /\ AddModelVersion(vid, pid, version)
  /\ UNCHANGED <<vendors, model, vendorProducts>>

\* The bounds of a range are compared only with each other.
RangeAllowed_Message(old, min, max) == max # 0 => min <= max

\* MsgUpdateModelVersion.ValidateBasic compares the bounds it gives, and the
\* handler the one that is given with the other that is stored.
RangeAllowed(old, min, max) ==
  /\ max # 0 => min <= max
  /\ min # 0 /\ max = 0 => min <= old.max
  /\ min = 0 /\ max # 0 => old.min <= max

OtaUrlAllowed(old, otaUrl) == otaUrl => old.otaUrl

\* The model may have been deleted.
UpdateModelVersion(signer, vid, pid, version, otaUrl, min, max) ==
  LET k == <<vid, pid, version>>
      old == modelVersion[k]
  IN
  /\ CheckModelRights(signer, vid)
  /\ k \in DOMAIN modelVersion
  /\ OtaUrlAllowed(old, otaUrl)
  /\ RangeAllowed(old, min, max)
  /\ modelVersion' = Put(modelVersion, k,
                         [string |-> old.string,
                          otaUrl |-> old.otaUrl \/ otaUrl, otaChecksum |-> old.otaChecksum,
                          min |-> IF min = 0 THEN old.min ELSE min,
                          max |-> IF max = 0 THEN old.max ELSE max])
  /\ UNCHANGED <<vendors, model, vendorProducts, modelVersions>>

VersionType ==
  [string : VersionString, otaUrl : Image, otaChecksum : Image,
   min : Applicable, max : Applicable]

ModelTx ==
  \E signer \in Address, vid \in Vid, pid \in Pid :
    \/ \E name \in ProductName, lsfUrl \in BOOLEAN : CreateModel(signer, vid, pid, name, lsfUrl)
    \/ \E names \in {{}} \cup {{name} : name \in ProductName}, lsfUrl \in BOOLEAN,
          lsfRevision \in 0..MaxRevision :
         UpdateModel(signer, vid, pid, names, lsfUrl, lsfRevision)
    \/ DeleteModel(signer, vid, pid)
    \/ \E version \in SoftwareVersion :
         \/ \E new \in {v \in VersionType : ValidNewVersion(v)} :
              CreateModelVersion(signer, vid, pid, version, new)
         \/ \E otaUrl \in Image, min, max \in Applicable :
              UpdateModelVersion(signer, vid, pid, version, otaUrl, min, max)

\* x/dclauth adds a vendor's account or revokes it.
ChangeVendors ==
  /\ \E a \in Address :
       \/ a \in DOMAIN vendors /\ vendors' = Delete(vendors, a)
       \/ a \notin DOMAIN vendors /\ \E vid \in Vid : vendors' = Put(vendors, a, vid)
  /\ UNCHANGED catalog

-----------------------------------------------------------------------------
Init ==
  /\ vendors = EmptyStore
  /\ model = EmptyStore
  /\ vendorProducts = EmptyStore
  /\ modelVersion = EmptyStore
  /\ modelVersions = EmptyStore

Next == ModelTx \/ ChangeVendors

Spec == Init /\ [][Next]_vars

-----------------------------------------------------------------------------
(* Properties. *)

\* Records are well formed whatever updates were made to them: a model has
\* a revision of its localized string file exactly when it has the file, and
\* an image with an address has its checksum, which no update can set.  A
\* list is never empty: the last element takes it with it.
TypeOK ==
  /\ IsStore(vendors, Address, Vid)
  /\ IsStore(model, Vid \X Pid,
             {r \in [name : ProductName, lsfUrl : BOOLEAN, lsfRevision : 0..MaxRevision] :
                r.lsfUrl <=> r.lsfRevision > 0})
  /\ IsStore(vendorProducts, Vid, Seq([pid : Pid, name : ProductName]) \ {<<>>})
  /\ IsStore(modelVersion, VersionKey, {v \in VersionType : v.otaUrl => v.otaChecksum})
  /\ IsStore(modelVersions, Vid \X Pid, Seq(SoftwareVersion) \ {<<>>})

\* GET_ALL_VENDOR_MODELS lists every model of a vendor once, under the name
\* the model has now, and no model that was deleted.
ProductsAgree ==
  \A vid \in Vid :
    LET list == ProductsOf(vid) IN
    /\ Range(list) = {[pid |-> k[2], name |-> model[k].name] : k \in {m \in DOMAIN model : m[1] = vid}}
    /\ \A i, j \in DOMAIN list : list[i].pid = list[j].pid => i = j

\* GET_ALL_MODEL_VERSIONS lists every version of a model once, also when the
\* model was deleted and created again under the same ids.
VersionsAgree ==
  \A k \in Vid \X Pid :
    LET list == VersionsOf(k) IN
    /\ Range(list) = {v \in SoftwareVersion : <<k[1], k[2], v>> \in DOMAIN modelVersion}
    /\ \A i, j \in DOMAIN list : list[i] = list[j] => i = j

\* While a model stays, its file stays, and the revision stays or becomes
\* the next one: no revision is skipped, repeated backwards or lost.
RevisionStep ==
  \A k \in DOMAIN model \cap DOMAIN model' :
    /\ model[k].lsfUrl => model'[k].lsfUrl
    /\ model'[k].lsfRevision - model[k].lsfRevision \in {0, 1}

\* "LsfRevision is a monotonically increasing positive integer."
RevisionsInOrder == [][RevisionStep]_vars

\* Whatever updates were made to one bound or to both, the range of software
\* versions an image applies to is not empty.
RangeNotEmpty ==
  \A k \in DOMAIN modelVersion : modelVersion[k].min <= modelVersion[k].max
=============================================================================
