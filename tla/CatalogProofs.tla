---------------------------- MODULE CatalogProofs ----------------------------
(***************************************************************************)
(* x/model and x/compliance together, for any vendors, models, versions    *)
(* and certificates: every behaviour of the two is one of Compliance and   *)
(* one of Model, whose records and lists agree.                            *)
(***************************************************************************)
EXTENDS Catalog, LedgerLemmas, WellFoundedInduction

\* A new version is added to those x/compliance sees, with its string.
LEMMA CreateVersionMaps ==
  ASSUME NEW signer, NEW vid \in Vid, NEW pid \in Pid, NEW version \in SoftwareVersion,
         NEW new \in VersionType, CreateModelVersion(signer, vid, pid, version, new),
         UNCHANGED <<centers, records>>
  PROVE  C!AddVersion
<1> DEFINE k == <<vid, pid, version>>
<1>1. k \in VersionKey /\ new.string \in VersionString
  BY DEF VersionKey, VersionType
<1>2. k \notin DOMAIN modelVersion /\ modelVersion' = Put(modelVersion, k, new)
  BY DEF CreateModelVersion
<1> HIDE DEF k
<1>3. k \notin DOMAIN StringOf /\ StringOf' = C!Put(StringOf, k, new.string)
  BY <1>2 DEF StringOf, Put, C!Put
<1>4. UNCHANGED <<centers, C!records>>
  BY DEF records, C!records, C!flags
<1>5. QED
  BY <1>1, <1>3, <1>4 DEF C!AddVersion

\* An update leaves the string of the version alone.
LEMMA UpdateVersionMaps ==
  ASSUME NEW signer, NEW vid, NEW pid, NEW version, NEW otaUrl, NEW min, NEW max,
         UpdateModelVersion(signer, vid, pid, version, otaUrl, min, max)
  PROVE  StringOf' = StringOf
<1> DEFINE k == <<vid, pid, version>>
<1>1. k \in DOMAIN modelVersion
  BY DEF UpdateModelVersion
<1>2. PICK new : new.string = modelVersion[k].string /\ modelVersion' = Put(modelVersion, k, new)
  BY DEF UpdateModelVersion
<1> HIDE DEF k
<1>3. QED
  BY <1>1, <1>2 DEF StringOf, Put

\* Every step of x/model adds a version or changes nothing that x/compliance
\* reads of it: a model that is deleted leaves its versions on the ledger.
LEMMA VendorStepMaps == VendorStep => C!AddVersion \/ UNCHANGED C!vars
<1> SUFFICES ASSUME VendorStep PROVE C!AddVersion \/ UNCHANGED C!vars
  OBVIOUS
<1>1. UNCHANGED <<centers, records>>
  BY DEF VendorStep
<1>2. ASSUME StringOf' = StringOf
      PROVE  UNCHANGED C!vars
  BY <1>1, <1>2 DEF C!vars, C!records, C!flags, records
<1>3. ASSUME UNCHANGED modelVersion
      PROVE  UNCHANGED C!vars
  BY <1>2, <1>3 DEF StringOf
<1>4. CASE ModelTx
  <2>1. PICK signer \in Address, vid \in Vid, pid \in Pid :
          \/ \E name \in ProductName, lsfUrl \in BOOLEAN :
               CreateModel(signer, vid, pid, name, lsfUrl)
          \/ \E names \in {{}} \cup {{name} : name \in ProductName}, lsfUrl \in BOOLEAN,
                lsfRevision \in 0..MaxRevision :
               UpdateModel(signer, vid, pid, names, lsfUrl, lsfRevision)
          \/ DeleteModel(signer, vid, pid)
          \/ \E version \in SoftwareVersion :
               \/ \E new \in {v \in VersionType : ValidNewVersion(v)} :
                    CreateModelVersion(signer, vid, pid, version, new)
               \/ \E otaUrl \in Image, min, max \in Applicable :
                    UpdateModelVersion(signer, vid, pid, version, otaUrl, min, max)
    BY <1>4, Zenon DEF ModelTx
  <2>2. ASSUME NEW version \in SoftwareVersion, NEW new \in {v \in VersionType : ValidNewVersion(v)},
               CreateModelVersion(signer, vid, pid, version, new)
        PROVE  C!AddVersion
    BY <1>1, <2>2, CreateVersionMaps
  <2>3. ASSUME NEW version, NEW otaUrl, NEW min, NEW max,
               UpdateModelVersion(signer, vid, pid, version, otaUrl, min, max)
        PROVE  UNCHANGED C!vars
    BY <1>2, <2>3, UpdateVersionMaps, Zenon
  <2>4. ASSUME NEW name, NEW lsfUrl, CreateModel(signer, vid, pid, name, lsfUrl)
        PROVE  UNCHANGED C!vars
    BY <1>3, <2>4 DEF CreateModel
  <2>5. ASSUME NEW names, NEW lsfUrl, NEW lsfRevision,
               UpdateModel(signer, vid, pid, names, lsfUrl, lsfRevision)
        PROVE  UNCHANGED C!vars
    BY <1>3, <2>5 DEF UpdateModel
  <2>6. ASSUME DeleteModel(signer, vid, pid)
        PROVE  UNCHANGED C!vars
    BY <1>3, <2>6 DEF DeleteModel
  <2>7. QED
    BY <2>1, <2>2, <2>3, <2>4, <2>5, <2>6, Zenon
<1>5. CASE ChangeVendors
  BY <1>3, <1>5 DEF ChangeVendors, catalog
<1>6. QED
  BY <1>4, <1>5 DEF VendorStep, Next

\* What x/compliance assumes of x/model holds: versions are only added and
\* keep their strings, whatever vendors do to their models.
THEOREM CatalogImplementsCompliance == CatalogSpec => ImplementsCompliance
<1>1. CatalogInit => C!Init
  <2>1. Init => StringOf = C!EmptyStore
    BY DEF Init, StringOf, EmptyStore, C!EmptyStore
  <2>2. QED
    BY <2>1 DEF CatalogInit, C!Init
<1>2. [CatalogNext]_allVars => [C!Next]_C!vars
  <2>1. CASE VendorStep
    BY <2>1, VendorStepMaps DEF C!Next
  <2>2. CASE CenterStep
    BY <2>2 DEF CenterStep, C!Next
  <2>3. CASE UNCHANGED allVars
    BY <2>3 DEF allVars, vars, catalog, records, StringOf, C!vars, C!records, C!flags
  <2>4. QED
    BY <2>1, <2>2, <2>3 DEF CatalogNext
<1>3. QED
  BY <1>1, <1>2, PTL DEF CatalogSpec, ImplementsCompliance, C!Spec
-----------------------------------------------------------------------------
(* x/model: its records and lists. *)

ModelRecord ==
  {r \in [name : ProductName, lsfUrl : BOOLEAN, lsfRevision : 0..MaxRevision] :
     r.lsfUrl <=> r.lsfRevision > 0}

Product == [pid : Pid, name : ProductName]

VersionRecord == {v \in VersionType : v.otaUrl => v.otaChecksum}

\* TypeOK in these terms.
LEMMA ModelTypes ==
  TypeOK <=>
    /\ IsStore(vendors, Address, Vid)
    /\ IsStore(model, Vid \X Pid, ModelRecord)
    /\ IsStore(vendorProducts, Vid, Seq(Product) \ {<<>>})
    /\ IsStore(modelVersion, VersionKey, VersionRecord)
    /\ IsStore(modelVersions, Vid \X Pid, Seq(SoftwareVersion) \ {<<>>})
BY Zenon DEF TypeOK, ModelRecord, Product, VersionRecord

\* The list that SetVendorProduct stores.
WithProduct(list, product) ==
  IF \E i \in DOMAIN list : list[i].pid = product.pid
  THEN [i \in DOMAIN list |-> IF list[i].pid = product.pid THEN product ELSE list[i]]
  ELSE Append(list, product)

\* It stores it.
LEMMA ProductSet ==
  ASSUME NEW vid, NEW product, SetVendorProduct(vid, product)
  PROVE  vendorProducts' = Put(vendorProducts, vid, WithProduct(ProductsOf(vid), product))
BY Zenon DEF SetVendorProduct, WithProduct

\* The product takes the places of those with its id.
InPlace(new, list, product) ==
  /\ DOMAIN new = DOMAIN list
  /\ \E i \in DOMAIN list : list[i].pid = product.pid
  /\ \A i \in DOMAIN list : new[i] = IF list[i].pid = product.pid THEN product ELSE list[i]

\* The product is new, and the last of the list.
AtEnd(new, list, product) ==
  /\ DOMAIN new = DOMAIN list \cup {Len(list) + 1}
  /\ Len(list) + 1 \notin DOMAIN list
  /\ \A i \in DOMAIN list : list[i].pid # product.pid
  /\ \A i \in DOMAIN list : new[i] = list[i]
  /\ new[Len(list) + 1] = product

\* The list without the product at a place.
CutAt(rest, list, first, pid) ==
  /\ list[first].pid = pid /\ Len(rest) = Len(list) - 1
  /\ \A i \in DOMAIN rest : rest[i] = IF i < first THEN list[i] ELSE list[i + 1]

\* SetVendorProduct does one of the two.
LEMMA WithPlaces ==
  ASSUME NEW list \in Seq(Product), NEW product \in Product
  PROVE  /\ WithProduct(list, product) \in Seq(Product) \ {<<>>}
         /\ \/ InPlace(WithProduct(list, product), list, product)
            \/ AtEnd(WithProduct(list, product), list, product)
<1> DEFINE new == WithProduct(list, product)
<1>1. Len(list) \in Nat /\ DOMAIN list = 1..Len(list) /\ \A i \in DOMAIN list : list[i] \in Product
  OBVIOUS
<1>2. CASE \E i \in DOMAIN list : list[i].pid = product.pid
  <2>1. new = [i \in 1..Len(list) |-> IF list[i].pid = product.pid THEN product ELSE list[i]]
    BY <1>1, <1>2, Zenon DEF WithProduct
  <2>2. \A i \in 1..Len(list) : (IF list[i].pid = product.pid THEN product ELSE list[i]) \in Product
    BY <1>1
  <2>3. new \in [1..Len(list) -> Product]
    BY <2>1, <2>2
  <2>4. new \in Seq(Product) /\ Len(new) = Len(list)
    BY <1>1, <2>3
  <2>5. DOMAIN new = DOMAIN list
    BY <1>1, <2>1
  <2>6. \A i \in DOMAIN list : new[i] = IF list[i].pid = product.pid THEN product ELSE list[i]
    BY <1>1, <2>1
  <2>7. new # <<>>
    BY <1>1, <1>2, <2>5
  <2> HIDE DEF new
  <2>8. InPlace(new, list, product)
    BY <1>2, <2>5, <2>6, Zenon DEF InPlace
  <2>9. QED
    BY <2>4, <2>7, <2>8, Zenon DEF new
<1>3. CASE \A i \in DOMAIN list : list[i].pid # product.pid
  <2>1. new = Append(list, product)
    BY <1>3, Zenon DEF WithProduct
  <2> HIDE DEF new
  <2>2. /\ new \in Seq(Product) /\ Len(new) = Len(list) + 1 /\ new[Len(list) + 1] = product
        /\ \A i \in DOMAIN list : new[i] = list[i]
    BY <2>1
  <2>3. DOMAIN new = DOMAIN list \cup {Len(list) + 1} /\ Len(list) + 1 \notin DOMAIN list
    BY <1>1, <2>2
  <2>4. new # <<>>
    BY <1>1, <2>2
  <2>5. AtEnd(new, list, product)
    BY <1>3, <2>2, <2>3, Zenon DEF AtEnd
  <2>6. QED
    BY <2>2, <2>4, <2>5, Zenon DEF new
<1>4. QED
  BY <1>2, <1>3

\* The first place of a product exists.
LEMMA LeastNumber ==
  ASSUME NEW S, S \subseteq Nat, S # {}
  PROVE  \E i \in S : \A j \in S : i <= j
<1>1. PICK R : R = OpToRel(<, Nat)
  BY Zenon
<1>2. R = {p \in Nat \X Nat : p[1] < p[2]}
  BY <1>1, Zenon DEF OpToRel
<1>3. IsWellFoundedOn(R, Nat)
  BY <1>1, NatLessThanWellFounded, Zenon
<1>4. \E i \in S : \A j \in S : ~(<<j, i>> \in R)
  BY <1>3, WFMin, Zenon
<1>5. \A i, j \in S : ~(<<j, i>> \in R) => i <= j
  BY <1>2
<1>6. QED
  BY <1>4, <1>5, Zenon

\* A list without its first product of an id, if it has one.
LEMMA WithoutPlaces ==
  ASSUME NEW list \in Seq(Product), NEW pid, NEW rest, rest = WithoutProduct(list, pid)
  PROVE  /\ rest \in Seq(Product)
         /\ \/ rest = list /\ \A i \in DOMAIN list : list[i].pid # pid
            \/ \E first \in DOMAIN list : CutAt(rest, list, first, pid)
<1> DEFINE found == {i \in DOMAIN list : list[i].pid = pid}
           first == CHOOSE i \in found : \A j \in found : i <= j
<1>1. CASE found = {}
  BY <1>1 DEF WithoutProduct
<1>2. CASE found # {}
  <2>1. found \subseteq Nat
    OBVIOUS
  <2>2. first \in found
    <3>1. \E i \in found : \A j \in found : i <= j
      BY <1>2, <2>1, LeastNumber, Zenon
    <3>2. QED
      BY <3>1
  <2>3. rest = SubSeq(list, 1, first - 1) \o SubSeq(list, first + 1, Len(list))
    BY <1>2, Zenon DEF WithoutProduct
  <2>4. first \in DOMAIN list /\ list[first].pid = pid /\ first \in 1..Len(list) /\ Len(list) \in Nat
    BY <2>2
  <2> HIDE DEF first, found
  <2>5. rest \in Seq(Product) /\ CutFrom(rest, list, first)
    BY <2>3, <2>4, CutPlaces, Zenon
  <2>6. CutAt(rest, list, first, pid)
    BY <2>4, <2>5, Zenon DEF CutAt, CutFrom
  <2>7. QED
    BY <2>4, <2>5, <2>6, Zenon
<1>3. QED
  BY <1>1, <1>2

\* What SetVendorProduct leaves is well formed.
LEMMA ListedTypes ==
  ASSUME TypeOK, NEW vid \in Vid, NEW product \in Product, SetVendorProduct(vid, product)
  PROVE  IsStore(vendorProducts', Vid, Seq(Product) \ {<<>>})
<1>1. IsStore(vendorProducts, Vid, Seq(Product) \ {<<>>})
  BY ModelTypes, Zenon
<1>2. ProductsOf(vid) \in Seq(Product)
  BY <1>1 DEF ProductsOf, IsStore
<1>3. WithProduct(ProductsOf(vid), product) \in Seq(Product) \ {<<>>}
  BY <1>2, WithPlaces, Zenon
<1>4. QED
  BY <1>1, <1>3, ProductSet, PutIsStore, Zenon

\* And so is what RemoveVendorProduct leaves: no empty list.
LEMMA UnlistedTypes ==
  ASSUME TypeOK, NEW vid \in Vid, NEW pid, RemoveVendorProduct(vid, pid)
  PROVE  IsStore(vendorProducts', Vid, Seq(Product) \ {<<>>})
<1>1. IsStore(vendorProducts, Vid, Seq(Product) \ {<<>>})
  BY ModelTypes, Zenon
<1>2. ProductsOf(vid) \in Seq(Product)
  BY <1>1 DEF ProductsOf, IsStore
<1>3. PICK rest : rest = WithoutProduct(ProductsOf(vid), pid)
  BY Zenon
<1>4. rest \in Seq(Product)
  BY <1>2, <1>3, WithoutPlaces, Zenon
<1>5. vendorProducts' = IF rest = <<>> THEN Delete(vendorProducts, vid)
                                       ELSE Put(vendorProducts, vid, rest)
  BY <1>3, Zenon DEF RemoveVendorProduct
<1>6. QED
  BY <1>1, <1>4, <1>5, PutIsStore, DeleteIsStore, Zenon

\* A model's file and its revision are there together from the start.
LEMMA CreateModelTypes ==
  ASSUME TypeOK, NEW signer, NEW vid \in Vid, NEW pid \in Pid, NEW name \in ProductName,
         NEW lsfUrl \in BOOLEAN, CreateModel(signer, vid, pid, name, lsfUrl)
  PROVE  TypeOK' /\ RevisionStep
<1> DEFINE new == [name |-> name, lsfUrl |-> lsfUrl, lsfRevision |-> IF lsfUrl THEN 1 ELSE 0]
<1>1. <<vid, pid>> \in Vid \X Pid /\ new \in ModelRecord
  BY BoundAssumption DEF ModelRecord
<1>2. /\ <<vid, pid>> \notin DOMAIN model /\ model' = Put(model, <<vid, pid>>, new)
      /\ SetVendorProduct(vid, [pid |-> pid, name |-> name])
      /\ UNCHANGED <<vendors, modelVersion, modelVersions>>
  BY Zenon DEF CreateModel
<1>3. [pid |-> pid, name |-> name] \in Product
  BY DEF Product
<1> HIDE DEF new
<1>4. IsStore(model', Vid \X Pid, ModelRecord)
  BY <1>1, <1>2, ModelTypes, PutIsStore, Zenon
<1>5. IsStore(vendorProducts', Vid, Seq(Product) \ {<<>>})
  BY <1>2, <1>3, ListedTypes, Zenon
<1>6. TypeOK'
  BY <1>2, <1>4, <1>5, Zenon DEF TypeOK, ModelRecord, Product
<1>7. \A k \in DOMAIN model : model[k].lsfRevision \in Int
  BY ModelTypes DEF IsStore, ModelRecord
<1>8. \A k \in DOMAIN model : model'[k] = model[k]
  BY <1>2 DEF Put
<1>9. RevisionStep
  BY <1>7, <1>8 DEF RevisionStep
<1>10. QED
  BY <1>6, <1>9

\* The next record of a model: its file stays, and the revision stays or is
\* the next one.
LEMMA NextRecord ==
  ASSUME NEW old \in ModelRecord, NEW name \in ProductName, NEW lsfUrl \in BOOLEAN,
         NEW lsfRevision \in 0..MaxRevision, LsfRevisionAllowed(old, lsfUrl, lsfRevision),
         NEW new, new = [name |-> name, lsfUrl |-> lsfUrl \/ old.lsfUrl,
                         lsfRevision |-> NextLsfRevision(old, lsfUrl, lsfRevision)]
  PROVE  /\ new \in ModelRecord
         /\ old.lsfUrl => new.lsfUrl
         /\ new.lsfRevision - old.lsfRevision \in {0, 1}
<1>1. /\ old.lsfUrl \in BOOLEAN /\ old.lsfRevision \in 0..MaxRevision
      /\ old.lsfUrl <=> old.lsfRevision > 0
  BY DEF ModelRecord
<1>2. PICK next : next = NextLsfRevision(old, lsfUrl, lsfRevision)
  OBVIOUS
<1>3. /\ lsfRevision > 0 => next = lsfRevision /\ (lsfUrl \/ old.lsfUrl)
                            /\ lsfRevision = old.lsfRevision + 1
      /\ ~(lsfRevision > 0) /\ lsfUrl /\ old.lsfRevision = 0 => next = 1
      /\ ~(lsfRevision > 0) /\ ~(lsfUrl /\ old.lsfRevision = 0) => next = old.lsfRevision
  BY <1>2 DEF NextLsfRevision, LsfRevisionAllowed
<1>4. next \in 0..MaxRevision /\ ((lsfUrl \/ old.lsfUrl) <=> next > 0)
  BY <1>1, <1>3, BoundAssumption
<1>5. next - old.lsfRevision \in {0, 1}
  BY <1>1, <1>3
<1>6. PICK url \in BOOLEAN : url = (lsfUrl \/ old.lsfUrl)
  BY Zenon
<1>7. new = [name |-> name, lsfUrl |-> url, lsfRevision |-> next] /\ (url <=> next > 0)
  BY <1>2, <1>4, <1>6, Zenon
<1>8. new.lsfRevision = next /\ new.lsfUrl = url /\ new \in ModelRecord
  BY <1>4, <1>7 DEF ModelRecord
<1>9. old.lsfUrl => new.lsfUrl
  BY <1>6, <1>8, Zenon
<1>10. QED
  BY <1>5, <1>8, <1>9, Zenon

\* An update keeps a record well formed and its revisions in order.
LEMMA UpdateModelTypes ==
  ASSUME TypeOK, NEW signer, NEW vid \in Vid, NEW pid \in Pid,
         NEW names \in {{}} \cup {{name} : name \in ProductName}, NEW lsfUrl \in BOOLEAN,
         NEW lsfRevision \in 0..MaxRevision,
         UpdateModel(signer, vid, pid, names, lsfUrl, lsfRevision)
  PROVE  TypeOK' /\ RevisionStep
<1>1. PICK k : k = <<vid, pid>>
  BY Zenon
<1>2. /\ k \in DOMAIN model /\ LsfRevisionAllowed(model[k], lsfUrl, lsfRevision)
      /\ UNCHANGED <<vendors, modelVersion, modelVersions>>
  BY <1>1, Zenon DEF UpdateModel
<1>3. PICK name \in (IF names = {} THEN {model[k].name} ELSE names) :
        /\ model' = Put(model, k,
                        [name |-> name, lsfUrl |-> lsfUrl \/ model[k].lsfUrl,
                         lsfRevision |-> NextLsfRevision(model[k], lsfUrl, lsfRevision)])
        /\ SetVendorProduct(vid, [pid |-> pid, name |-> name])
  BY <1>1, Zenon DEF UpdateModel
<1>4. IsStore(model, Vid \X Pid, ModelRecord)
  BY ModelTypes, Zenon
<1>5. k \in Vid \X Pid /\ model[k] \in ModelRecord /\ model[k].name \in ProductName
  BY <1>2, <1>4 DEF IsStore, ModelRecord
<1>6. name \in ProductName
  BY <1>5
<1>7. PICK new : new = [name |-> name, lsfUrl |-> lsfUrl \/ model[k].lsfUrl,
                        lsfRevision |-> NextLsfRevision(model[k], lsfUrl, lsfRevision)]
  BY Zenon
<1>8. /\ new \in ModelRecord
      /\ model[k].lsfUrl => new.lsfUrl
      /\ new.lsfRevision - model[k].lsfRevision \in {0, 1}
  <2>1. PICK old : old = model[k]
    BY Zenon
  <2>2. /\ old \in ModelRecord /\ LsfRevisionAllowed(old, lsfUrl, lsfRevision)
        /\ new = [name |-> name, lsfUrl |-> lsfUrl \/ old.lsfUrl,
                  lsfRevision |-> NextLsfRevision(old, lsfUrl, lsfRevision)]
    BY <1>2, <1>5, <1>7, <2>1, Zenon
  <2>3. /\ new \in ModelRecord
        /\ old.lsfUrl => new.lsfUrl
        /\ new.lsfRevision - old.lsfRevision \in {0, 1}
    BY <1>6, <2>2, NextRecord
  <2>4. QED
    BY <2>1, <2>3, Zenon
<1>9. model' = Put(model, k, new)
  BY <1>3, <1>7, Zenon
<1>10. IsStore(model', Vid \X Pid, ModelRecord)
  BY <1>4, <1>5, <1>8, <1>9, PutIsStore, Zenon
<1>11. [pid |-> pid, name |-> name] \in Product
  BY <1>6 DEF Product
<1>12. IsStore(vendorProducts', Vid, Seq(Product) \ {<<>>})
  BY <1>3, <1>11, ListedTypes, Zenon
<1>13. TypeOK'
  BY <1>2, <1>10, <1>12, Zenon DEF TypeOK, ModelRecord, Product
<1>14. \A m \in DOMAIN model : model[m].lsfRevision \in Int
  BY <1>4 DEF IsStore, ModelRecord
<1>15. \A m \in DOMAIN model : model'[m] = IF m = k THEN new ELSE model[m]
  BY <1>9 DEF Put
<1>16. RevisionStep
  BY <1>8, <1>14, <1>15 DEF RevisionStep
<1>17. QED
  BY <1>13, <1>16

\* A deleted model takes an empty list with it; the others stay as they are.
LEMMA DeleteModelTypes ==
  ASSUME TypeOK, NEW signer, NEW vid \in Vid, NEW pid \in Pid, DeleteModel(signer, vid, pid)
  PROVE  TypeOK' /\ RevisionStep
<1>1. /\ model' = Delete(model, <<vid, pid>>) /\ RemoveVendorProduct(vid, pid)
      /\ UNCHANGED <<vendors, modelVersion, modelVersions>>
  BY Zenon DEF DeleteModel
<1>2. IsStore(model', Vid \X Pid, ModelRecord)
  BY <1>1, ModelTypes, DeleteIsStore, Zenon
<1>3. IsStore(vendorProducts', Vid, Seq(Product) \ {<<>>})
  BY <1>1, UnlistedTypes, Zenon
<1>4. TypeOK'
  BY <1>1, <1>2, <1>3, Zenon DEF TypeOK, ModelRecord, Product
<1>5. \A m \in DOMAIN model : model[m].lsfRevision \in Int
  BY ModelTypes DEF IsStore, ModelRecord
<1>6. \A m \in DOMAIN model' : model'[m] = model[m]
  BY <1>1 DEF Delete
<1>7. RevisionStep
  BY <1>5, <1>6 DEF RevisionStep
<1>8. QED
  BY <1>4, <1>7

\* Applicable software versions are numbers.
LEMMA ApplicableNumbers == \A n \in Applicable : n \in Nat
BY BoundAssumption DEF Applicable

\* What a new version leaves of the types and the ranges: the record has
\* been validated, and its list has one element more.
LEMMA CreateVersionTypes ==
  ASSUME TypeOK, NEW signer, NEW vid \in Vid, NEW pid \in Pid, NEW version \in SoftwareVersion,
         NEW new \in {v \in VersionType : ValidNewVersion(v)},
         CreateModelVersion(signer, vid, pid, version, new)
  PROVE  TypeOK' /\ RevisionStep /\ (RangeNotEmpty => RangeNotEmpty')
<1>1. PICK k : k = <<vid, pid, version>>
  BY Zenon
<1>2. /\ modelVersion' = Put(modelVersion, k, new) /\ AddModelVersion(vid, pid, version)
      /\ UNCHANGED <<vendors, model, vendorProducts>>
  BY <1>1, Zenon DEF CreateModelVersion
<1>3. k \in VersionKey
  BY <1>1 DEF VersionKey
<1>4. new \in VersionRecord /\ new.min <= new.max
  BY Zenon DEF ValidNewVersion, VersionRecord
<1>5. IsStore(modelVersion', VersionKey, VersionRecord)
  BY <1>2, <1>3, <1>4, ModelTypes, PutIsStore, Zenon
<1>6. IsStore(modelVersions', Vid \X Pid, Seq(SoftwareVersion) \ {<<>>})
  <2>1. PICK m \in Vid \X Pid : m = <<vid, pid>>
    BY Zenon
  <2>2. IsStore(modelVersions, Vid \X Pid, Seq(SoftwareVersion) \ {<<>>})
    BY ModelTypes, Zenon
  <2>3. VersionsOf(m) \in Seq(SoftwareVersion)
    BY <2>2 DEF VersionsOf, IsStore
  <2>4. Append(VersionsOf(m), version) \in Seq(SoftwareVersion) \ {<<>>}
    BY <2>3
  <2>5. \/ modelVersions' = modelVersions
        \/ modelVersions' = Put(modelVersions, m, Append(VersionsOf(m), version))
    BY <1>2, <2>1, Zenon DEF AddModelVersion
  <2>6. QED
    BY <2>2, <2>4, <2>5, PutIsStore, ZenonT(60)
<1>7. TypeOK'
  BY <1>2, <1>5, <1>6, Zenon DEF TypeOK, VersionRecord
<1>8. RevisionStep
  <2>1. \A m \in DOMAIN model : model[m].lsfRevision \in Int
    BY ModelTypes DEF IsStore, ModelRecord
  <2>2. QED
    BY <1>2, <2>1 DEF RevisionStep
<1>9. ASSUME RangeNotEmpty
      PROVE  RangeNotEmpty'
  BY <1>2, <1>4, <1>9 DEF RangeNotEmpty, Put
<1>10. QED
  BY <1>7, <1>8, <1>9

\* An update leaves a version that can be downloaded its checksum, and its
\* range is not empty whichever bound is given.
LEMMA NextVersion ==
  ASSUME NEW old \in VersionRecord, old.min <= old.max, NEW otaUrl \in Image,
         NEW min \in Applicable, NEW max \in Applicable, NEW new,
         OtaUrlAllowed(old, otaUrl), RangeAllowed(old, min, max),
         new = [string |-> old.string,
                otaUrl |-> old.otaUrl \/ otaUrl, otaChecksum |-> old.otaChecksum,
                min |-> IF min = 0 THEN old.min ELSE min,
                max |-> IF max = 0 THEN old.max ELSE max]
  PROVE  new \in VersionRecord /\ new.min <= new.max
<1>1. /\ old.string \in VersionString /\ old.otaUrl \in Image /\ old.otaChecksum \in Image
      /\ old.min \in Applicable /\ old.max \in Applicable
      /\ old.otaUrl => old.otaChecksum
  BY DEF VersionRecord, VersionType
<1>2. old.otaUrl \in BOOLEAN /\ otaUrl \in BOOLEAN
  BY <1>1, ImageAssumption, Zenon
<1>3. (old.otaUrl \/ otaUrl) = old.otaUrl
  BY <1>2, Zenon DEF OtaUrlAllowed
<1>4. PICK lo \in Applicable, hi \in Applicable :
        /\ lo = IF min = 0 THEN old.min ELSE min
        /\ hi = IF max = 0 THEN old.max ELSE max
  BY <1>1
<1>5. lo <= hi
  BY <1>1, <1>4, ApplicableNumbers DEF RangeAllowed
<1>6. new = [string |-> old.string, otaUrl |-> old.otaUrl, otaChecksum |-> old.otaChecksum,
             min |-> lo, max |-> hi]
  BY <1>3, <1>4, Zenon
<1>7. new \in VersionType /\ new.min = lo /\ new.max = hi
  BY <1>1, <1>4, <1>6 DEF VersionType
<1>8. new.otaUrl = old.otaUrl /\ new.otaChecksum = old.otaChecksum
  BY <1>6
<1>9. new.otaUrl => new.otaChecksum
  BY <1>1, <1>8, Zenon
<1>10. QED
  BY <1>5, <1>7, <1>9, Zenon DEF VersionRecord

\* What an update of a version leaves of the types and the ranges.
LEMMA UpdateVersionTypes ==
  ASSUME TypeOK, RangeNotEmpty, NEW signer, NEW vid, NEW pid, NEW version, NEW otaUrl \in Image,
         NEW min \in Applicable, NEW max \in Applicable,
         UpdateModelVersion(signer, vid, pid, version, otaUrl, min, max)
  PROVE  TypeOK' /\ RevisionStep /\ RangeNotEmpty' /\ DOMAIN modelVersion' = DOMAIN modelVersion
<1>1. PICK k, old : k = <<vid, pid, version>> /\ old = modelVersion[k]
  BY Zenon
<1>2. PICK new : new = [string |-> old.string,
                        otaUrl |-> old.otaUrl \/ otaUrl, otaChecksum |-> old.otaChecksum,
                        min |-> IF min = 0 THEN old.min ELSE min,
                        max |-> IF max = 0 THEN old.max ELSE max]
  BY Zenon
<1>3. /\ k \in DOMAIN modelVersion /\ OtaUrlAllowed(old, otaUrl) /\ RangeAllowed(old, min, max)
      /\ modelVersion' = Put(modelVersion, k, new)
      /\ UNCHANGED <<vendors, model, vendorProducts, modelVersions>>
  BY <1>1, <1>2, Zenon DEF UpdateModelVersion
<1>4. IsStore(modelVersion, VersionKey, VersionRecord)
  BY ModelTypes, Zenon
<1>5. k \in VersionKey /\ old \in VersionRecord /\ old.min <= old.max
  BY <1>1, <1>3, <1>4 DEF IsStore, RangeNotEmpty
<1>6. new \in VersionRecord /\ new.min <= new.max
  BY <1>2, <1>3, <1>5, NextVersion
<1>7. IsStore(modelVersion', VersionKey, VersionRecord)
  BY <1>3, <1>4, <1>5, <1>6, PutIsStore, Zenon
<1>8. TypeOK'
  BY <1>3, <1>7, Zenon DEF TypeOK, VersionRecord
<1>9. RevisionStep
  <2>1. \A m \in DOMAIN model : model[m].lsfRevision \in Int
    BY ModelTypes DEF IsStore, ModelRecord
  <2>2. QED
    BY <1>3, <2>1 DEF RevisionStep
<1>10. RangeNotEmpty' /\ DOMAIN modelVersion' = DOMAIN modelVersion
  BY <1>3, <1>6, Zenon DEF RangeNotEmpty, Put
<1>11. QED
  BY <1>8, <1>9, <1>10

-----------------------------------------------------------------------------
(* The products of a vendor. *)

\* What ProductsAgree says of the list of one vendor and the models m.
ListSaysModels(list, m, vid) ==
  /\ Range(list) = {[pid |-> k[2], name |-> m[k].name] : k \in {x \in DOMAIN m : x[1] = vid}}
  /\ \A i, j \in DOMAIN list : list[i].pid = list[j].pid => i = j

\* The same, place by place.
PlacesSayModels(list, m, vid) ==
  /\ \A i \in DOMAIN list :
       <<vid, list[i].pid>> \in DOMAIN m /\ list[i].name = m[<<vid, list[i].pid>>].name
  /\ \A pid : <<vid, pid>> \in DOMAIN m => \E i \in DOMAIN list : list[i].pid = pid
  /\ \A i, j \in DOMAIN list : list[i].pid = list[j].pid => i = j

\* It is the same.
LEMMA PlaceByPlace ==
  ASSUME NEW list \in Seq(Product), NEW m, IsStore(m, Vid \X Pid, ModelRecord), NEW vid \in Vid
  PROVE  ListSaysModels(list, m, vid) <=> PlacesSayModels(list, m, vid)
<1> DEFINE said == {[pid |-> k[2], name |-> m[k].name] : k \in {x \in DOMAIN m : x[1] = vid}}
<1>1. \A i \in DOMAIN list : list[i] = [pid |-> list[i].pid, name |-> list[i].name]
  <2>1. \A e \in Product : e = [pid |-> e.pid, name |-> e.name]
    BY DEF Product
  <2>2. \A i \in DOMAIN list : list[i] \in Product
    OBVIOUS
  <2>3. QED
    BY <2>1, <2>2, Zenon
<1>2. \A k \in DOMAIN m : k = <<k[1], k[2]>>
  BY DEF IsStore
<1>3. \A pid, name : [pid |-> pid, name |-> name] \in said <=>
                       <<vid, pid>> \in DOMAIN m /\ name = m[<<vid, pid>>].name
  BY <1>2, Zenon
<1>4. \A e \in said : e = [pid |-> e.pid, name |-> e.name]
  OBVIOUS
<1> HIDE DEF said
<1>5. ASSUME Range(list) = said
      PROVE  /\ \A i \in DOMAIN list :
                  <<vid, list[i].pid>> \in DOMAIN m /\ list[i].name = m[<<vid, list[i].pid>>].name
             /\ \A pid : <<vid, pid>> \in DOMAIN m => \E i \in DOMAIN list : list[i].pid = pid
  <2>1. \A i \in DOMAIN list : list[i] \in said
    BY <1>5 DEF Range
  <2>2. ASSUME NEW pid, <<vid, pid>> \in DOMAIN m
        PROVE  \E i \in DOMAIN list : list[i].pid = pid
    <3>1. PICK i \in DOMAIN list : list[i] = [pid |-> pid, name |-> m[<<vid, pid>>].name]
      BY <1>3, <1>5, <2>2, Zenon DEF Range
    <3>2. QED
      BY <3>1
  <2>3. QED
    BY <1>1, <1>3, <2>1, <2>2, ZenonT(60)
<1>6. ASSUME \A i \in DOMAIN list :
               <<vid, list[i].pid>> \in DOMAIN m /\ list[i].name = m[<<vid, list[i].pid>>].name,
             \A pid : <<vid, pid>> \in DOMAIN m => \E i \in DOMAIN list : list[i].pid = pid
      PROVE  Range(list) = said
  <2>1. ASSUME NEW i \in DOMAIN list
        PROVE  list[i] \in said
    <3>1. [pid |-> list[i].pid, name |-> list[i].name] \in said
      BY <1>3, <1>6, Zenon
    <3>2. QED
      BY <1>1, <3>1, Zenon
  <2>2. ASSUME NEW e \in said
        PROVE  e \in Range(list)
    <3>1. e = [pid |-> e.pid, name |-> e.name]
      BY <1>4
    <3>2. <<vid, e.pid>> \in DOMAIN m /\ e.name = m[<<vid, e.pid>>].name
      BY <1>3, <3>1
    <3>3. PICK i \in DOMAIN list : list[i].pid = e.pid
      BY <1>6, <3>2
    <3>4. list[i].name = e.name
      BY <1>6, <3>2, <3>3
    <3>5. list[i] = e
      BY <1>1, <3>1, <3>3, <3>4, Zenon
    <3>6. QED
      BY <3>5 DEF Range
  <2>3. QED
    BY <2>1, <2>2 DEF Range
<1>7. QED
  BY <1>5, <1>6, Zenon DEF ListSaysModels, PlacesSayModels, said

\* The model that SetVendorProduct lists.
LEMMA ListedSaysModels ==
  ASSUME NEW list \in Seq(Product), NEW product \in Product, NEW m, NEW vid, NEW r,
         r.name = product.name, PlacesSayModels(list, m, vid)
  PROVE  PlacesSayModels(WithProduct(list, product), Put(m, <<vid, product.pid>>, r), vid)
<1>1. PICK new, after, pid : /\ new = WithProduct(list, product)
                             /\ after = Put(m, <<vid, product.pid>>, r) /\ pid = product.pid
  BY Zenon
<1>2. /\ DOMAIN after = DOMAIN m \cup {<<vid, pid>>}
      /\ after[<<vid, pid>>] = r
      /\ \A p : p # pid /\ <<vid, p>> \in DOMAIN m => after[<<vid, p>>] = m[<<vid, p>>]
  BY <1>1 DEF Put
<1>3. \A p : <<vid, p>> \in DOMAIN after <=> <<vid, p>> \in DOMAIN m \/ p = pid
  BY <1>2
<1>4. ASSUME InPlace(new, list, product)
      PROVE  PlacesSayModels(new, after, vid)
  <2> USE DEF InPlace
  <2>1. \A i \in DOMAIN list : new[i].pid = list[i].pid
    BY <1>1, <1>4, Zenon
  <2>2. \A i \in DOMAIN list : new[i].name = IF list[i].pid = pid THEN r.name ELSE list[i].name
    BY <1>1, <1>4, Zenon
  <2>3. ASSUME NEW i \in DOMAIN new
        PROVE  <<vid, new[i].pid>> \in DOMAIN after /\ new[i].name = after[<<vid, new[i].pid>>].name
    <3>1. PICK p : p = list[i].pid
      BY Zenon
    <3>2. /\ new[i].pid = p /\ new[i].name = IF p = pid THEN r.name ELSE list[i].name
          /\ <<vid, p>> \in DOMAIN m /\ list[i].name = m[<<vid, p>>].name
      BY <1>4, <2>1, <2>2, <3>1, Zenon DEF PlacesSayModels
    <3>3. /\ <<vid, p>> \in DOMAIN after
          /\ p = pid => after[<<vid, p>>] = r
          /\ p # pid => after[<<vid, p>>] = m[<<vid, p>>]
      BY <1>2, <3>2, Zenon
    <3>4. QED
      BY <3>2, <3>3, Zenon
  <2>4. ASSUME NEW p, <<vid, p>> \in DOMAIN after
        PROVE  \E i \in DOMAIN new : new[i].pid = p
    <3>1. PICK i \in DOMAIN list : list[i].pid = p
      BY <1>1, <1>3, <1>4, <2>4, Zenon DEF PlacesSayModels
    <3>2. QED
      BY <1>4, <2>1, <3>1, Zenon
  <2>5. \A i, j \in DOMAIN new : new[i].pid = new[j].pid => i = j
    BY <1>4, <2>1, Zenon DEF PlacesSayModels
  <2>6. QED
    BY <2>3, <2>4, <2>5, Zenon DEF PlacesSayModels
<1>5. ASSUME AtEnd(new, list, product)
      PROVE  PlacesSayModels(new, after, vid)
  <2> USE DEF AtEnd
  <2>1. PICK last : last = Len(list) + 1
    BY Zenon
  <2>2. /\ DOMAIN new = DOMAIN list \cup {last} /\ last \notin DOMAIN list
        /\ new[last].pid = pid /\ new[last].name = r.name
    BY <1>1, <1>5, <2>1, Zenon
  <2>3. ASSUME NEW i \in DOMAIN new
        PROVE  <<vid, new[i].pid>> \in DOMAIN after /\ new[i].name = after[<<vid, new[i].pid>>].name
    <3>1. CASE i = last
      BY <1>2, <1>3, <2>2, <3>1, Zenon
    <3>2. CASE i \in DOMAIN list
      <4>1. PICK p : p = list[i].pid
        BY Zenon
      <4>2. /\ new[i] = list[i] /\ p # pid /\ <<vid, p>> \in DOMAIN m
            /\ list[i].name = m[<<vid, p>>].name
        BY <1>1, <1>5, <3>2, <4>1, Zenon DEF PlacesSayModels
      <4>3. <<vid, p>> \in DOMAIN after /\ after[<<vid, p>>] = m[<<vid, p>>]
        BY <1>2, <4>2, Zenon
      <4>4. QED
        BY <4>1, <4>2, <4>3, Zenon
    <3>3. QED
      BY <2>2, <3>1, <3>2, Zenon
  <2>4. ASSUME NEW p, <<vid, p>> \in DOMAIN after
        PROVE  \E i \in DOMAIN new : new[i].pid = p
    <3>1. CASE p = pid
      BY <2>2, <3>1, Zenon
    <3>2. CASE <<vid, p>> \in DOMAIN m
      <4>1. PICK i \in DOMAIN list : list[i].pid = p
        BY <3>2, Zenon DEF PlacesSayModels
      <4>2. QED
        BY <1>5, <2>2, <4>1, Zenon
    <3>3. QED
      BY <1>3, <2>4, <3>1, <3>2, Zenon
  <2>5. \A i, j \in DOMAIN new : new[i].pid = new[j].pid => i = j
    BY <1>5, <2>2, Zenon DEF PlacesSayModels
  <2>6. QED
    BY <2>3, <2>4, <2>5, Zenon DEF PlacesSayModels
<1>6. InPlace(new, list, product) \/ AtEnd(new, list, product)
  BY <1>1, WithPlaces, Zenon
<1>7. QED
  BY <1>1, <1>4, <1>5, <1>6, Zenon

\* The list without the model that was deleted.
LEMMA UnlistedSaysModels ==
  ASSUME NEW list \in Seq(Product), NEW pid, NEW m, NEW vid, PlacesSayModels(list, m, vid)
  PROVE  PlacesSayModels(WithoutProduct(list, pid), Delete(m, <<vid, pid>>), vid)
<1>1. PICK rest, after : rest = WithoutProduct(list, pid) /\ after = Delete(m, <<vid, pid>>)
  BY Zenon
<1>2. /\ \A p : <<vid, p>> \in DOMAIN after <=> <<vid, p>> \in DOMAIN m /\ p # pid
      /\ \A p : <<vid, p>> \in DOMAIN after => after[<<vid, p>>] = m[<<vid, p>>]
  BY <1>1 DEF Delete
<1>3. ASSUME rest = list, \A i \in DOMAIN list : list[i].pid # pid
      PROVE  PlacesSayModels(rest, after, vid)
  BY <1>2, <1>3 DEF PlacesSayModels
<1>4. ASSUME NEW first \in DOMAIN list, CutAt(rest, list, first, pid), rest \in Seq(Product)
      PROVE  PlacesSayModels(rest, after, vid)
  <2> USE DEF CutAt
  <2> DEFINE From(i) == IF i < first THEN i ELSE i + 1
  <2>1. Len(list) \in Nat /\ DOMAIN list = 1..Len(list) /\ DOMAIN rest = 1..(Len(list) - 1)
        /\ first \in 1..Len(list)
    BY <1>4
  <2>2. \A i \in DOMAIN rest : /\ From(i) \in DOMAIN list /\ From(i) # first
                               /\ rest[i] = list[From(i)]
    BY <1>4, <2>1
  <2>3. \A i, j \in DOMAIN rest : From(i) = From(j) => i = j
    BY <2>1
  <2>4. \A k \in DOMAIN list : k # first => \E i \in DOMAIN rest : From(i) = k
    <3>1. ASSUME NEW k \in DOMAIN list, k < first
          PROVE  k \in DOMAIN rest /\ From(k) = k
      BY <2>1, <3>1
    <3>2. ASSUME NEW k \in DOMAIN list, k > first
          PROVE  k - 1 \in DOMAIN rest /\ From(k - 1) = k
      BY <2>1, <3>2
    <3>3. \A k \in DOMAIN list : k # first => k < first \/ k > first
      BY <2>1
    <3> HIDE DEF From
    <3>4. QED
      BY <3>1, <3>2, <3>3, Zenon
  <2> HIDE DEF From
  <2>5. \A i \in DOMAIN list : i # first => list[i].pid # pid
    BY <1>4, Zenon DEF PlacesSayModels
  <2>6. ASSUME NEW i \in DOMAIN rest
        PROVE  <<vid, rest[i].pid>> \in DOMAIN after /\ rest[i].name = after[<<vid, rest[i].pid>>].name
    <3>1. PICK k \in DOMAIN list : rest[i] = list[k] /\ list[k].pid # pid
      BY <2>2, <2>5, Zenon
    <3>2. <<vid, list[k].pid>> \in DOMAIN m /\ list[k].name = m[<<vid, list[k].pid>>].name
      BY Zenon DEF PlacesSayModels
    <3>3. QED
      BY <1>2, <3>1, <3>2, Zenon
  <2>7. ASSUME NEW p, <<vid, p>> \in DOMAIN after
        PROVE  \E i \in DOMAIN rest : rest[i].pid = p
    <3>1. PICK k \in DOMAIN list : list[k].pid = p
      BY <1>2, <2>7, Zenon DEF PlacesSayModels
    <3>2. k # first
      BY <1>2, <1>4, <2>7, <3>1, Zenon
    <3>3. QED
      BY <2>2, <2>4, <3>1, <3>2, Zenon
  <2>8. \A i, j \in DOMAIN rest : rest[i].pid = rest[j].pid => i = j
    <3>1. ASSUME NEW i \in DOMAIN rest, NEW j \in DOMAIN rest, rest[i].pid = rest[j].pid
          PROVE  i = j
      <4>1. From(i) \in DOMAIN list /\ From(j) \in DOMAIN list /\ list[From(i)].pid = list[From(j)].pid
        BY <2>2, <3>1
      <4>2. From(i) = From(j)
        BY <4>1 DEF PlacesSayModels
      <4>3. QED
        BY <2>3, <4>2
    <3>2. QED
      BY <3>1, Zenon
  <2>9. QED
    BY <2>6, <2>7, <2>8, Zenon DEF PlacesSayModels
<1>5. PlacesSayModels(rest, after, vid)
  <2>1. /\ rest \in Seq(Product)
        /\ \/ rest = list /\ \A i \in DOMAIN list : list[i].pid # pid
           \/ \E first \in DOMAIN list : CutAt(rest, list, first, pid)
    BY <1>1, WithoutPlaces, Zenon
  <2>2. QED
    BY <1>3, <1>4, <2>1, Zenon
<1>6. QED
  BY <1>1, <1>5, Zenon

\* The models of other vendors do not matter to a list.
LEMMA OthersSayModels ==
  ASSUME NEW list, NEW m, NEW vid, NEW other, other # vid, NEW pid, NEW r,
         PlacesSayModels(list, m, other)
  PROVE  /\ PlacesSayModels(list, Put(m, <<vid, pid>>, r), other)
         /\ PlacesSayModels(list, Delete(m, <<vid, pid>>), other)
<1>1. ASSUME NEW after,
             \A p : <<other, p>> \in DOMAIN after <=> <<other, p>> \in DOMAIN m,
             \A p : <<other, p>> \in DOMAIN m => after[<<other, p>>] = m[<<other, p>>]
      PROVE  PlacesSayModels(list, after, other)
  BY <1>1 DEF PlacesSayModels
<1>2. PICK put : put = Put(m, <<vid, pid>>, r)
  BY Zenon
<1>3. /\ \A p : <<other, p>> \in DOMAIN put <=> <<other, p>> \in DOMAIN m
      /\ \A p : <<other, p>> \in DOMAIN m => put[<<other, p>>] = m[<<other, p>>]
  BY <1>2 DEF Put
<1>4. PICK rest : rest = Delete(m, <<vid, pid>>)
  BY Zenon
<1>5. /\ \A p : <<other, p>> \in DOMAIN rest <=> <<other, p>> \in DOMAIN m
      /\ \A p : <<other, p>> \in DOMAIN m => rest[<<other, p>>] = m[<<other, p>>]
  BY <1>4 DEF Delete
<1>6. PlacesSayModels(list, put, other)
  BY <1>1, <1>3, Zenon
<1>7. PlacesSayModels(list, rest, other)
  BY <1>1, <1>5, Zenon
<1>8. QED
  BY <1>2, <1>4, <1>6, <1>7, Zenon

\* ProductsAgree, place by place.
ProductsByPlace == \A vid \in Vid : PlacesSayModels(ProductsOf(vid), model, vid)

\* It says the same.
LEMMA ProductPlaces == TypeOK => (ProductsAgree <=> ProductsByPlace)
<1> SUFFICES ASSUME TypeOK PROVE ProductsAgree <=> ProductsByPlace
  BY Zenon
<1>1. /\ IsStore(model, Vid \X Pid, ModelRecord)
      /\ IsStore(vendorProducts, Vid, Seq(Product) \ {<<>>})
  BY ModelTypes, Zenon
<1>2. \A vid \in Vid : ProductsOf(vid) \in Seq(Product)
  BY <1>1 DEF ProductsOf, IsStore
<1>3. \A vid \in Vid : ListSaysModels(ProductsOf(vid), model, vid) <=>
                         PlacesSayModels(ProductsOf(vid), model, vid)
  BY <1>1, <1>2, PlaceByPlace, Zenon
<1>4. ProductsAgree <=> \A vid \in Vid : ListSaysModels(ProductsOf(vid), model, vid)
  BY Zenon DEF ProductsAgree, ListSaysModels
<1>5. QED
  BY <1>3, <1>4, Zenon DEF ProductsByPlace

\* The list of one vendor is stored, and the others stay.
LEMMA StoredList ==
  ASSUME NEW vid, NEW list, vendorProducts' = Put(vendorProducts, vid, list)
  PROVE  /\ ProductsOf(vid)' = list
         /\ \A other : other # vid => ProductsOf(other)' = ProductsOf(other)
BY DEF ProductsOf, Put

\* The list of one vendor is removed, and the others stay.
LEMMA RemovedList ==
  ASSUME NEW vid, vendorProducts' = Delete(vendorProducts, vid)
  PROVE  /\ ProductsOf(vid)' = <<>>
         /\ \A other : other # vid => ProductsOf(other)' = ProductsOf(other)
BY DEF ProductsOf, Delete

\* A model that is created or updated is listed once, under its name.
LEMMA ListedProduct ==
  ASSUME TypeOK, TypeOK', ProductsAgree, NEW vid \in Vid, NEW pid \in Pid, NEW name \in ProductName,
         NEW r, r.name = name, model' = Put(model, <<vid, pid>>, r),
         SetVendorProduct(vid, [pid |-> pid, name |-> name])
  PROVE  ProductsAgree'
<1>1. PICK product : product = [pid |-> pid, name |-> name]
  BY Zenon
<1>2. product \in Product /\ product.pid = pid /\ product.name = name
  BY <1>1 DEF Product
<1>3. PICK list : list = ProductsOf(vid)
  BY Zenon
<1>4. list \in Seq(Product)
  <2>1. IsStore(vendorProducts, Vid, Seq(Product) \ {<<>>})
    BY ModelTypes, Zenon
  <2>2. QED
    BY <1>3, <2>1 DEF ProductsOf, IsStore
<1>5. ProductsByPlace
  BY ProductPlaces, Zenon
<1>6. vendorProducts' = Put(vendorProducts, vid, WithProduct(list, product))
  BY <1>1, <1>3, ProductSet, Zenon
<1>7. PlacesSayModels(WithProduct(list, product), model', vid)
  <2>1. PlacesSayModels(list, model, vid)
    BY <1>3, <1>5, Zenon DEF ProductsByPlace
  <2>2. QED
    BY <1>2, <1>4, <2>1, ListedSaysModels, Zenon
<1>8. \A other \in Vid : other # vid => PlacesSayModels(ProductsOf(other), model', other)
  BY <1>5, OthersSayModels, Zenon DEF ProductsByPlace
<1>9. PICK new : new = WithProduct(list, product)
  BY Zenon
<1>10. ProductsOf(vid)' = new /\ \A other : other # vid => ProductsOf(other)' = ProductsOf(other)
  BY <1>6, <1>9, StoredList, Zenon
<1>11. ProductsByPlace'
  BY <1>7, <1>8, <1>9, <1>10 DEF ProductsByPlace
<1>12. QED
  BY <1>11, ProductPlaces, PTL

\* A model that is deleted is not listed any more.
LEMMA UnlistedProduct ==
  ASSUME TypeOK, TypeOK', ProductsAgree, NEW vid \in Vid, NEW pid \in Pid,
         model' = Delete(model, <<vid, pid>>), RemoveVendorProduct(vid, pid)
  PROVE  ProductsAgree'
<1>1. PICK list : list = ProductsOf(vid)
  BY Zenon
<1>2. list \in Seq(Product)
  <2>1. IsStore(vendorProducts, Vid, Seq(Product) \ {<<>>})
    BY ModelTypes, Zenon
  <2>2. QED
    BY <1>1, <2>1 DEF ProductsOf, IsStore
<1>3. PICK rest : rest = WithoutProduct(list, pid)
  BY Zenon
<1>4. vendorProducts' = IF rest = <<>> THEN Delete(vendorProducts, vid)
                                       ELSE Put(vendorProducts, vid, rest)
  BY <1>1, <1>3, Zenon DEF RemoveVendorProduct
<1>5. ProductsOf(vid)' = rest /\ \A other : other # vid => ProductsOf(other)' = ProductsOf(other)
  BY <1>4, StoredList, RemovedList, Zenon
<1>6. ProductsByPlace
  BY ProductPlaces, Zenon
<1>7. PlacesSayModels(rest, model', vid)
  <2>1. PlacesSayModels(list, model, vid)
    BY <1>1, <1>6, Zenon DEF ProductsByPlace
  <2>2. QED
    BY <1>2, <1>3, <2>1, UnlistedSaysModels, Zenon
<1>8. \A other \in Vid : other # vid => PlacesSayModels(ProductsOf(other), model', other)
  BY <1>6, OthersSayModels, Zenon DEF ProductsByPlace
<1>9. ProductsByPlace'
  BY <1>5, <1>7, <1>8 DEF ProductsByPlace
<1>10. QED
  BY <1>9, ProductPlaces, PTL

-----------------------------------------------------------------------------
(* The versions of a model. *)

\* A new version is appended to the list of its model, and to no other.
LEMMA ListedVersion ==
  ASSUME TypeOK, VersionsAgree, NEW signer, NEW vid \in Vid, NEW pid \in Pid,
         NEW version \in SoftwareVersion, NEW new,
         CreateModelVersion(signer, vid, pid, version, new)
  PROVE  VersionsAgree'
<1>1. PICK k \in Vid \X Pid : k = <<vid, pid>>
  BY Zenon
<1>2. PICK list : list = VersionsOf(k)
  BY Zenon
<1>3. list \in Seq(SoftwareVersion)
  <2>1. IsStore(modelVersions, Vid \X Pid, Seq(SoftwareVersion) \ {<<>>})
    BY ModelTypes, Zenon
  <2>2. QED
    BY <1>2, <2>1 DEF VersionsOf, IsStore
<1>4. /\ Range(list) = {v \in SoftwareVersion : <<vid, pid, v>> \in DOMAIN modelVersion}
      /\ NoRepeats(list)
  BY <1>1, <1>2 DEF VersionsAgree, NoRepeats
<1>5. /\ <<vid, pid, version>> \notin DOMAIN modelVersion
      /\ modelVersion' = Put(modelVersion, <<vid, pid, version>>, new)
      /\ AddModelVersion(vid, pid, version)
  BY Zenon DEF CreateModelVersion
<1>6. version \notin Range(list)
  BY <1>4, <1>5, Zenon
<1>7. modelVersions' = Put(modelVersions, k, Append(list, version))
  BY <1>1, <1>2, <1>5, <1>6, Zenon DEF AddModelVersion
<1>8. PICK after : after = Append(list, version)
  BY Zenon
<1>9. Range(after) = Range(list) \cup {version} /\ NoRepeats(after)
  BY <1>3, <1>4, <1>6, <1>8, AppendVoters, AppendNoRepeats, ZenonT(60) DEF Voters
<1>10. VersionsOf(k)' = after /\ \A m : m # k => VersionsOf(m)' = VersionsOf(m)
  BY <1>7, <1>8 DEF VersionsOf, Put
<1>11. DOMAIN modelVersion' = DOMAIN modelVersion \cup {<<vid, pid, version>>}
  BY <1>5 DEF Put
<1>12. ASSUME NEW m \in Vid \X Pid
       PROVE  /\ Range(VersionsOf(m)') = {v \in SoftwareVersion : <<m[1], m[2], v>> \in DOMAIN modelVersion'}
              /\ NoRepeats(VersionsOf(m)')
  <2>1. CASE m = k
    <3>1. {v \in SoftwareVersion : <<vid, pid, v>> \in DOMAIN modelVersion'} =
            {v \in SoftwareVersion : <<vid, pid, v>> \in DOMAIN modelVersion} \cup {version}
      BY <1>11
    <3>2. m[1] = vid /\ m[2] = pid
      BY <1>1, <2>1
    <3>3. QED
      BY <1>4, <1>9, <1>10, <2>1, <3>1, <3>2, Zenon
  <2>2. CASE m # k
    <3>1. m[1] # vid \/ m[2] # pid
      BY <1>1, <2>2
    <3>2. \A v : <<m[1], m[2], v>> \in DOMAIN modelVersion' <=> <<m[1], m[2], v>> \in DOMAIN modelVersion
      BY <1>11, <3>1
    <3>3. /\ Range(VersionsOf(m)) = {v \in SoftwareVersion : <<m[1], m[2], v>> \in DOMAIN modelVersion}
          /\ NoRepeats(VersionsOf(m))
      BY Zenon DEF VersionsAgree, NoRepeats
    <3>4. {v \in SoftwareVersion : <<m[1], m[2], v>> \in DOMAIN modelVersion'} =
            {v \in SoftwareVersion : <<m[1], m[2], v>> \in DOMAIN modelVersion}
      BY <3>2, Zenon
    <3>5. QED
      BY <1>10, <2>2, <3>3, <3>4, Zenon
  <2>3. QED
    BY <2>1, <2>2, Zenon
<1>13. QED
  BY <1>12, Zenon DEF VersionsAgree, NoRepeats

-----------------------------------------------------------------------------
(* x/model, whatever its vendors do. *)

\* Types and ranges go together: an update compares the bound it is given
\* with the one that is stored.
ModelInv == TypeOK /\ RangeNotEmpty /\ ProductsAgree /\ VersionsAgree

\* Every step keeps it, and the revisions in order.
LEMMA ModelStep == ModelInv /\ Next => ModelInv' /\ RevisionStep
<1> SUFFICES ASSUME ModelInv, Next PROVE ModelInv' /\ RevisionStep
  BY Zenon
<1>1. TypeOK /\ RangeNotEmpty /\ ProductsAgree /\ VersionsAgree
  BY Zenon DEF ModelInv
<1>2. ASSUME UNCHANGED modelVersion
      PROVE  RangeNotEmpty'
  BY <1>1, <1>2 DEF RangeNotEmpty
<1>3. ASSUME UNCHANGED modelVersions, DOMAIN modelVersion' = DOMAIN modelVersion
      PROVE  VersionsAgree'
  BY <1>1, <1>3, Zenon DEF VersionsAgree, VersionsOf
<1>4. ASSUME UNCHANGED <<model, vendorProducts>>
      PROVE  ProductsAgree'
  BY <1>1, <1>4, ZenonT(60) DEF ProductsAgree, ProductsOf
<1>5. ASSUME ModelTx
      PROVE  ModelInv' /\ RevisionStep
  <2>1. PICK signer \in Address, vid \in Vid, pid \in Pid :
          \/ \E name \in ProductName, lsfUrl \in BOOLEAN :
               CreateModel(signer, vid, pid, name, lsfUrl)
          \/ \E names \in {{}} \cup {{name} : name \in ProductName}, lsfUrl \in BOOLEAN,
                lsfRevision \in 0..MaxRevision :
               UpdateModel(signer, vid, pid, names, lsfUrl, lsfRevision)
          \/ DeleteModel(signer, vid, pid)
          \/ \E version \in SoftwareVersion :
               \/ \E new \in {v \in VersionType : ValidNewVersion(v)} :
                    CreateModelVersion(signer, vid, pid, version, new)
               \/ \E otaUrl \in Image, min, max \in Applicable :
                    UpdateModelVersion(signer, vid, pid, version, otaUrl, min, max)
    BY <1>5, Zenon DEF ModelTx
  <2>2. ASSUME NEW name \in ProductName, NEW lsfUrl \in BOOLEAN,
               CreateModel(signer, vid, pid, name, lsfUrl)
        PROVE  ModelInv' /\ RevisionStep
    <3>1. TypeOK' /\ RevisionStep
      BY <1>1, <2>2, CreateModelTypes, Zenon
    <3>2. UNCHANGED <<modelVersion, modelVersions>>
      BY <2>2, Zenon DEF CreateModel
    <3>3. ProductsAgree'
      <4>1. PICK r : r = [name |-> name, lsfUrl |-> lsfUrl, lsfRevision |-> IF lsfUrl THEN 1 ELSE 0]
        BY Zenon
      <4>2. /\ model' = Put(model, <<vid, pid>>, r) /\ r.name = name
            /\ SetVendorProduct(vid, [pid |-> pid, name |-> name])
        BY <2>2, <4>1, Zenon DEF CreateModel
      <4>3. QED
        BY <1>1, <3>1, <4>2, ListedProduct, Zenon
    <3>4. QED
      BY <1>2, <1>3, <3>1, <3>2, <3>3 DEF ModelInv
  <2>3. ASSUME NEW names \in {{}} \cup {{name} : name \in ProductName}, NEW lsfUrl \in BOOLEAN,
               NEW lsfRevision \in 0..MaxRevision,
               UpdateModel(signer, vid, pid, names, lsfUrl, lsfRevision)
        PROVE  ModelInv' /\ RevisionStep
    <3>1. TypeOK' /\ RevisionStep
      BY <1>1, <2>3, UpdateModelTypes, Zenon
    <3>2. UNCHANGED <<modelVersion, modelVersions>> /\ <<vid, pid>> \in DOMAIN model
      BY <2>3, Zenon DEF UpdateModel
    <3>3. ProductsAgree'
      <4>1. PICK k : k = <<vid, pid>>
        BY Zenon
      <4>2. PICK name \in (IF names = {} THEN {model[k].name} ELSE names) :
              /\ model' = Put(model, k,
                              [name |-> name, lsfUrl |-> lsfUrl \/ model[k].lsfUrl,
                               lsfRevision |-> NextLsfRevision(model[k], lsfUrl, lsfRevision)])
              /\ SetVendorProduct(vid, [pid |-> pid, name |-> name])
        BY <2>3, <4>1, Zenon DEF UpdateModel
      <4>3. PICK r : r.name = name /\ model' = Put(model, <<vid, pid>>, r)
        BY <4>1, <4>2
      <4>4. model[<<vid, pid>>].name \in ProductName
        BY <1>1, <3>2, ModelTypes DEF IsStore, ModelRecord
      <4>5. name \in ProductName
        BY <4>1, <4>4
      <4>6. QED
        BY <1>1, <3>1, <4>2, <4>3, <4>5, ListedProduct, Zenon
    <3>4. QED
      BY <1>2, <1>3, <3>1, <3>2, <3>3 DEF ModelInv
  <2>4. ASSUME DeleteModel(signer, vid, pid)
        PROVE  ModelInv' /\ RevisionStep
    <3>1. TypeOK' /\ RevisionStep
      BY <1>1, <2>4, DeleteModelTypes, Zenon
    <3>2. /\ UNCHANGED <<modelVersion, modelVersions>>
          /\ model' = Delete(model, <<vid, pid>>) /\ RemoveVendorProduct(vid, pid)
      BY <2>4, Zenon DEF DeleteModel
    <3>3. ProductsAgree'
      BY <1>1, <3>1, <3>2, UnlistedProduct, Zenon
    <3>4. QED
      BY <1>2, <1>3, <3>1, <3>2, <3>3 DEF ModelInv
  <2>5. ASSUME NEW version \in SoftwareVersion, NEW new \in {v \in VersionType : ValidNewVersion(v)},
               CreateModelVersion(signer, vid, pid, version, new)
        PROVE  ModelInv' /\ RevisionStep
    <3>1. TypeOK' /\ RevisionStep /\ RangeNotEmpty'
      BY <1>1, <2>5, CreateVersionTypes, Zenon
    <3>2. UNCHANGED <<model, vendorProducts>>
      BY <2>5, Zenon DEF CreateModelVersion
    <3>3. VersionsAgree'
      BY <1>1, <2>5, ListedVersion, Zenon
    <3>4. QED
      BY <1>4, <3>1, <3>2, <3>3 DEF ModelInv
  <2>6. ASSUME NEW version, NEW otaUrl \in Image, NEW min \in Applicable, NEW max \in Applicable,
               UpdateModelVersion(signer, vid, pid, version, otaUrl, min, max)
        PROVE  ModelInv' /\ RevisionStep
    <3>1. /\ TypeOK' /\ RevisionStep /\ RangeNotEmpty'
          /\ DOMAIN modelVersion' = DOMAIN modelVersion
      BY <1>1, <2>6, UpdateVersionTypes, Zenon
    <3>2. UNCHANGED <<model, vendorProducts>> /\ UNCHANGED modelVersions
      BY <2>6, Zenon DEF UpdateModelVersion
    <3>3. QED
      BY <1>3, <1>4, <3>1, <3>2 DEF ModelInv
  <2>7. QED
    BY <2>1, <2>2, <2>3, <2>4, <2>5, <2>6, Zenon
<1>6. ASSUME ChangeVendors
      PROVE  ModelInv' /\ RevisionStep
  <2>1. UNCHANGED <<model, vendorProducts>> /\ UNCHANGED modelVersion /\ UNCHANGED modelVersions
    BY <1>6, Zenon DEF ChangeVendors, catalog
  <2>2. IsStore(vendors', Address, Vid)
    <3>1. IsStore(vendors, Address, Vid)
      BY <1>1, ModelTypes, Zenon
    <3>2. PICK a \in Address : \/ vendors' = Delete(vendors, a)
                               \/ \E vid \in Vid : vendors' = Put(vendors, a, vid)
      BY <1>6, Zenon DEF ChangeVendors
    <3>3. QED
      BY <3>1, <3>2, PutIsStore, DeleteIsStore, Zenon
  <2>3. TypeOK'
    BY <1>1, <2>1, <2>2, Zenon DEF TypeOK
  <2>4. \A m \in DOMAIN model : model[m].lsfRevision \in Int
    BY <1>1, ModelTypes DEF IsStore, ModelRecord
  <2>5. RevisionStep
    BY <2>1, <2>4 DEF RevisionStep
  <2>6. QED
    BY <1>2, <1>3, <1>4, <2>1, <2>3, <2>5 DEF ModelInv
<1>7. QED
  BY <1>5, <1>6, Zenon DEF Next

\* It holds at the start, of a ledger without models.
LEMMA ModelStart == Init => ModelInv
<1> SUFFICES ASSUME Init PROVE ModelInv
  BY Zenon
<1>1. TypeOK
  BY EmptyIsStore, Zenon DEF Init, TypeOK
<1>2. /\ DOMAIN model = {} /\ DOMAIN vendorProducts = {}
      /\ DOMAIN modelVersion = {} /\ DOMAIN modelVersions = {}
  BY DEF Init, EmptyStore
<1>3. RangeNotEmpty
  BY <1>2 DEF RangeNotEmpty
<1>4. ProductsAgree
  BY <1>2 DEF ProductsAgree, ProductsOf, Range
<1>5. VersionsAgree
  BY <1>2 DEF VersionsAgree, VersionsOf, Range
<1>6. QED
  BY <1>1, <1>3, <1>4, <1>5 DEF ModelInv

\* It is an invariant.
LEMMA ModelInvariant == Spec => []ModelInv
<1>1. ModelInv /\ UNCHANGED vars => ModelInv'
  <2> SUFFICES ASSUME ModelInv, UNCHANGED vars PROVE ModelInv'
    BY Zenon
  <2>1. /\ UNCHANGED vendors /\ UNCHANGED model /\ UNCHANGED vendorProducts
        /\ UNCHANGED modelVersion /\ UNCHANGED modelVersions
    BY Zenon DEF vars, catalog
  <2>2. TypeOK'
    BY <2>1, Zenon DEF ModelInv, TypeOK
  <2>3. RangeNotEmpty'
    BY <2>1, Zenon DEF ModelInv, RangeNotEmpty
  <2>4. ProductsAgree'
    BY <2>1, ZenonT(60) DEF ModelInv, ProductsAgree, ProductsOf
  <2>5. VersionsAgree'
    BY <2>1, ZenonT(60) DEF ModelInv, VersionsAgree, VersionsOf
  <2>6. QED
    BY <2>2, <2>3, <2>4, <2>5, Zenon DEF ModelInv
<1>2. QED
  BY <1>1, ModelStart, ModelStep, PTL DEF Spec

\* Records of models and versions are well formed whatever updates are made
\* to them, and no empty list is left (UpdateModel, UpdateModelVersion,
\* RemoveVendorProduct).
THEOREM ModelTypeCorrect == Spec => []TypeOK
BY ModelInvariant, PTL DEF ModelInv

\* The range of software versions an image applies to is never empty, whether
\* an update gives one bound or both (UpdateModelVersion).
THEOREM RangeCorrect == Spec => []RangeNotEmpty
BY ModelInvariant, PTL DEF ModelInv

\* The products of a vendor are its models, each once and under its current
\* name (SetVendorProduct, RemoveVendorProduct).
THEOREM ProductsCorrect == Spec => []ProductsAgree
BY ModelInvariant, PTL DEF ModelInv

\* The versions of a model are those on the ledger, each once, although the
\* model may be deleted and created again (AddModelVersion, DeleteModel).
THEOREM VersionsCorrect == Spec => []VersionsAgree
BY ModelInvariant, PTL DEF ModelInv

\* The localized string file of a model stays while the model does, and its
\* revision goes up by one at a time (UpdateModel).
THEOREM RevisionsCorrect == Spec => RevisionsInOrder
<1>1. ModelInv /\ [Next]_vars => [RevisionStep]_vars
  BY ModelStep, Zenon
<1>2. QED
  BY <1>1, ModelInvariant, PTL DEF Spec, RevisionsInOrder

-----------------------------------------------------------------------------
(* What is proved of Model holds of the two modules together. *)

\* x/compliance leaves models and versions alone.
LEMMA CatalogIsModel == CatalogSpec => Spec
<1>1. CatalogInit => Init
  BY Zenon DEF CatalogInit
<1>2. [CatalogNext]_allVars => [Next]_vars
  <2>1. UNCHANGED allVars => UNCHANGED vars
    BY DEF allVars
  <2>2. QED
    BY <2>1, Zenon DEF CatalogNext, VendorStep, CenterStep
<1>3. QED
  BY <1>1, <1>2, PTL DEF CatalogSpec, Spec

\* The version numbers of a model are those of its versions, while versions
\* are certified and revoked (CreateModelVersion, DeleteModel).
THEOREM CatalogVersions == CatalogSpec => []VersionsAgree
BY CatalogIsModel, VersionsCorrect, PTL

-----------------------------------------------------------------------------
(* What is proved of Compliance holds of the two modules together. *)

CP == INSTANCE ComplianceProofs WITH Version <- VersionKey, versionString <- StringOf

\* ComplianceProofs has the same transactions of x/compliance.
LEMMA SameTransactions == C!ComplianceTx => CP!ComplianceTx
BY Zenon
   DEF C!ComplianceTx, CP!ComplianceTx, C!CertifyModel, CP!CertifyModel,
       C!RevokeModel, CP!RevokeModel, C!ProvisionModel, CP!ProvisionModel,
       C!VersionMatches, CP!VersionMatches, C!CanChange, CP!CanChange,
       C!HistoryBound, CP!HistoryBound,
       C!SetCertifiedStatus, CP!SetCertifiedStatus,
       C!SetRevokedStatus, CP!SetRevokedStatus, C!SetStatus, CP!SetStatus,
       C!NewInfo, CP!NewInfo, C!ListCertified, CP!ListCertified,
       C!UnlistRevoked, CP!UnlistRevoked,
       C!RemoveComplianceInfo, CP!RemoveComplianceInfo, C!Key, CP!Key,
       C!Date, CP!Date, C!Put, CP!Put, C!Delete, CP!Delete

\* And the same specification.
LEMMA SameSpecification == C!Spec => CP!Spec
<1>1. C!Init => CP!Init
  BY DEF C!Init, CP!Init, C!InitRecords, CP!InitRecords,
         C!EmptyStore, CP!EmptyStore
<1>2. [C!Next]_C!vars => [CP!Next]_CP!vars
  <2>1. C!ChangeCenters => CP!ChangeCenters
    BY DEF C!ChangeCenters, CP!ChangeCenters, C!records, CP!records,
           C!flags, CP!flags
  <2>2. C!AddVersion => CP!AddVersion
    BY Zenon DEF C!AddVersion, CP!AddVersion, C!records, CP!records,
                 C!flags, CP!flags, C!Put, CP!Put
  <2>3. UNCHANGED C!vars => UNCHANGED CP!vars
    BY DEF C!vars, CP!vars, C!records, CP!records, C!flags, CP!flags
  <2>4. QED
    BY <2>1, <2>2, <2>3, SameTransactions DEF C!Next, CP!Next
<1>3. QED
  BY <1>1, <1>2, PTL DEF C!Spec, CP!Spec

\* The flags of x/compliance say what its records say, whatever vendors do to
\* their models and versions (CertifyModel, RevokeModel, ProvisionModel).
THEOREM CatalogFlags == CatalogSpec => []FlagsAgree
<1>1. CP!FlagsAgree => FlagsAgree
  BY DEF FlagsAgree, C!FlagsAgree, CP!FlagsAgree, C!HasStatus, CP!HasStatus,
         C!Flagged, CP!Flagged, C!Key, CP!Key
<1>2. CP!Spec => []CP!FlagsAgree
  BY CP!FlagsCorrect
<1>3. QED
  BY <1>1, <1>2, CatalogImplementsCompliance, SameSpecification, PTL
     DEF ImplementsCompliance

\* The history of a compliance record only grows, in the order of the dates,
\* although the model it is about may be deleted meanwhile (DeleteModel).
THEOREM CatalogTrail == CatalogSpec => TrailGrowsInOrder
<1>1. [CP!TrailStep]_CP!vars => [C!TrailStep]_C!vars
  BY DEF C!TrailStep, CP!TrailStep, C!Trail, CP!Trail, C!vars, CP!vars,
         C!records, CP!records, C!flags, CP!flags
<1>2. CP!Spec => [][CP!TrailStep]_CP!vars
  BY CP!TrailCorrect DEF CP!TrailGrowsInOrder
<1>3. QED
  BY <1>1, <1>2, CatalogImplementsCompliance, SameSpecification, PTL
     DEF ImplementsCompliance, TrailGrowsInOrder, C!TrailGrowsInOrder

\* What is certified, or was before it was revoked, is on the ledger, with its
\* string unless it was provisional first, although models were deleted and
\* created again since (CertifyModel, RevokeModel, DeleteModel).
THEOREM CatalogCertified == CatalogSpec => []CertifiedHasVersion
<1>1. CP!RecordsOK /\ CP!DecidedOnVersion => CertifiedHasVersion
  <2>1. SUFFICES ASSUME CP!RecordsOK, CP!DecidedOnVersion, NEW k \in DOMAIN complianceInfo,
                        NEW i \in DOMAIN C!Trail(complianceInfo[k]),
                        C!Trail(complianceInfo[k])[i].status = "certified"
                 PROVE  /\ k[1] \in DOMAIN modelVersion
                        /\ \/ C!Trail(complianceInfo[k])[1].status = "provisional"
                           \/ complianceInfo[k].string = modelVersion[k[1]].string
    BY Zenon DEF CertifiedHasVersion
  <2>2. PICK info, e : /\ info = complianceInfo[k]
                       /\ e = [status |-> info.status, date |-> info.date]
    BY Zenon
  <2>3. C!Trail(info) = Append(info.history, e)
    BY <2>2, Zenon DEF C!Trail
  <2>4. info.status # "provisional"
    <3>1. SUFFICES ASSUME info.status = "provisional" PROVE FALSE
      BY Zenon
    <3>2. info.history = <<>>
      BY <2>1, <2>2, <3>1, Zenon DEF CP!RecordsOK
    <3>3. e.status # "certified"
      BY <2>2, <3>1
    <3>4. \A n \in DOMAIN Append(<<>>, e) : Append(<<>>, e)[n] = e
      OBVIOUS
    <3>5. QED
      BY <2>1, <2>2, <2>3, <3>2, <3>3, <3>4, Zenon
  <2>5. QED
    BY <2>1, <2>2, <2>4, Zenon DEF CP!DecidedOnVersion, CP!Trail, C!Trail, StringOf
<1>2. CP!Spec => [](CP!RecordsOK /\ CP!DecidedOnVersion)
  BY CP!DecidedCorrect
<1>3. QED
  BY <1>1, <1>2, CatalogImplementsCompliance, SameSpecification, PTL
     DEF ImplementsCompliance

\* If no certified record ever has the compliance certificate of another type
\* of its version that is not revoked, the list of a certificate holds, once
\* each, the current records of what is certified with it, and else only
\* copies that have another string than their version, whatever vendors do to
\* models and versions (CertifyModel, RevokeModel, DeleteModel).
THEOREM CatalogDeviceLists == CatalogSpec /\ []TypesApart => []CertifiedAreListed
<1>1. CP!CertifiedAreListed => CertifiedAreListed
  BY DEF CertifiedAreListed, C!CertifiedAreListed, CP!CertifiedAreListed,
         C!CertifiedWith, CP!CertifiedWith, C!ListOf, CP!ListOf,
         C!Misnamed, CP!Misnamed, C!Range, CP!Range
<1>2. TypesApart => CP!TypesApart
  BY Zenon DEF TypesApart, C!TypesApart, CP!TypesApart
<1>3. CP!Spec /\ []CP!TypesApart => []CP!CertifiedAreListed
  BY CP!ListsCorrect
<1>4. QED
  BY <1>1, <1>2, <1>3, CatalogImplementsCompliance, SameSpecification, PTL
     DEF ImplementsCompliance
=============================================================================
