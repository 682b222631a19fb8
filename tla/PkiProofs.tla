------------------------------ MODULE PkiProofs ------------------------------
(***************************************************************************)
(* The certificates of x/pki, for any accounts, Trustees and certificates. *)
(* That the indexes and the chains are right rests on the shape of the     *)
(* lists, which no single handler sees: the certificates of a list that    *)
(* are not roots have one issuer, the issuer is approved, and so the       *)
(* approved identifiers are trees below those whose list starts with a     *)
(* root.                                                                   *)
(***************************************************************************)
EXTENDS Pki, LedgerLemmas

-----------------------------------------------------------------------------
(* Lists. *)

\* A list that gets another element.
LEMMA RangeAppend ==
  ASSUME NEW A, NEW s \in Seq(A), NEW e \in A
  PROVE  /\ Append(s, e) \in Seq(A) /\ Append(s, e) # <<>>
         /\ Range(Append(s, e)) = Range(s) \cup {e}
         /\ Append(s, e)[1] = IF s = <<>> THEN e ELSE s[1]
<1>1. Append(s, e) \in Seq(A) /\ Append(s, e) # <<>>
  <2>1. Append(s, e) \in Seq(A) /\ Len(Append(s, e)) = Len(s) + 1
    OBVIOUS
  <2>2. Len(s) \in Nat /\ Len(<<>>) = 0
    OBVIOUS
  <2>3. QED
    BY <2>1, <2>2
<1>2. Range(Append(s, e)) = Range(s) \cup {e}
  BY AppendVoters DEF Voters
<1>3. Append(s, e)[1] = IF s = <<>> THEN e ELSE s[1]
  OBVIOUS
<1>4. QED
  BY <1>1, <1>2, <1>3

\* Nothing else is in it.
LEMMA RangeConcat ==
  ASSUME NEW A, NEW s \in Seq(A), NEW t \in Seq(A)
  PROVE  Range(s \o t) = Range(s) \cup Range(t)
<1> USE ConcatPlaces
<1>1. ASSUME NEW i \in DOMAIN (s \o t)
      PROVE  (s \o t)[i] \in Range(s) \cup Range(t)
  <2>1. CASE i \in 1..Len(s)
    BY <2>1 DEF Range
  <2>2. CASE i \in (Len(s) + 1)..(Len(s) + Len(t))
    <3>1. i - Len(s) \in DOMAIN t
      BY <2>2
    <3>2. QED
      BY <2>2, <3>1 DEF Range
  <2>3. QED
    BY <2>1, <2>2
<1>2. ASSUME NEW i \in DOMAIN s
      PROVE  s[i] \in Range(s \o t)
  <2>1. i \in DOMAIN (s \o t) /\ (s \o t)[i] = s[i]
    OBVIOUS
  <2>2. QED
    BY <2>1, Zenon DEF Range
<1>3. ASSUME NEW i \in DOMAIN t
      PROVE  t[i] \in Range(s \o t)
  <2>1. i + Len(s) \in DOMAIN (s \o t) /\ (s \o t)[i + Len(s)] = t[i]
    OBVIOUS
  <2>2. QED
    BY <2>1 DEF Range
<1>4. Range(s \o t) \subseteq Range(s) \cup Range(t)
  BY <1>1 DEF Range
<1>5. Range(s) \cup Range(t) \subseteq Range(s \o t)
  <2>1. ASSUME NEW v \in Range(s) PROVE v \in Range(s \o t)
    <3>1. PICK i \in DOMAIN s : v = s[i]
      BY <2>1, Zenon DEF Range
    <3>2. QED
      BY <1>2, <3>1, Zenon
  <2>2. ASSUME NEW v \in Range(t) PROVE v \in Range(s \o t)
    <3>1. PICK i \in DOMAIN t : v = t[i]
      BY <2>2, Zenon DEF Range
    <3>2. QED
      BY <1>3, <3>1, Zenon
  <2>3. QED
    BY <2>1, <2>2, Zenon
<1>6. QED
  BY <1>4, <1>5

-----------------------------------------------------------------------------
(* Chains. *)

\* The child index has identifiers only.
LEMMA ChildrenType == TypeOK => \A id : Children(id) \subseteq CertID
BY DEF TypeOK, IsStore, Children

\* The descendants are closed, and include the children.
LEMMA DescendantsClosed ==
  ASSUME TypeOK, NEW id
  PROVE  /\ Descendants(id) \subseteq CertID
         /\ Children(id) \subseteq Descendants(id)
         /\ ClosedUnderChildren(Descendants(id))
BY ChildrenType DEF Descendants, ClosedUnderChildren

\* They are in every other such set.
LEMMA DescendantsLeast ==
  ASSUME NEW id, NEW S \in SUBSET CertID, Children(id) \subseteq S, ClosedUnderChildren(S)
  PROVE  Descendants(id) \subseteq S
BY DEF Descendants

\* A descendant is the child of another one, or of id itself.
LEMMA DescendantHasParent ==
  ASSUME TypeOK, NEW id, NEW d \in Descendants(id)
  PROVE  \E q \in {id} \cup Descendants(id) : d \in Children(q)
<1> SUFFICES ASSUME \A q \in {id} \cup Descendants(id) : d \notin Children(q)
             PROVE  FALSE
  OBVIOUS
<1> DEFINE S == Descendants(id) \ {d}
<1>1. S \in SUBSET CertID /\ Children(id) \subseteq S
  BY DescendantsClosed
<1>2. ClosedUnderChildren(S)
  BY DescendantsClosed DEF ClosedUnderChildren
<1>3. Descendants(id) \subseteq S
  BY <1>1, <1>2, DescendantsLeast
<1>4. QED
  BY <1>3

-----------------------------------------------------------------------------
(* The shape of the lists. *)

\* The issuer p signed a certificate of id that is not a root certificate.
Below(id, p) ==
  /\ id \in DOMAIN approvedCertificates
  /\ \E e \in Range(approvedCertificates[id]) : ~IsSelfSigned(e.cert) /\ e.cert.issuer = p

HasRoot(store, id) == id \in DOMAIN store /\ \E e \in Range(store[id]) : IsSelfSigned(e.cert)

\* The three parts of IndexesAgree.
ChildIndex ==
  /\ \A id \in DOMAIN childCertificates : childCertificates[id] # {}
  /\ \A p, id \in CertID : id \in Children(p) <=> Below(id, p)

SubjectIndex ==
  /\ \A s \in DOMAIN bySubject : bySubject[s] # {}
  /\ \A id \in CertID : id \in DOMAIN approvedCertificates <=> id[2] \in SetOf(bySubject, id[1])

RootIndexes ==
  \A id \in CertID :
    /\ HasRoot(approvedCertificates, id) => id \in approvedRoots
    /\ id \in revokedRoots => HasRoot(revokedCertificates, id)

\* A certificate is in the list of its identifier.
Filed ==
  /\ \A id \in DOMAIN approvedCertificates :
       \A e \in Range(approvedCertificates[id]) : e.cert.id = id
  /\ \A id \in DOMAIN revokedCertificates :
       \A e \in Range(revokedCertificates[id]) : e.cert.id = id

\* The certificates of a list that are not roots have the issuer of the
\* first, which is none of them when the list starts with a root.
OneIssuer ==
  \A id \in DOMAIN approvedCertificates :
    \A e \in Range(approvedCertificates[id]) :
      ~IsSelfSigned(e.cert) => approvedCertificates[id][1].cert.issuer = e.cert.issuer

\* The issuer of an approved certificate is approved.
IssuerApproved ==
  \A id \in DOMAIN approvedCertificates :
    \A e \in Range(approvedCertificates[id]) : e.cert.issuer \in DOMAIN approvedCertificates

ListInv ==
  /\ ChildIndex /\ SubjectIndex /\ RootIndexes
  /\ Filed /\ OneIssuer /\ IssuerApproved

PkiInv == TypeOK /\ ListInv /\ RevocationHasRoot

\* When a list has root certificates.
LEMMA RootsNotEmpty ==
  ASSUME NEW store, NEW id
  PROVE  Roots(store, id) # {} <=> HasRoot(store, id)
<1>1. Range(<<>>) = {}
  BY DEF Range
<1>2. QED
  BY <1>1 DEF Roots, HasRoot, ListOf

\* IndexesAgree in its parts.
LEMMA IndexParts == IndexesAgree <=> ChildIndex /\ SubjectIndex /\ RootIndexes
BY RootsNotEmpty DEF IndexesAgree, ChildIndex, SubjectIndex, RootIndexes, Below

\* A list has a first element.
LEMMA FirstInList ==
  ASSUME TypeOK, NEW id \in DOMAIN approvedCertificates
  PROVE  /\ id \in CertID /\ approvedCertificates[id] \in Seq(Entry)
         /\ approvedCertificates[id] # <<>>
         /\ approvedCertificates[id][1] \in Range(approvedCertificates[id])
         /\ \A e \in Range(approvedCertificates[id]) : e \in Entry
<1>1. /\ id \in CertID /\ approvedCertificates[id] \in Seq(Entry)
      /\ approvedCertificates[id] # <<>>
  BY DEF TypeOK, IsStore
<1>2. 1 \in DOMAIN approvedCertificates[id]
  BY <1>1
<1>3. QED
  BY <1>1, <1>2 DEF Range

\* A child has one parent, the issuer of the first in its list, and its list
\* does not start with a root.
LEMMA OnlyParent ==
  ASSUME PkiInv, NEW p \in CertID, NEW id \in CertID, id \in Children(p)
  PROVE  /\ id \in DOMAIN approvedCertificates /\ p \in DOMAIN approvedCertificates
         /\ ~FirstIsRoot(id) /\ approvedCertificates[id][1].cert.issuer = p
         /\ p # id
<1>1. PICK e \in Range(approvedCertificates[id]) : ~IsSelfSigned(e.cert) /\ e.cert.issuer = p
  BY DEF PkiInv, ListInv, ChildIndex, Below
<1>2. id \in DOMAIN approvedCertificates
  BY DEF PkiInv, ListInv, ChildIndex, Below
<1>3. approvedCertificates[id][1].cert.issuer = p /\ p \in DOMAIN approvedCertificates
  BY <1>1, <1>2 DEF PkiInv, ListInv, OneIssuer, IssuerApproved
<1>4. approvedCertificates[id][1].cert.id = id /\ e.cert.id = id
  BY <1>1, <1>2, FirstInList DEF PkiInv, ListInv, Filed
<1>5. QED
  BY <1>1, <1>2, <1>3, <1>4 DEF FirstIsRoot, IsSelfSigned

\* The identifiers ids are a whole subtree of approved ones, with the top id.
Subtree(id, ids) ==
  /\ ids \subseteq DOMAIN approvedCertificates
  /\ \A p \in ids : Children(p) \subseteq ids
  /\ \A p \in CertID \ ids : \A d \in ids : d \in Children(p) => d = id

\* What is revoked together: only approved identifiers, with all of their
\* children, and of these only the first has a parent outside.
LEMMA RevokedTogether ==
  ASSUME PkiInv, NEW id \in DOMAIN approvedCertificates, NEW ids,
         ids = {id} \cup Descendants(id)
  PROVE  Subtree(id, ids)
<1>0. TypeOK /\ id \in CertID
  BY FirstInList DEF PkiInv
<1>1. ids \subseteq CertID
  BY <1>0, DescendantsClosed
<1>2. ASSUME NEW d \in Descendants(id)
      PROVE  d \in DOMAIN approvedCertificates /\ approvedCertificates[d][1].cert.issuer \in ids
  <2>1. PICK q \in ids : d \in Children(q)
    BY <1>0, DescendantHasParent
  <2>2. QED
    BY <1>1, <2>1, OnlyParent
<1>3. \A p \in ids : Children(p) \subseteq ids
  BY <1>0, DescendantsClosed DEF ClosedUnderChildren
<1>4. ASSUME NEW p \in CertID \ ids, NEW d \in ids, d \in Children(p)
      PROVE  d = id
  BY <1>1, <1>2, <1>4, OnlyParent
<1>5. ids \subseteq DOMAIN approvedCertificates
  BY <1>2, Zenon
<1>6. QED
  BY <1>3, <1>4, <1>5, Zenon DEF Subtree

-----------------------------------------------------------------------------
(* Revocation: RevokeChildCertificates and what is done with the lists. *)

\* The records of children that are not those of ids.
Others(children, ids) == [i \in DOMAIN children \ ids |-> children[i]]

\* The child index after a revocation: nothing of what was revoked is in it.
IndexAfter(ids) ==
  /\ IsStore(childCertificates', CertID, SUBSET CertID)
  /\ \A i \in DOMAIN childCertificates' : childCertificates'[i] # {}
  /\ \A p \in CertID : Children(p)' = IF p \in ids THEN {} ELSE Children(p) \ ids

\* RevokeChildCertificates removes the records of ids, and those outside hold
\* none of them: only the first has a parent there, and is taken from it.
LEMMA ChildrenAfter ==
  ASSUME PkiInv, NEW id \in DOMAIN approvedCertificates, NEW ids,
         ids = {id} \cup Descendants(id), NEW children,
         \/ children = childCertificates /\ FirstIsRoot(id)
         \/ children = RemoveChildCertificate(approvedCertificates[id][1].cert.issuer, id),
         childCertificates' = Others(children, ids)
  PROVE  IndexAfter(ids)
<1> DEFINE issuer == approvedCertificates[id][1].cert.issuer
           kids(p) == IF p \in DOMAIN children THEN children[p] ELSE {}
<1>1. TypeOK /\ id \in CertID /\ id \in ids /\ issuer \in CertID
  <2>1. TypeOK /\ id \in CertID /\ id \in ids
    BY FirstInList DEF PkiInv
  <2>2. approvedCertificates[id][1] \in Entry
    BY <2>1, FirstInList
  <2>3. QED
    BY <2>1, <2>2, CertificateAssumption DEF Entry
<1>2. IsStore(childCertificates, CertID, SUBSET CertID)
  BY <1>1 DEF TypeOK
<1>3. \A p \in CertID \ ids : \A d \in ids : d \in Children(p) => d = id
  <2>1. Subtree(id, ids)
    BY RevokedTogether, Zenon
  <2>2. QED
    BY <2>1, Zenon DEF Subtree
<1>4. /\ IsStore(children, CertID, SUBSET CertID)
      /\ \A i \in DOMAIN children : children[i] # {}
      /\ \A p \in CertID \ ids : kids(p) = Children(p) \ ids
  <2>1. CASE children = childCertificates /\ FirstIsRoot(id)
    <3>1. \A p \in CertID : id \notin Children(p)
      BY <1>1, <2>1, OnlyParent
    <3>2. \A p \in CertID \ ids : Children(p) = Children(p) \ ids
      BY <1>3, <3>1
    <3>3. \A i \in DOMAIN childCertificates : childCertificates[i] # {}
      BY DEF PkiInv, ListInv, ChildIndex
    <3>4. QED
      BY <1>2, <2>1, <3>2, <3>3 DEF Children
  <2>2. CASE children = RemoveChildCertificate(issuer, id)
    <3> DEFINE rest == Children(issuer) \ {id}
    <3>1. \A p \in CertID : p # issuer => id \notin Children(p)
      BY <1>1, OnlyParent
    <3>2. \A i \in DOMAIN childCertificates : childCertificates[i] # {}
      BY DEF PkiInv, ListInv, ChildIndex
    <3>3. children = IF rest = {} THEN Delete(childCertificates, issuer)
                                  ELSE Put(childCertificates, issuer, rest)
      BY <2>2 DEF RemoveChildCertificate
    <3>4. rest \in SUBSET CertID
      BY <1>1, ChildrenType
    <3>5. IsStore(children, CertID, SUBSET CertID)
      BY <1>1, <1>2, <3>3, <3>4, PutIsStore, DeleteIsStore, Zenon
    <3> HIDE DEF rest
    <3>6. \A i \in DOMAIN children : children[i] # {}
      BY <3>2, <3>3, Zenon DEF Put, Delete
    <3>7. \A p \in CertID : kids(p) = Children(p) \ {id}
      BY <3>1, <3>3, Zenon DEF Put, Delete, Children, rest
    <3>8. \A p \in CertID \ ids : kids(p) = Children(p) \ ids
      BY <1>1, <1>3, <3>7
    <3>9. QED
      BY <3>5, <3>6, <3>8
  <2>3. QED
    BY <2>1, <2>2
<1>5. IsStore(childCertificates', CertID, SUBSET CertID)
  BY <1>4 DEF IsStore, Others
<1>6. \A i \in DOMAIN childCertificates' : childCertificates'[i] # {}
  BY <1>4 DEF Others
<1>7. \A p \in CertID : Children(p)' = IF p \in ids THEN {} ELSE kids(p)
  BY DEF Children, Others
<1>8. QED
  BY <1>4, <1>5, <1>6, <1>7, Zenon DEF IndexAfter

\* The lists and the other parts of the invariant after it.
LEMMA RevokeKeeps ==
  ASSUME PkiInv, NEW id \in DOMAIN approvedCertificates, NEW ids,
         ids = {id} \cup Descendants(id), MoveToRevoked(ids), IndexAfter(ids)
  PROVE  /\ IsStore(approvedCertificates', CertID, Seq(Entry) \ {<<>>})
         /\ IsStore(revokedCertificates', CertID, Seq(Entry) \ {<<>>})
         /\ IsStore(bySubject', Subject, SUBSET KeyID)
         /\ ChildIndex' /\ SubjectIndex' /\ Filed' /\ OneIssuer' /\ IssuerApproved'
<1>0. ids \subseteq DOMAIN approvedCertificates /\ \A p \in ids : Children(p) \subseteq ids
  <2>1. Subtree(id, ids)
    BY RevokedTogether, Zenon
  <2>2. QED
    BY <2>1, Zenon DEF Subtree
<1>1. TypeOK /\ ids \subseteq DOMAIN approvedCertificates /\ ids \subseteq CertID
  BY <1>0, FirstInList DEF PkiInv
<1>2. /\ DOMAIN approvedCertificates' = DOMAIN approvedCertificates \ ids
      /\ \A i \in DOMAIN approvedCertificates' : approvedCertificates'[i] = approvedCertificates[i]
      /\ approvedCertificates' = [i \in DOMAIN approvedCertificates \ ids |-> approvedCertificates[i]]
  BY DEF MoveToRevoked, RemoveApprovedCertificates
<1>3. IsStore(approvedCertificates', CertID, Seq(Entry) \ {<<>>})
  BY <1>1, <1>2 DEF TypeOK, IsStore
<1>4. /\ \A i \in CertID : ListOf(approvedCertificates, i) \in Seq(Entry)
      /\ \A i \in CertID : ListOf(revokedCertificates, i) \in Seq(Entry)
  BY <1>1 DEF TypeOK, IsStore, ListOf
<1>5. /\ DOMAIN revokedCertificates' = DOMAIN revokedCertificates \cup ids
      /\ \A i \in ids : revokedCertificates'[i] =
                          ListOf(revokedCertificates, i) \o ListOf(approvedCertificates, i)
      /\ \A i \in DOMAIN revokedCertificates \ ids : revokedCertificates'[i] = revokedCertificates[i]
      /\ revokedCertificates' = [i \in DOMAIN revokedCertificates' |-> revokedCertificates'[i]]
  <2>1. \A i \in DOMAIN revokedCertificates \ ids :
          ListOf(revokedCertificates, i) \o <<>> = revokedCertificates[i]
    BY <1>1 DEF TypeOK, IsStore, ListOf
  <2>2. QED
    BY <2>1 DEF MoveToRevoked, AddRevokedCertificates
<1>6. \A i \in ids : /\ revokedCertificates'[i] \in Seq(Entry) \ {<<>>}
                     /\ Range(revokedCertificates'[i]) =
                          Range(ListOf(revokedCertificates, i)) \cup Range(approvedCertificates[i])
  <2> TAKE i \in ids
  <2> DEFINE s == ListOf(revokedCertificates, i)
             u == ListOf(approvedCertificates, i)
  <2>1. s \in Seq(Entry) /\ u \in Seq(Entry) /\ u # <<>> /\ u = approvedCertificates[i]
    BY <1>1, <1>4, FirstInList DEF ListOf
  <2>2. revokedCertificates'[i] = s \o u
    BY <1>5, Zenon
  <2> HIDE DEF s, u
  <2>3. s \o u \in Seq(Entry) /\ Len(s \o u) = Len(s) + Len(u) /\ Len(u) > 0
    BY <2>1
  <2>4. s \o u # <<>>
    BY <2>1, <2>3
  <2>5. Range(s \o u) = Range(s) \cup Range(u)
    BY <2>1, RangeConcat
  <2>6. QED
    BY <2>1, <2>2, <2>3, <2>4, <2>5 DEF s
<1>7. IsStore(revokedCertificates', CertID, Seq(Entry) \ {<<>>})
  BY <1>1, <1>5, <1>6 DEF TypeOK, IsStore
<1>8. IsStore(bySubject', Subject, SUBSET KeyID)
  BY <1>1 DEF MoveToRevoked, RemoveApprovedCertificatesBySubject, TypeOK, IsStore
<1>9. ChildIndex'
  <2>1. ASSUME NEW p \in CertID, NEW i \in CertID
        PROVE  i \in Children(p)' <=> Below(i, p)'
    <3>1. Below(i, p)' <=> Below(i, p) /\ i \notin ids
      BY <1>2, Zenon DEF Below
    <3>2. i \in Children(p) <=> Below(i, p)
      BY DEF PkiInv, ListInv, ChildIndex
    <3>3. p \in ids /\ i \in Children(p) => i \in ids
      BY <1>0
    <3>4. QED
      BY <3>1, <3>2, <3>3 DEF IndexAfter
  <2>2. QED
    BY <2>1 DEF ChildIndex, IndexAfter
<1>10. SubjectIndex'
  <2>1. bySubject' =
          [s \in {u \in DOMAIN bySubject : \E k \in bySubject[u] : <<u, k>> \notin ids} |->
             {k \in bySubject[s] : <<s, k>> \notin ids}]
    BY DEF MoveToRevoked, RemoveApprovedCertificatesBySubject
  <2>2. \A s \in DOMAIN bySubject' : bySubject'[s] # {}
    BY <2>1, Zenon
  <2>3. ASSUME NEW i \in CertID
        PROVE  i[2] \in SetOf(bySubject, i[1])' <=> i[2] \in SetOf(bySubject, i[1]) /\ i \notin ids
    <3>1. i = <<i[1], i[2]>>
      BY DEF CertID
    <3>2. QED
      BY <2>1, <3>1, Zenon DEF SetOf
  <2>4. QED
    BY <1>2, <2>2, <2>3 DEF SubjectIndex, PkiInv, ListInv
<1>11. Filed'
  <2>1. \A i \in DOMAIN approvedCertificates' :
          \A e \in Range(approvedCertificates'[i]) : e.cert.id = i
    BY <1>2 DEF PkiInv, ListInv, Filed
  <2>2. ASSUME NEW i \in DOMAIN revokedCertificates', NEW e \in Range(revokedCertificates'[i])
        PROVE  e.cert.id = i
    <3>1. CASE i \in ids
      <4>1. e \in Range(ListOf(revokedCertificates, i)) \/ e \in Range(approvedCertificates[i])
        BY <1>6, <3>1
      <4>2. Range(<<>>) = {}
        BY DEF Range
      <4>3. QED
        BY <1>1, <3>1, <4>1, <4>2 DEF ListOf, PkiInv, ListInv, Filed
    <3>2. CASE i \notin ids
      BY <1>5, <3>2 DEF PkiInv, ListInv, Filed
    <3>3. QED
      BY <3>1, <3>2
  <2>3. QED
    BY <2>1, <2>2 DEF Filed
<1>12. OneIssuer'
  BY <1>2 DEF PkiInv, ListInv, OneIssuer
<1>13. IssuerApproved'
  <2>1. ASSUME NEW i \in DOMAIN approvedCertificates', NEW e \in Range(approvedCertificates'[i])
        PROVE  e.cert.issuer \in DOMAIN approvedCertificates'
    <3>1. /\ i \in DOMAIN approvedCertificates /\ i \notin ids /\ i \in CertID
          /\ e \in Range(approvedCertificates[i])
          /\ e.cert.issuer \in DOMAIN approvedCertificates /\ e.cert.id = i
      BY <1>1, <1>2, FirstInList DEF PkiInv, ListInv, IssuerApproved, Filed
    <3>2. CASE IsSelfSigned(e.cert)
      BY <1>2, <3>1, <3>2 DEF IsSelfSigned
    <3>3. CASE ~IsSelfSigned(e.cert)
      <4>1. e.cert.issuer \in CertID /\ i \in Children(e.cert.issuer)
        BY <1>1, <3>1, <3>3, FirstInList DEF PkiInv, ListInv, ChildIndex, Below
      <4>2. e.cert.issuer \notin ids
        BY <3>1, <4>1, <1>0
      <4>3. QED
        BY <1>2, <3>1, <4>2
    <3>4. QED
      BY <3>2, <3>3
  <2>2. QED
    BY <2>1 DEF IssuerApproved
<1>14. QED
  BY <1>3, <1>7, <1>8, <1>9, <1>10, <1>11, <1>12, <1>13

-----------------------------------------------------------------------------
(* A certificate is added to the list of its identifier. *)

\* What has a chain to a root is approved.
LEMMA AnchoredApproved == TypeOK => Anchored \subseteq DOMAIN approvedCertificates
<1> SUFFICES ASSUME TypeOK PROVE Anchored \subseteq DOMAIN approvedCertificates
  OBVIOUS
<1>1. DOMAIN approvedCertificates \in SUBSET CertID
  BY DEF TypeOK, IsStore
<1>2. ClosedUnderSigning(DOMAIN approvedCertificates)
  BY DEF ClosedUnderSigning
<1>3. QED
  BY <1>1, <1>2 DEF Anchored

\* The lists after an addition.
LEMMA ListsAfter ==
  ASSUME TypeOK, NEW cert \in Certificate, NEW owner \in Address,
         AddApprovedCertificate(cert, owner)
  PROVE  /\ cert.id \in CertID
         /\ IsStore(approvedCertificates', CertID, Seq(Entry) \ {<<>>})
         /\ DOMAIN approvedCertificates' = DOMAIN approvedCertificates \cup {cert.id}
         /\ \A i \in DOMAIN approvedCertificates :
              /\ approvedCertificates'[i][1] = approvedCertificates[i][1]
              /\ i # cert.id => approvedCertificates'[i] = approvedCertificates[i]
         /\ cert.id \notin DOMAIN approvedCertificates =>
              approvedCertificates'[cert.id][1] = [cert |-> cert, owner |-> owner]
         /\ Range(approvedCertificates'[cert.id]) =
              Range(ListOf(approvedCertificates, cert.id)) \cup {[cert |-> cert, owner |-> owner]}
<1> DEFINE new == [cert |-> cert, owner |-> owner]
           old == ListOf(approvedCertificates, cert.id)
<1>1. new \in Entry /\ cert.id \in CertID
  BY CertificateAssumption DEF Entry
<1>2. IsStore(approvedCertificates, CertID, Seq(Entry) \ {<<>>})
  BY DEF TypeOK
<1>3. /\ old \in Seq(Entry)
      /\ old = <<>> <=> cert.id \notin DOMAIN approvedCertificates
      /\ cert.id \in DOMAIN approvedCertificates => old = approvedCertificates[cert.id]
  BY <1>2 DEF IsStore, ListOf
<1>4. approvedCertificates' = Put(approvedCertificates, cert.id, Append(old, new))
  BY DEF AddApprovedCertificate
<1> HIDE DEF new, old
<1>5. /\ Append(old, new) \in Seq(Entry) \ {<<>>}
      /\ Range(Append(old, new)) = Range(old) \cup {new}
      /\ Append(old, new)[1] = IF old = <<>> THEN new ELSE old[1]
  BY <1>1, <1>3, RangeAppend
<1>6. IsStore(approvedCertificates', CertID, Seq(Entry) \ {<<>>})
  BY <1>1, <1>2, <1>4, <1>5, PutIsStore, Zenon
<1>7. /\ DOMAIN approvedCertificates' = DOMAIN approvedCertificates \cup {cert.id}
      /\ approvedCertificates'[cert.id] = Append(old, new)
      /\ \A i \in DOMAIN approvedCertificates :
           i # cert.id => approvedCertificates'[i] = approvedCertificates[i]
  BY <1>4 DEF Put
<1>8. QED
  BY <1>1, <1>3, <1>5, <1>6, <1>7 DEF new, old

\* The parts of the invariant after it: a root may join any list, another
\* certificate a new one or one whose first has its issuer.
LEMMA AddKeeps ==
  ASSUME PkiInv, NEW cert \in Certificate, NEW owner \in Address,
         AddApprovedCertificate(cert, owner), AddApprovedCertificateBySubject(cert.id),
         UNCHANGED revokedCertificates,
         IF IsSelfSigned(cert)
         THEN UNCHANGED childCertificates
         ELSE /\ cert.issuer \in DOMAIN approvedCertificates
              /\ cert.id \in DOMAIN approvedCertificates =>
                   approvedCertificates[cert.id][1].cert.issuer = cert.issuer
              /\ AddChildCertificate(cert.issuer, cert.id)
  PROVE  /\ IsStore(approvedCertificates', CertID, Seq(Entry) \ {<<>>})
         /\ IsStore(bySubject', Subject, SUBSET KeyID)
         /\ IsStore(childCertificates', CertID, SUBSET CertID)
         /\ ChildIndex' /\ SubjectIndex' /\ Filed' /\ OneIssuer' /\ IssuerApproved'
         /\ \A i \in CertID : HasRoot(approvedCertificates', i) <=>
              HasRoot(approvedCertificates, i) \/ (i = cert.id /\ IsSelfSigned(cert))
<1> DEFINE new == [cert |-> cert, owner |-> owner]
           id == cert.id
           old == ListOf(approvedCertificates, id)
<1>1. TypeOK /\ id \in CertID /\ cert.issuer \in CertID
  BY CertificateAssumption DEF PkiInv
<1>2. /\ IsStore(approvedCertificates', CertID, Seq(Entry) \ {<<>>})
      /\ DOMAIN approvedCertificates' = DOMAIN approvedCertificates \cup {id}
      /\ \A i \in DOMAIN approvedCertificates :
           /\ approvedCertificates'[i][1] = approvedCertificates[i][1]
           /\ i # id => approvedCertificates'[i] = approvedCertificates[i]
      /\ id \notin DOMAIN approvedCertificates => approvedCertificates'[id][1] = new
      /\ Range(approvedCertificates'[id]) = Range(old) \cup {new}
  BY <1>1, ListsAfter, Zenon
<1>3. new.cert = cert
  OBVIOUS
<1>4. /\ id \in DOMAIN approvedCertificates => old = approvedCertificates[id]
      /\ id \notin DOMAIN approvedCertificates => Range(old) = {}
  BY DEF ListOf, Range
<1> HIDE DEF new, old
<1>5. \A i \in DOMAIN approvedCertificates' : \A e \in Range(approvedCertificates'[i]) :
        \/ i \in DOMAIN approvedCertificates /\ e \in Range(approvedCertificates[i])
        \/ i = id /\ e = new
  <2> TAKE i \in DOMAIN approvedCertificates'
  <2> TAKE e \in Range(approvedCertificates'[i])
  <2>1. CASE i = id
    <3>1. e \in Range(old) \/ e = new
      BY <1>2, <2>1
    <3>2. QED
      BY <1>4, <2>1, <3>1
  <2>2. CASE i # id
    BY <1>2, <2>2
  <2>3. QED
    BY <2>1, <2>2
<1>6. \A i \in DOMAIN approvedCertificates : \A e \in Range(approvedCertificates[i]) :
        e \in Range(approvedCertificates'[i])
  BY <1>2, <1>4, Zenon
<1>7. new \in Range(approvedCertificates'[id]) /\ id \in DOMAIN approvedCertificates'
  BY <1>2
<1>8. \A i \in DOMAIN approvedCertificates' : \A e \in Range(approvedCertificates'[i]) :
        e.cert.id = i
  BY <1>3, <1>5 DEF PkiInv, ListInv, Filed
<1>9. Filed'
  BY <1>8 DEF PkiInv, ListInv, Filed
<1>10. IsStore(bySubject', Subject, SUBSET KeyID) /\ SubjectIndex'
  <2> DEFINE keys == SetOf(bySubject, id[1]) \cup {id[2]}
  <2>1. id[1] \in Subject /\ id[2] \in KeyID /\ id = <<id[1], id[2]>>
    BY <1>1 DEF CertID
  <2>2. IsStore(bySubject, Subject, SUBSET KeyID)
    BY <1>1 DEF TypeOK
  <2>3. keys \in SUBSET KeyID /\ keys # {}
    BY <2>1, <2>2 DEF IsStore, SetOf
  <2>4. bySubject' = Put(bySubject, id[1], keys)
    BY DEF AddApprovedCertificateBySubject
  <2>5. ASSUME NEW i \in CertID
        PROVE  i[2] \in SetOf(bySubject, i[1])' <=> i[2] \in SetOf(bySubject, i[1]) \/ i = id
    <3>1. i = <<i[1], i[2]>>
      BY DEF CertID
    <3>2. QED
      BY <2>1, <2>4, <3>1, Zenon DEF SetOf, Put
  <2> HIDE DEF keys
  <2>6. IsStore(bySubject', Subject, SUBSET KeyID)
    BY <2>1, <2>2, <2>3, <2>4, PutIsStore, Zenon
  <2>7. \A s \in DOMAIN bySubject' : bySubject'[s] # {}
    BY <2>3, <2>4 DEF Put, PkiInv, ListInv, SubjectIndex
  <2>8. QED
    BY <1>2, <2>5, <2>6, <2>7 DEF SubjectIndex, PkiInv, ListInv
<1>11. \A i, p \in CertID : Below(i, p)' <=>
         Below(i, p) \/ (i = id /\ ~IsSelfSigned(cert) /\ cert.issuer = p)
  <2> TAKE i, p \in CertID
  <2>1. Below(i, p) => Below(i, p)'
    BY <1>2, <1>6 DEF Below
  <2>2. i = id /\ ~IsSelfSigned(cert) /\ cert.issuer = p => Below(i, p)'
    BY <1>3, <1>7 DEF Below
  <2>3. Below(i, p)' => Below(i, p) \/ (i = id /\ ~IsSelfSigned(cert) /\ cert.issuer = p)
    BY <1>3, <1>5 DEF Below
  <2>4. QED
    BY <2>1, <2>2, <2>3
<1>12. IsStore(childCertificates', CertID, SUBSET CertID) /\ ChildIndex'
  <2>1. CASE IsSelfSigned(cert)
    <3>1. UNCHANGED childCertificates
      BY <2>1
    <3>2. \A i, p \in CertID : Below(i, p)' <=> Below(i, p)
      BY <1>11, <2>1
    <3>3. QED
      BY <1>1, <3>1, <3>2, Zenon DEF PkiInv, ListInv, ChildIndex, Children, TypeOK
  <2>2. CASE ~IsSelfSigned(cert)
    <3> DEFINE kids == Children(cert.issuer) \cup {id}
    <3>1. childCertificates' = Put(childCertificates, cert.issuer, kids)
      BY <2>2, Zenon DEF AddChildCertificate
    <3>2. kids \in SUBSET CertID /\ kids # {}
      BY <1>1, ChildrenType
    <3>3. \A p \in CertID : Children(p)' = IF p = cert.issuer THEN kids ELSE Children(p)
      BY <3>1 DEF Children, Put
    <3>4. \A i, p \in CertID : i \in Children(p)' <=> i \in Children(p) \/ (i = id /\ p = cert.issuer)
      BY <3>3
    <3> HIDE DEF kids
    <3>5. IsStore(childCertificates', CertID, SUBSET CertID)
      BY <1>1, <3>1, <3>2, PutIsStore, Zenon DEF TypeOK
    <3>6. \A i \in DOMAIN childCertificates' : childCertificates'[i] # {}
      BY <3>1, <3>2 DEF Put, PkiInv, ListInv, ChildIndex
    <3>7. \A i, p \in CertID : i \in Children(p)' <=> Below(i, p)'
      BY <1>11, <2>2, <3>4 DEF PkiInv, ListInv, ChildIndex
    <3>8. QED
      BY <3>5, <3>6, <3>7, Zenon DEF ChildIndex
  <2>3. QED
    BY <2>1, <2>2
<1>13. OneIssuer'
  <2>1. ASSUME NEW i \in DOMAIN approvedCertificates', NEW e \in Range(approvedCertificates'[i]),
               ~IsSelfSigned(e.cert)
        PROVE  approvedCertificates'[i][1].cert.issuer = e.cert.issuer
    <3>1. CASE i \in DOMAIN approvedCertificates /\ e \in Range(approvedCertificates[i])
      BY <1>2, <2>1, <3>1 DEF PkiInv, ListInv, OneIssuer
    <3>2. CASE i = id /\ e = new
      BY <1>2, <1>3, <2>1, <3>2
    <3>3. QED
      BY <1>5, <3>1, <3>2
  <2>2. QED
    BY <2>1 DEF OneIssuer
<1>14. IssuerApproved'
  <2>1. ASSUME NEW i \in DOMAIN approvedCertificates', NEW e \in Range(approvedCertificates'[i])
        PROVE  e.cert.issuer \in DOMAIN approvedCertificates'
    <3>1. CASE i \in DOMAIN approvedCertificates /\ e \in Range(approvedCertificates[i])
      BY <1>2, <3>1 DEF PkiInv, ListInv, IssuerApproved
    <3>2. CASE i = id /\ e = new
      BY <1>2, <1>3, <3>2 DEF IsSelfSigned
    <3>3. QED
      BY <1>5, <3>1, <3>2
  <2>2. QED
    BY <2>1 DEF IssuerApproved
<1>15. \A i \in CertID : HasRoot(approvedCertificates', i) <=>
         HasRoot(approvedCertificates, i) \/ (i = id /\ IsSelfSigned(cert))
  <2> TAKE i \in CertID
  <2>1. HasRoot(approvedCertificates, i) => HasRoot(approvedCertificates', i)
    BY <1>2, <1>6 DEF HasRoot
  <2>2. i = id /\ IsSelfSigned(cert) => HasRoot(approvedCertificates', i)
    BY <1>3, <1>7 DEF HasRoot
  <2>3. HasRoot(approvedCertificates', i) =>
          HasRoot(approvedCertificates, i) \/ (i = id /\ IsSelfSigned(cert))
    BY <1>3, <1>5 DEF HasRoot
  <2>4. QED
    BY <2>1, <2>2, <2>3
<1>16. QED
  BY <1>2, <1>9, <1>10, <1>12, <1>13, <1>14, <1>15

-----------------------------------------------------------------------------
(* The invariant. *)

\* Steps that leave the lists and their indexes alone.
LEMMA SameLists ==
  ASSUME ListInv,
         UNCHANGED <<approvedCertificates, revokedCertificates, approvedRoots, revokedRoots,
                     bySubject, childCertificates>>
  PROVE  ListInv'
<1>1. ChildIndex'
  BY DEF ListInv, ChildIndex, Below, Children
<1>2. SubjectIndex'
  BY DEF ListInv, SubjectIndex, SetOf
<1>3. RootIndexes'
  BY DEF ListInv, RootIndexes, HasRoot
<1>4. Filed' /\ OneIssuer' /\ IssuerApproved'
  BY DEF ListInv, Filed, OneIssuer, IssuerApproved
<1>5. QED
  BY <1>1, <1>2, <1>3, <1>4 DEF ListInv

\* Steps that also leave the revocations alone.
LEMMA SameRevocations ==
  ASSUME RevocationHasRoot, UNCHANGED <<approvedCertificates, approvedRoots, proposedRevocation>>
  PROVE  RevocationHasRoot'
BY DEF RevocationHasRoot, FirstIsRoot

\* The ledger starts without certificates.
LEMMA InvInit == Init => PkiInv
<1> SUFFICES ASSUME Init PROVE PkiInv
  OBVIOUS
<1>1. TypeOK
  BY AddressAssumption, EmptyIsStore, Zenon DEF Init, TypeOK
<1>2. /\ DOMAIN approvedCertificates = {} /\ DOMAIN revokedCertificates = {}
      /\ DOMAIN childCertificates = {} /\ DOMAIN bySubject = {}
      /\ DOMAIN proposedRevocation = {} /\ revokedRoots = {}
  BY EmptyIsStore DEF Init
<1>3. ChildIndex /\ SubjectIndex
  BY <1>2 DEF ChildIndex, Below, Children, SubjectIndex, SetOf
<1>4. RootIndexes /\ Filed /\ OneIssuer /\ IssuerApproved /\ RevocationHasRoot
  BY <1>2 DEF RootIndexes, HasRoot, Filed, OneIssuer, IssuerApproved, RevocationHasRoot
<1>5. QED
  BY <1>1, <1>3, <1>4 DEF PkiInv, ListInv

\* A vote changes one list of a proposal.
LEMMA VotedProposal ==
  ASSUME TypeOK, NEW id \in DOMAIN proposedCertificate, NEW signer \in Address, NEW new,
         \/ new = [proposedCertificate[id] EXCEPT !.approvals = Append(@, signer)]
         \/ new = [proposedCertificate[id] EXCEPT !.rejects = Append(@, signer)]
  PROVE  /\ id \in CertID /\ new \in Proposal
         /\ new.cert = proposedCertificate[id].cert /\ new.owner = proposedCertificate[id].owner
         /\ new.cert \in Certificate /\ new.owner \in Address
         /\ new.cert.id = id /\ IsSelfSigned(new.cert)
<1> DEFINE old == proposedCertificate[id]
<1>1. id \in CertID /\ old \in Proposal
  BY DEF TypeOK, IsStore
<1>2. old.cert.id = id /\ IsSelfSigned(old.cert)
  BY DEF TypeOK
<1>3. /\ old.approvals \in Seq(Address) /\ Append(old.approvals, signer) \in Seq(Address)
      /\ old.rejects \in Seq(Address) /\ Append(old.rejects, signer) \in Seq(Address)
      /\ old.cert \in Certificate /\ old.owner \in Address
  BY <1>1 DEF Proposal
<1> HIDE DEF old
<1>4. \/ new = [old EXCEPT !.approvals = Append(old.approvals, signer)]
      \/ new = [old EXCEPT !.rejects = Append(old.rejects, signer)]
  BY DEF old
<1>5. new \in Proposal
  BY <1>1, <1>3, <1>4, Zenon DEF Proposal
<1>6. new.cert = old.cert /\ new.owner = old.owner
  BY <1>1, <1>4 DEF Proposal
<1>7. QED
  BY <1>1, <1>2, <1>3, <1>5, <1>6 DEF old

\* A proposal is filed under the identifier of its certificate.
ProposalsFiled(store) ==
  \A id \in DOMAIN store : store[id].cert.id = id /\ IsSelfSigned(store[id].cert)

\* It is a part of the type invariant.
LEMMA FiledProposals == TypeOK => ProposalsFiled(proposedCertificate)
BY Zenon DEF TypeOK, ProposalsFiled

\* A proposal is made: nothing but the votes changes.
LEMMA ProposeRootKeeps ==
  ASSUME PkiInv, NEW signer \in Owner, NEW cert \in Certificate,
         ProposeAddX509RootCert(signer, cert)
  PROVE  PkiInv'
<1> DEFINE proposal == [cert |-> cert, owner |-> signer,
                        approvals |-> IF signer \in trustees THEN <<signer>> ELSE <<>>,
                        rejects |-> <<>>]
<1>1. TypeOK /\ IsSelfSigned(cert) /\ cert.id \in CertID /\ UniqueKey(cert) \in Subject \X Nat
  BY CertificateAssumption DEF PkiInv, ProposeAddX509RootCert, CanProposeRoot, UniqueKey, CertID
<1>2. proposal \in Proposal /\ proposal.cert = cert
  BY AddressAssumption, FirstVote DEF Proposal
<1>3. /\ proposedCertificate' = Put(proposedCertificate, cert.id, proposal)
      /\ rejectedCertificate' = Delete(rejectedCertificate, cert.id)
      /\ uniqueCertificate' = uniqueCertificate \cup {UniqueKey(cert)}
      /\ UNCHANGED <<trustees, proposedRevocation, lists, approvedRoots, revokedRoots, bySubject,
                     childCertificates>>
  BY DEF ProposeAddX509RootCert
<1> HIDE DEF proposal
<1>4. IsStore(proposedCertificate', CertID, Proposal)
  BY <1>1, <1>2, <1>3, PutIsStore, Zenon DEF TypeOK
<1>5. IsStore(rejectedCertificate', CertID, Proposal)
  BY <1>1, <1>3, DeleteIsStore, Zenon DEF TypeOK
<1>6. ProposalsFiled(proposedCertificate')
  BY <1>1, <1>2, <1>3, FiledProposals DEF ProposalsFiled, Put
<1>7. TypeOK'
  BY <1>1, <1>3, <1>4, <1>5, <1>6, Zenon DEF TypeOK, ProposalsFiled, lists
<1>8. ListInv' /\ RevocationHasRoot'
  BY <1>3, SameLists, SameRevocations DEF PkiInv, lists
<1>9. QED
  BY <1>7, <1>8 DEF PkiInv

\* A vote against a proposal, or the last one.
LEMMA RejectRootKeeps ==
  ASSUME PkiInv, NEW signer \in Address, NEW id \in CertID, RejectAddX509RootCert(signer, id)
  PROVE  PkiInv'
<1> DEFINE no == [proposedCertificate[id] EXCEPT !.rejects = Append(@, signer)]
<1>1. TypeOK /\ id \in DOMAIN proposedCertificate
  BY DEF PkiInv, RejectAddX509RootCert, CanVote
<1>2. no \in Proposal /\ no.cert.id = id /\ IsSelfSigned(no.cert)
  BY <1>1, VotedProposal
<1>3. /\ \/ /\ rejectedCertificate' = Put(rejectedCertificate, id, no)
            /\ proposedCertificate' = Delete(proposedCertificate, id)
            /\ uniqueCertificate' \subseteq uniqueCertificate
         \/ /\ proposedCertificate' = Put(proposedCertificate, id, no)
            /\ UNCHANGED <<rejectedCertificate, uniqueCertificate>>
      /\ UNCHANGED <<trustees, proposedRevocation, lists, approvedRoots, revokedRoots, bySubject,
                     childCertificates>>
  BY DEF RejectAddX509RootCert
<1> HIDE DEF no
<1>4. IsStore(proposedCertificate', CertID, Proposal) /\ IsStore(rejectedCertificate', CertID, Proposal)
  <2>1. /\ IsStore(proposedCertificate, CertID, Proposal)
        /\ IsStore(rejectedCertificate, CertID, Proposal)
    BY <1>1, Zenon DEF TypeOK
  <2>2. /\ IsStore(Put(proposedCertificate, id, no), CertID, Proposal)
        /\ IsStore(Put(rejectedCertificate, id, no), CertID, Proposal)
        /\ IsStore(Delete(proposedCertificate, id), CertID, Proposal)
    BY <1>2, <2>1, PutIsStore, DeleteIsStore, Zenon
  <2>3. QED
    BY <1>3, <2>1, <2>2
<1>5. ProposalsFiled(proposedCertificate')
  BY <1>1, <1>2, <1>3, FiledProposals DEF ProposalsFiled, Put, Delete
<1>6. uniqueCertificate' \subseteq Subject \X Nat
  <2>1. uniqueCertificate \subseteq Subject \X Nat
    BY <1>1, Zenon DEF TypeOK
  <2>2. QED
    BY <1>3, <2>1
<1>7. TypeOK'
  BY <1>1, <1>3, <1>4, <1>5, <1>6, Zenon DEF TypeOK, ProposalsFiled, lists
<1>8. ListInv' /\ RevocationHasRoot'
  BY <1>3, SameLists, SameRevocations DEF PkiInv, lists
<1>9. QED
  BY <1>7, <1>8 DEF PkiInv

\* A vote for a proposal; the last one adds the root to the list, behind
\* whatever has been added to it meanwhile.
LEMMA ApproveRootKeeps ==
  ASSUME PkiInv, NEW signer \in Address, NEW id \in CertID, ApproveAddX509RootCert(signer, id)
  PROVE  PkiInv'
<1> DEFINE yes == [proposedCertificate[id] EXCEPT !.approvals = Append(@, signer)]
<1>1. TypeOK /\ id \in DOMAIN proposedCertificate
  BY DEF PkiInv, ApproveAddX509RootCert, CanVote
<1>2. /\ yes \in Proposal /\ yes.cert \in Certificate /\ yes.owner \in Address
      /\ yes.cert.id = id /\ IsSelfSigned(yes.cert)
  BY <1>1, VotedProposal
<1>4. UNCHANGED <<trustees, rejectedCertificate, proposedRevocation, revokedCertificates,
                  revokedRoots, childCertificates, uniqueCertificate>>
  BY DEF ApproveAddX509RootCert
<1>5. \/ /\ AddApprovedCertificate(yes.cert, yes.owner)
         /\ proposedCertificate' = Delete(proposedCertificate, id)
         /\ AddApprovedRootCertificate(id)
         /\ AddApprovedCertificateBySubject(id)
      \/ /\ proposedCertificate' = Put(proposedCertificate, id, yes)
         /\ UNCHANGED <<approvedCertificates, approvedRoots, bySubject>>
  BY DEF ApproveAddX509RootCert
<1> HIDE DEF yes
<1>6. IsStore(proposedCertificate', CertID, Proposal)
  <2>1. IsStore(proposedCertificate, CertID, Proposal)
    BY <1>1 DEF TypeOK
  <2>2. /\ IsStore(Put(proposedCertificate, id, yes), CertID, Proposal)
        /\ IsStore(Delete(proposedCertificate, id), CertID, Proposal)
    BY <1>2, <2>1, PutIsStore, DeleteIsStore, Zenon
  <2>3. QED
    BY <1>5, <2>2
<1>7. ProposalsFiled(proposedCertificate')
  BY <1>1, <1>2, <1>5, FiledProposals DEF ProposalsFiled, Put, Delete
<1>8. CASE /\ AddApprovedCertificate(yes.cert, yes.owner)
           /\ AddApprovedRootCertificate(id)
           /\ AddApprovedCertificateBySubject(id)
  <2>1. /\ IsStore(approvedCertificates', CertID, Seq(Entry) \ {<<>>})
        /\ IsStore(bySubject', Subject, SUBSET KeyID)
        /\ ChildIndex' /\ SubjectIndex' /\ Filed' /\ OneIssuer' /\ IssuerApproved'
        /\ \A i \in CertID : HasRoot(approvedCertificates', i) <=>
             HasRoot(approvedCertificates, i) \/ i = id
    BY <1>2, <1>4, <1>8, AddKeeps, Zenon
  <2>2. approvedRoots' = approvedRoots \cup {id}
    BY <1>8 DEF AddApprovedRootCertificate
  <2>3. RootIndexes'
    <3>1. RootIndexes
      BY Zenon DEF PkiInv, ListInv
    <3>2. \A i \in CertID : HasRoot(approvedCertificates', i) =>
            HasRoot(approvedCertificates, i) \/ i = id
      BY <2>1, Zenon
    <3>3. QED
      BY <1>4, <2>2, <3>1, <3>2, Zenon DEF RootIndexes
  <2>4. RevocationHasRoot'
    <3>1. \A i \in DOMAIN approvedCertificates :
            i \in DOMAIN approvedCertificates' /\ approvedCertificates'[i][1] = approvedCertificates[i][1]
      BY <1>1, <1>2, <1>8, ListsAfter, Zenon
    <3>2. QED
      BY <1>4, <2>2, <3>1 DEF PkiInv, RevocationHasRoot, FirstIsRoot
  <2>5. TypeOK'
    BY <1>1, <1>4, <1>6, <1>7, <2>1, <2>2, Zenon DEF TypeOK, ProposalsFiled
  <2>6. QED
    BY <2>1, <2>3, <2>4, <2>5 DEF PkiInv, ListInv
<1>9. CASE UNCHANGED <<approvedCertificates, approvedRoots, bySubject>>
  <2>1. TypeOK'
    BY <1>1, <1>4, <1>6, <1>7, <1>9, Zenon DEF TypeOK, ProposalsFiled
  <2>2. ListInv' /\ RevocationHasRoot'
    BY <1>4, <1>9, SameLists, SameRevocations DEF PkiInv
  <2>3. QED
    BY <2>1, <2>2 DEF PkiInv
<1>10. QED
  BY <1>5, <1>8, <1>9

\* A revocation is proposed of a list that starts with a root.
LEMMA ProposeRevocationKeeps ==
  ASSUME PkiInv, NEW signer \in Address, NEW id \in CertID, ProposeRevokeX509RootCert(signer, id)
  PROVE  PkiInv'
<1>1. /\ TypeOK /\ id \in DOMAIN approvedCertificates /\ FirstIsRoot(id)
      /\ proposedRevocation' = Put(proposedRevocation, id, <<signer>>)
      /\ UNCHANGED <<trustees, proposedCertificate, rejectedCertificate, lists, indexes>>
  BY DEF PkiInv, ProposeRevokeX509RootCert
<1>2. IsStore(proposedRevocation', CertID, Seq(Address))
  <2>1. <<signer>> \in Seq(Address)
    OBVIOUS
  <2>2. IsStore(proposedRevocation, CertID, Seq(Address))
    BY <1>1, Zenon DEF TypeOK
  <2>3. QED
    BY <1>1, <2>1, <2>2, PutIsStore, Zenon
<1>3. TypeOK'
  BY <1>1, <1>2, Zenon DEF TypeOK, lists, indexes
<1>4. id \in approvedRoots
  <2>1. approvedCertificates[id][1] \in Range(approvedCertificates[id])
    BY <1>1, FirstInList
  <2>2. HasRoot(approvedCertificates, id)
    BY <1>1, <2>1, Zenon DEF HasRoot, FirstIsRoot
  <2>3. QED
    BY <2>2 DEF PkiInv, ListInv, RootIndexes
<1>5. RevocationHasRoot'
  <2>1. UNCHANGED <<approvedCertificates, approvedRoots>>
    BY <1>1 DEF lists, indexes
  <2>2. DOMAIN proposedRevocation' = DOMAIN proposedRevocation \cup {id}
    BY <1>1 DEF Put
  <2>3. RevocationHasRoot
    BY DEF PkiInv
  <2>4. QED
    BY <1>1, <1>4, <2>1, <2>2, <2>3, Zenon DEF RevocationHasRoot, FirstIsRoot
<1>6. ListInv'
  BY <1>1, SameLists DEF PkiInv, lists, indexes
<1>7. QED
  BY <1>3, <1>5, <1>6 DEF PkiInv

\* A list that starts with a root is revoked alone or stays: it is below no
\* other.
LEMMA RootsStay ==
  ASSUME PkiInv, NEW id \in DOMAIN approvedCertificates,
         NEW other \in DOMAIN approvedCertificates, FirstIsRoot(other), other # id
  PROVE  other \notin Descendants(id)
<1>1. TypeOK /\ id \in CertID /\ other \in CertID
  BY FirstInList DEF PkiInv
<1>2. SUFFICES ASSUME other \in Descendants(id) PROVE FALSE
  OBVIOUS
<1>3. PICK q \in {id} \cup Descendants(id) : other \in Children(q)
  BY <1>1, <1>2, DescendantHasParent
<1>4. q \in CertID
  BY <1>1, DescendantsClosed
<1>5. QED
  BY <1>1, <1>3, <1>4, OnlyParent

\* The root indexes and the open revocations after a revocation, of which
\* the lists of approved and revoked roots tell that it was one of a root.
LEMMA RevokedRootIndexes ==
  ASSUME PkiInv, NEW id \in DOMAIN approvedCertificates, NEW ids,
         ids = {id} \cup Descendants(id), MoveToRevoked(ids),
         \/ /\ FirstIsRoot(id)
            /\ proposedRevocation' = Delete(proposedRevocation, id)
            /\ approvedRoots' = approvedRoots \ {id}
            /\ revokedRoots' = revokedRoots \cup {id}
         \/ /\ ~FirstIsRoot(id)
            /\ UNCHANGED <<proposedRevocation, approvedRoots, revokedRoots>>
  PROVE  RootIndexes' /\ RevocationHasRoot'
<1>1. TypeOK /\ id \in ids /\ id \in CertID
  BY FirstInList DEF PkiInv
<1>2. /\ DOMAIN approvedCertificates' = DOMAIN approvedCertificates \ ids
      /\ \A i \in DOMAIN approvedCertificates' : approvedCertificates'[i] = approvedCertificates[i]
  BY DEF MoveToRevoked, RemoveApprovedCertificates
<1>3. RevocationHasRoot'
  <2>1. ASSUME NEW i \in DOMAIN proposedRevocation'
        PROVE  i \in DOMAIN proposedRevocation /\ i # id
    <3>1. CASE FirstIsRoot(id) /\ proposedRevocation' = Delete(proposedRevocation, id)
      BY <2>1, <3>1 DEF Delete
    <3>2. CASE ~FirstIsRoot(id) /\ UNCHANGED proposedRevocation
      BY <2>1, <3>2 DEF PkiInv, RevocationHasRoot
    <3>3. QED
      BY <3>1, <3>2
  <2>2. ASSUME NEW i \in DOMAIN proposedRevocation'
        PROVE  i \in DOMAIN approvedCertificates' /\ FirstIsRoot(i)' /\ i \in approvedRoots'
    <3>1. /\ i \in DOMAIN approvedCertificates /\ FirstIsRoot(i) /\ i \in approvedRoots
          /\ i # id
      BY <2>1 DEF PkiInv, RevocationHasRoot
    <3>2. i \notin ids
      BY <3>1, RootsStay
    <3>3. QED
      BY <1>2, <3>1, <3>2 DEF FirstIsRoot
  <2>3. QED
    BY <2>2 DEF RevocationHasRoot
<1>4. \A i \in CertID : HasRoot(approvedCertificates', i) =>
        HasRoot(approvedCertificates, i) /\ i # id
  BY <1>1, <1>2 DEF HasRoot
<1>5. ASSUME NEW i \in CertID
      PROVE  /\ HasRoot(revokedCertificates, i) => HasRoot(revokedCertificates', i)
             /\ FirstIsRoot(id) => HasRoot(revokedCertificates', id)
  <2>1. \A j \in CertID : ListOf(approvedCertificates, j) \in Seq(Entry)
                          /\ ListOf(revokedCertificates, j) \in Seq(Entry)
    BY <1>1 DEF TypeOK, IsStore, ListOf
  <2>2. /\ DOMAIN revokedCertificates' = DOMAIN revokedCertificates \cup ids
        /\ \A j \in DOMAIN revokedCertificates' : revokedCertificates'[j] =
             ListOf(revokedCertificates, j)
               \o (IF j \in ids THEN ListOf(approvedCertificates, j) ELSE <<>>)
    BY DEF MoveToRevoked, AddRevokedCertificates
  <2>3. \A j \in DOMAIN revokedCertificates' \cap CertID :
          /\ Range(ListOf(revokedCertificates, j)) \subseteq Range(revokedCertificates'[j])
          /\ j \in ids => Range(ListOf(approvedCertificates, j)) \subseteq Range(revokedCertificates'[j])
    <3> TAKE j \in DOMAIN revokedCertificates' \cap CertID
    <3> DEFINE added == IF j \in ids THEN ListOf(approvedCertificates, j) ELSE <<>>
    <3>1. /\ added \in Seq(Entry) /\ ListOf(revokedCertificates, j) \in Seq(Entry)
          /\ j \in ids => added = ListOf(approvedCertificates, j)
      BY <2>1
    <3>2. revokedCertificates'[j] = ListOf(revokedCertificates, j) \o added
      BY <2>2
    <3> HIDE DEF added
    <3>3. Range(revokedCertificates'[j]) = Range(ListOf(revokedCertificates, j)) \cup Range(added)
      BY <3>1, <3>2, RangeConcat
    <3>4. QED
      BY <3>1, <3>3
  <2>4. HasRoot(revokedCertificates, i) => HasRoot(revokedCertificates', i)
    BY <2>2, <2>3 DEF HasRoot, ListOf
  <2>5. ASSUME FirstIsRoot(id) PROVE HasRoot(revokedCertificates', id)
    <3>1. approvedCertificates[id][1] \in Range(ListOf(approvedCertificates, id))
      BY <1>1, FirstInList DEF ListOf
    <3>2. QED
      BY <1>1, <2>2, <2>3, <2>5, <3>1 DEF HasRoot, FirstIsRoot
  <2>6. QED
    BY <2>4, <2>5
<1>6. RootIndexes'
  <2>1. ASSUME NEW i \in CertID
        PROVE  /\ HasRoot(approvedCertificates', i) => i \in approvedRoots'
               /\ i \in revokedRoots' => HasRoot(revokedCertificates', i)
    <3>1. /\ HasRoot(approvedCertificates, i) => i \in approvedRoots
          /\ i \in revokedRoots => HasRoot(revokedCertificates, i)
      BY DEF PkiInv, ListInv, RootIndexes
    <3>2. QED
      BY <1>4, <1>5, <3>1
  <2>2. QED
    BY <2>1 DEF RootIndexes
<1>7. QED
  BY <1>3, <1>6

\* A vote for a revocation; the last one revokes the list and all below it.
LEMMA ApproveRevocationKeeps ==
  ASSUME PkiInv, NEW signer \in Address, NEW id \in CertID, ApproveRevokeX509RootCert(signer, id)
  PROVE  PkiInv'
<1> DEFINE approvals == Append(proposedRevocation[id], signer)
           ids == {id} \cup Descendants(id)
<1>1. TypeOK /\ id \in DOMAIN proposedRevocation
  BY DEF PkiInv, ApproveRevokeX509RootCert
<1>2. id \in DOMAIN approvedCertificates /\ FirstIsRoot(id)
  BY <1>1 DEF PkiInv, RevocationHasRoot
<1>3. UNCHANGED <<trustees, proposedCertificate, rejectedCertificate, uniqueCertificate>>
  BY DEF ApproveRevokeX509RootCert
<1>4. \/ /\ RevokeWithChildren(id, childCertificates)
         /\ proposedRevocation' = Delete(proposedRevocation, id)
         /\ RemoveApprovedRootCertificate(id)
         /\ AddRevokedRootCertificate(id)
      \/ /\ proposedRevocation' = Put(proposedRevocation, id, approvals)
         /\ UNCHANGED <<lists, approvedRoots, revokedRoots, bySubject, childCertificates>>
  BY DEF ApproveRevokeX509RootCert
<1>5. IsStore(proposedRevocation', CertID, Seq(Address))
  <2>1. IsStore(proposedRevocation, CertID, Seq(Address))
    BY <1>1, Zenon DEF TypeOK
  <2>2. approvals \in Seq(Address)
    BY <1>1, <2>1 DEF IsStore
  <2> HIDE DEF approvals
  <2>3. /\ IsStore(Put(proposedRevocation, id, approvals), CertID, Seq(Address))
        /\ IsStore(Delete(proposedRevocation, id), CertID, Seq(Address))
    BY <2>1, <2>2, PutIsStore, DeleteIsStore, Zenon
  <2>4. QED
    BY <1>4, <2>3
<1>6. CASE /\ RevokeWithChildren(id, childCertificates)
           /\ proposedRevocation' = Delete(proposedRevocation, id)
           /\ RemoveApprovedRootCertificate(id)
           /\ AddRevokedRootCertificate(id)
  <2>1. /\ MoveToRevoked(ids)
        /\ childCertificates' = Others(childCertificates, ids)
        /\ approvedRoots' = approvedRoots \ {id} /\ revokedRoots' = revokedRoots \cup {id}
    BY <1>6, Zenon DEF RevokeWithChildren, RemoveApprovedRootCertificate,
                       AddRevokedRootCertificate, Others
  <2> HIDE DEF ids
  <2>2. IndexAfter(ids)
    BY <1>2, <2>1, ChildrenAfter, Zenon DEF ids
  <2>3. /\ IsStore(approvedCertificates', CertID, Seq(Entry) \ {<<>>})
        /\ IsStore(revokedCertificates', CertID, Seq(Entry) \ {<<>>})
        /\ IsStore(bySubject', Subject, SUBSET KeyID)
        /\ ChildIndex' /\ SubjectIndex' /\ Filed' /\ OneIssuer' /\ IssuerApproved'
    BY <1>2, <2>1, <2>2, RevokeKeeps, Zenon DEF ids
  <2>4. RootIndexes' /\ RevocationHasRoot'
    BY <1>2, <1>6, <2>1, RevokedRootIndexes, Zenon DEF ids
  <2>5. approvedRoots' \subseteq CertID /\ revokedRoots' \subseteq CertID
    <3>1. approvedRoots \subseteq CertID /\ revokedRoots \subseteq CertID
      BY <1>1, Zenon DEF TypeOK
    <3>2. QED
      BY <2>1, <3>1
  <2>6. TypeOK'
    BY <1>1, <1>3, <1>5, <2>2, <2>3, <2>5, Zenon DEF TypeOK, IndexAfter
  <2>7. QED
    BY <2>3, <2>4, <2>6 DEF PkiInv, ListInv
<1>7. CASE /\ proposedRevocation' = Put(proposedRevocation, id, approvals)
           /\ UNCHANGED <<lists, approvedRoots, revokedRoots, bySubject, childCertificates>>
  <2>1. UNCHANGED <<approvedCertificates, revokedCertificates, approvedRoots, revokedRoots,
                    bySubject, childCertificates>>
    BY <1>7 DEF lists
  <2>2. ListInv'
    BY <2>1, SameLists DEF PkiInv
  <2>3. DOMAIN proposedRevocation' = DOMAIN proposedRevocation
    BY <1>1, <1>7 DEF Put
  <2>4. RevocationHasRoot'
    BY <2>1, <2>3, Zenon DEF PkiInv, RevocationHasRoot, FirstIsRoot
  <2>5. TypeOK'
    BY <1>1, <1>3, <1>5, <2>1, Zenon DEF TypeOK
  <2>6. QED
    BY <2>2, <2>4, <2>5 DEF PkiInv
<1>8. QED
  BY <1>4, <1>6, <1>7

\* The owner revokes a list that does not start with a root.
LEMMA RevokeKeepsInv ==
  ASSUME PkiInv, NEW signer \in Owner, NEW id \in CertID, RevokeX509Cert(signer, id)
  PROVE  PkiInv'
<1> DEFINE ids == {id} \cup Descendants(id)
           children == RemoveChildCertificate(approvedCertificates[id][1].cert.issuer, id)
<1>1. TypeOK /\ id \in DOMAIN approvedCertificates /\ ~FirstIsRoot(id)
  BY DEF PkiInv, RevokeX509Cert, CanRevoke
<1>2. /\ MoveToRevoked(ids)
      /\ childCertificates' = Others(children, ids)
      /\ UNCHANGED <<trustees, votes, approvedRoots, revokedRoots, uniqueCertificate>>
  BY Zenon DEF RevokeX509Cert, RevokeWithChildren, Others
<1>3. UNCHANGED <<proposedCertificate, rejectedCertificate, proposedRevocation>>
  BY <1>2 DEF votes
<1> HIDE DEF ids, children
<1>4. IndexAfter(ids)
  BY <1>1, <1>2, ChildrenAfter, Zenon DEF ids, children
<1>5. /\ IsStore(approvedCertificates', CertID, Seq(Entry) \ {<<>>})
      /\ IsStore(revokedCertificates', CertID, Seq(Entry) \ {<<>>})
      /\ IsStore(bySubject', Subject, SUBSET KeyID)
      /\ ChildIndex' /\ SubjectIndex' /\ Filed' /\ OneIssuer' /\ IssuerApproved'
  BY <1>1, <1>2, <1>4, RevokeKeeps, Zenon DEF ids
<1>6. RootIndexes' /\ RevocationHasRoot'
  BY <1>1, <1>2, <1>3, RevokedRootIndexes, Zenon DEF ids
<1>7. TypeOK'
  BY <1>1, <1>2, <1>3, <1>4, <1>5, Zenon DEF TypeOK, IndexAfter
<1>8. QED
  BY <1>5, <1>6, <1>7 DEF PkiInv, ListInv

\* A certificate that is not a root is added below its issuer.
LEMMA AddCertKeeps ==
  ASSUME PkiInv, NEW signer \in Owner, NEW cert \in Certificate, AddX509Cert(signer, cert)
  PROVE  PkiInv'
<1>1. TypeOK /\ signer \in Address /\ ~IsSelfSigned(cert)
  BY AddressAssumption DEF PkiInv, AddX509Cert, CanAdd
<1>2. cert.issuer \in DOMAIN approvedCertificates
  BY <1>1, AnchoredApproved DEF AddX509Cert, CanAdd, Verified
<1>3. cert.id \in DOMAIN approvedCertificates =>
        approvedCertificates[cert.id][1].cert.issuer = cert.issuer
  BY DEF AddX509Cert, CanAdd
<1>4. /\ AddApprovedCertificate(cert, signer) /\ AddChildCertificate(cert.issuer, cert.id)
      /\ AddApprovedCertificateBySubject(cert.id)
      /\ uniqueCertificate' = uniqueCertificate \cup {UniqueKey(cert)}
      /\ UNCHANGED <<trustees, votes, revokedCertificates, approvedRoots, revokedRoots>>
  BY DEF AddX509Cert
<1>5. UNCHANGED <<proposedCertificate, rejectedCertificate, proposedRevocation>>
  BY <1>4 DEF votes
<1>6. /\ IsStore(approvedCertificates', CertID, Seq(Entry) \ {<<>>})
      /\ IsStore(bySubject', Subject, SUBSET KeyID)
      /\ IsStore(childCertificates', CertID, SUBSET CertID)
      /\ ChildIndex' /\ SubjectIndex' /\ Filed' /\ OneIssuer' /\ IssuerApproved'
      /\ \A i \in CertID : HasRoot(approvedCertificates', i) <=>
           HasRoot(approvedCertificates, i) \/ (i = cert.id /\ IsSelfSigned(cert))
  BY <1>1, <1>2, <1>3, <1>4, AddKeeps, Zenon
<1>7. RootIndexes'
  <2>1. \A i \in CertID : HasRoot(approvedCertificates', i) => HasRoot(approvedCertificates, i)
    BY <1>1, <1>6
  <2>2. QED
    BY <1>4, <2>1, Zenon DEF PkiInv, ListInv, RootIndexes, HasRoot
<1>8. RevocationHasRoot'
  <2>1. \A i \in DOMAIN approvedCertificates :
          i \in DOMAIN approvedCertificates' /\ approvedCertificates'[i][1] = approvedCertificates[i][1]
    BY <1>1, <1>4, ListsAfter, Zenon
  <2>2. QED
    BY <1>4, <1>5, <2>1, Zenon DEF PkiInv, RevocationHasRoot, FirstIsRoot
<1>9. uniqueCertificate' \subseteq Subject \X Nat
  <2>1. uniqueCertificate \subseteq Subject \X Nat
    BY <1>1, Zenon DEF TypeOK
  <2>2. UniqueKey(cert) \in Subject \X Nat
    BY CertificateAssumption DEF UniqueKey, CertID
  <2>3. QED
    BY <1>4, <2>1, <2>2
<1>10. TypeOK'
  BY <1>1, <1>4, <1>5, <1>6, <1>9, Zenon DEF TypeOK
<1>11. QED
  BY <1>6, <1>7, <1>8, <1>10 DEF PkiInv, ListInv

\* The invariant is inductive.
LEMMA InvStep == PkiInv /\ [Next]_vars => PkiInv'
<1> SUFFICES ASSUME PkiInv, [Next]_vars PROVE PkiInv'
  OBVIOUS
<1>1. ASSUME UNCHANGED <<votes, lists, indexes>>, trustees' \subseteq Address
      PROVE  PkiInv'
  <2>1. /\ UNCHANGED <<proposedCertificate, rejectedCertificate, proposedRevocation>>
        /\ UNCHANGED <<approvedCertificates, revokedCertificates, approvedRoots, revokedRoots,
                       bySubject, childCertificates>>
        /\ UNCHANGED uniqueCertificate
    BY <1>1 DEF votes, lists, indexes
  <2>2. ListInv' /\ RevocationHasRoot'
    BY <2>1, SameLists, SameRevocations DEF PkiInv
  <2>3. TypeOK'
    BY <1>1, <2>1, Zenon DEF PkiInv, TypeOK
  <2>4. QED
    BY <2>2, <2>3 DEF PkiInv
<1>2. trustees \subseteq Address
  BY Zenon DEF PkiInv, TypeOK
<1>3. CASE ChangeTrustees
  <2>1. trustees' \subseteq Address
    BY <1>2, <1>3 DEF ChangeTrustees
  <2>2. QED
    BY <1>1, <1>3, <2>1 DEF ChangeTrustees
<1>4. CASE UNCHANGED vars
  BY <1>1, <1>2, <1>4 DEF vars
<1>5. CASE \E signer \in Owner :
             \/ \E cert \in Certificate : \/ ProposeAddX509RootCert(signer, cert)
                                          \/ AddX509Cert(signer, cert)
             \/ \E id \in CertID : RevokeX509Cert(signer, id)
  BY <1>5, ProposeRootKeeps, AddCertKeeps, RevokeKeepsInv
<1>6. CASE \E signer \in Address, id \in CertID :
             \/ ApproveAddX509RootCert(signer, id)
             \/ RejectAddX509RootCert(signer, id)
             \/ ProposeRevokeX509RootCert(signer, id)
             \/ ApproveRevokeX509RootCert(signer, id)
  BY <1>6, ApproveRootKeeps, RejectRootKeeps, ProposeRevocationKeeps, ApproveRevocationKeeps
<1>7. QED
  BY <1>3, <1>4, <1>5, <1>6 DEF Next

\* In every reachable state.
LEMMA InvCorrect == Spec => []PkiInv
BY InvInit, InvStep, PTL DEF Spec

\* The stores of x/pki keep their types, and no list of certificates is
\* empty, whatever the handlers add and revoke.
THEOREM TypeCorrect == Spec => []TypeOK
BY InvCorrect, PTL DEF PkiInv

\* The child index, the subject index and the lists of root certificates that
\* the handlers change by hand agree with the lists of certificates.
THEOREM IndexesCorrect == Spec => []IndexesAgree
<1>1. PkiInv => IndexesAgree
  BY IndexParts DEF PkiInv, ListInv
<1>2. QED
  BY <1>1, InvCorrect, PTL

\* While the Trustees vote on a revocation the list stays approved and starts
\* with a root: no revocation of another certificate takes it away
\* (ApproveRevokeX509RootCert finds what it revokes).
THEOREM RevocationCorrect == Spec => []RevocationHasRoot
BY InvCorrect, PTL DEF PkiInv

-----------------------------------------------------------------------------
(* No certificate is below itself. *)

\* Fewer children, fewer descendants.
LEMMA FewerDescendants ==
  ASSUME \A p \in CertID : Children(p)' \subseteq Children(p), NEW id \in CertID
  PROVE  Descendants(id)' \subseteq Descendants(id)
<1>1. ASSUME NEW S \in SUBSET CertID, ClosedUnderChildren(S)
      PROVE  ClosedUnderChildren(S)'
  BY <1>1 DEF ClosedUnderChildren
<1>2. \A S \in SUBSET CertID : Children(id) \subseteq S => Children(id)' \subseteq S
  OBVIOUS
<1>3. QED
  BY <1>1, <1>2, Zenon DEF Descendants

\* A new identifier has no descendants, and is in the way of no other.
LEMMA LeafMakesNoCycle ==
  ASSUME PkiInv, NoCycle, NEW leaf \in CertID, NEW issuer \in CertID,
         leaf # issuer, leaf \notin DOMAIN approvedCertificates,
         \A p \in CertID : Children(p)' =
           IF p = issuer THEN Children(issuer) \cup {leaf} ELSE Children(p)
  PROVE  NoCycle'
<1>1. TypeOK
  BY DEF PkiInv
<1>2. Children(leaf)' = {}
  BY <1>1, OnlyParent, ChildrenType
<1>3. ASSUME NEW id \in CertID, NEW S \in SUBSET CertID,
             (Children(id) \subseteq S)', ClosedUnderChildren(S)', id \notin S
      PROVE  id \notin Descendants(id)'
  BY <1>3 DEF Descendants
<1>4. leaf \notin Descendants(leaf)'
  <2>1. ClosedUnderChildren({})'
    BY DEF ClosedUnderChildren
  <2>2. QED
    BY <1>2, <1>3, <2>1
<1>5. ASSUME NEW id \in CertID, id # leaf
      PROVE  id \notin Descendants(id)'
  <2>1. PICK S : S = Descendants(id) \cup {leaf}
    BY Zenon
  <2>2. id \notin S
    BY <1>5, <2>1 DEF NoCycle
  <2>3. S \in SUBSET CertID /\ Children(id)' \subseteq S
    BY <1>1, <2>1, DescendantsClosed
  <2>4. \A p \in S : Children(p)' \subseteq S
    BY <1>1, <1>2, <2>1, DescendantsClosed DEF ClosedUnderChildren
  <2>5. ClosedUnderChildren(S)'
    BY <2>4 DEF ClosedUnderChildren
  <2>6. QED
    BY <1>3, <2>2, <2>3, <2>5
<1>6. QED
  BY <1>4, <1>5 DEF NoCycle

\* What was in the list of a certificate that is added to it.
LEMMA NewOrListed ==
  ASSUME PkiInv, NEW signer, NEW cert \in Certificate, AddX509Cert(signer, cert),
         cert.id \in DOMAIN approvedCertificates
  PROVE  cert.id \in Children(cert.issuer)
<1>1. TypeOK /\ cert.id \in CertID /\ cert.issuer \in CertID
  BY CertificateAssumption DEF PkiInv
<1>2. /\ ~FirstIsRoot(cert.id)
      /\ approvedCertificates[cert.id][1].cert.issuer = cert.issuer
  BY DEF AddX509Cert, CanAdd
<1>3. Below(cert.id, cert.issuer)
  BY <1>1, <1>2, FirstInList DEF Below, FirstIsRoot
<1>4. QED
  BY <1>1, <1>3 DEF PkiInv, ListInv, ChildIndex

\* What the handlers do to the child index: nothing, take away, or add one
\* identifier, which is a new one or there already.
LEMMA ChildrenStep ==
  ASSUME PkiInv, [Next]_vars
  PROVE  \/ \A p \in CertID : Children(p)' \subseteq Children(p)
         \/ \E leaf, issuer \in CertID :
              /\ leaf # issuer /\ leaf \notin DOMAIN approvedCertificates
              /\ \A p \in CertID : Children(p)' =
                   IF p = issuer THEN Children(issuer) \cup {leaf} ELSE Children(p)
<1> DEFINE Goal == \/ \A p \in CertID : Children(p)' \subseteq Children(p)
                   \/ \E leaf, issuer \in CertID :
                        /\ leaf # issuer /\ leaf \notin DOMAIN approvedCertificates
                        /\ \A p \in CertID : Children(p)' =
                             IF p = issuer THEN Children(issuer) \cup {leaf} ELSE Children(p)
<1>1. ASSUME UNCHANGED childCertificates PROVE Goal
  BY <1>1 DEF Children
<1>2. ASSUME NEW ids, IndexAfter(ids) PROVE Goal
  BY <1>2 DEF IndexAfter
<1>3. ASSUME NEW signer \in Owner, NEW cert \in Certificate, AddX509Cert(signer, cert)
      PROVE  Goal
  <2>1. /\ cert.id \in CertID /\ cert.issuer \in CertID /\ cert.id # cert.issuer
    BY <1>3, CertificateAssumption, SMTT(30) DEF AddX509Cert, CanAdd, IsSelfSigned
  <2>2. \A p \in CertID : Children(p)' =
          IF p = cert.issuer THEN Children(cert.issuer) \cup {cert.id} ELSE Children(p)
    BY <1>3 DEF AddX509Cert, AddChildCertificate, Children, Put
  <2>3. CASE cert.id \in DOMAIN approvedCertificates
    <3>1. cert.id \in Children(cert.issuer)
      BY <1>3, <2>3, NewOrListed
    <3>2. QED
      BY <2>2, <3>1
  <2>4. CASE cert.id \notin DOMAIN approvedCertificates
    BY <2>1, <2>2, <2>4
  <2>5. QED
    BY <2>3, <2>4
<1>4. ASSUME NEW id \in CertID, id \in DOMAIN approvedCertificates, NEW children,
             \/ children = childCertificates /\ FirstIsRoot(id)
             \/ children = RemoveChildCertificate(approvedCertificates[id][1].cert.issuer, id),
             RevokeWithChildren(id, children)
      PROVE  Goal
  <2>1. childCertificates' = Others(children, {id} \cup Descendants(id))
    BY <1>4, Zenon DEF RevokeWithChildren, Others
  <2>2. IndexAfter({id} \cup Descendants(id))
    BY <1>4, <2>1, ChildrenAfter, Zenon
  <2>3. QED
    BY <2>2 DEF IndexAfter
<1>5. ASSUME NEW signer \in Owner, NEW id \in CertID, RevokeX509Cert(signer, id) PROVE Goal
  BY <1>4, <1>5, Zenon DEF RevokeX509Cert, CanRevoke
<1>6. ASSUME NEW signer \in Address, NEW id \in CertID, ApproveRevokeX509RootCert(signer, id)
      PROVE  Goal
  <2>1. FirstIsRoot(id) /\ id \in DOMAIN approvedCertificates
    BY <1>6 DEF PkiInv, RevocationHasRoot, ApproveRevokeX509RootCert
  <2>2. RevokeWithChildren(id, childCertificates) \/ UNCHANGED childCertificates
    BY <1>6, Zenon DEF ApproveRevokeX509RootCert
  <2>3. QED
    BY <1>1, <1>4, <2>1, <2>2, Zenon
<1>7. ASSUME NEW signer, NEW x,
             \/ ProposeAddX509RootCert(signer, x) \/ ApproveAddX509RootCert(signer, x)
             \/ RejectAddX509RootCert(signer, x) \/ ProposeRevokeX509RootCert(signer, x)
      PROVE  Goal
  BY <1>1, <1>7, Zenon DEF ProposeAddX509RootCert, ApproveAddX509RootCert, RejectAddX509RootCert,
                           ProposeRevokeX509RootCert, indexes
<1>8. ASSUME ChangeTrustees \/ UNCHANGED vars PROVE Goal
  BY <1>1, <1>8 DEF ChangeTrustees, vars, indexes
<1> HIDE DEF Goal
<1>9. ASSUME \E signer \in Owner :
             \/ \E cert \in Certificate : \/ ProposeAddX509RootCert(signer, cert)
                                          \/ AddX509Cert(signer, cert)
             \/ \E id \in CertID : RevokeX509Cert(signer, id)
      PROVE  Goal
  BY <1>3, <1>5, <1>7, <1>9
<1>10. ASSUME \E signer \in Address, id \in CertID :
             \/ ApproveAddX509RootCert(signer, id)
             \/ RejectAddX509RootCert(signer, id)
             \/ ProposeRevokeX509RootCert(signer, id)
             \/ ApproveRevokeX509RootCert(signer, id)
      PROVE  Goal
  BY <1>6, <1>7, <1>10
<1>11. Goal
  BY <1>8, <1>9, <1>10 DEF Next
<1>12. QED
  BY <1>11 DEF Goal

\* The approved identifiers are never below themselves: a certificate is added
\* below an approved issuer when it is new, or below the issuer its list has
\* already (AddX509Cert), and revocation leaves nothing behind.
LEMMA NoCycleStep == PkiInv /\ NoCycle /\ [Next]_vars => NoCycle'
<1> SUFFICES ASSUME PkiInv, NoCycle, [Next]_vars PROVE NoCycle'
  OBVIOUS
<1>1. CASE \A p \in CertID : Children(p)' \subseteq Children(p)
  BY <1>1, FewerDescendants DEF NoCycle
<1>2. ASSUME NEW leaf \in CertID, NEW issuer \in CertID,
             leaf # issuer, leaf \notin DOMAIN approvedCertificates,
             \A p \in CertID : Children(p)' =
               IF p = issuer THEN Children(issuer) \cup {leaf} ELSE Children(p)
      PROVE  NoCycle'
  BY <1>2, LeafMakesNoCycle, Zenon
<1>3. QED
  BY <1>1, <1>2, ChildrenStep, Zenon

\* The recursions of RevokeChildCertificates and verifyCertificate come to an
\* end, in every reachable state: no certificate is below itself.
THEOREM NoCycleCorrect == Spec => []NoCycle
<1>1. Init => NoCycle
  <2> SUFFICES ASSUME Init PROVE NoCycle
    OBVIOUS
  <2>1. \A id : Children(id) = {}
    BY EmptyIsStore DEF Init, Children
  <2>2. ClosedUnderChildren({})
    BY DEF ClosedUnderChildren
  <2>3. QED
    BY <2>1, <2>2 DEF NoCycle, Descendants
<1>2. QED
  BY <1>1, InvCorrect, NoCycleStep, PTL DEF Spec

-----------------------------------------------------------------------------
(* Every chain ends in a root. *)

\* What the handlers do to the approved lists: nothing, add a root or a
\* certificate with a chain, or revoke an identifier with its descendants.
LEMMA ListsStep ==
  ASSUME PkiInv, [Next]_vars
  PROVE  \/ UNCHANGED approvedCertificates
         \/ \E cert \in Certificate, owner \in Address :
              Verified(cert) /\ AddApprovedCertificate(cert, owner)
         \/ \E id \in DOMAIN approvedCertificates : MoveToRevoked({id} \cup Descendants(id))
<1> DEFINE Adds == \E cert \in Certificate, owner \in Address :
                     Verified(cert) /\ AddApprovedCertificate(cert, owner)
           Revokes == \E id \in DOMAIN approvedCertificates :
                        MoveToRevoked({id} \cup Descendants(id))
           Goal == UNCHANGED approvedCertificates \/ Adds \/ Revokes
<1>1. ASSUME NEW signer \in Owner, NEW cert \in Certificate, AddX509Cert(signer, cert)
      PROVE  Goal
  BY <1>1, AddressAssumption, Zenon DEF AddX509Cert, CanAdd
<1>2. ASSUME NEW signer \in Owner, NEW id \in CertID, RevokeX509Cert(signer, id) PROVE Goal
  BY <1>2, Zenon DEF RevokeX509Cert, CanRevoke, RevokeWithChildren
<1>3. ASSUME NEW signer \in Address, NEW id \in CertID, ApproveRevokeX509RootCert(signer, id)
      PROVE  Goal
  <2>1. \/ id \in DOMAIN approvedCertificates /\ RevokeWithChildren(id, childCertificates)
        \/ UNCHANGED lists
    BY <1>3, Zenon DEF ApproveRevokeX509RootCert
  <2>2. QED
    BY <2>1, Zenon DEF RevokeWithChildren, lists
<1>4. ASSUME NEW signer \in Address, NEW id \in CertID, ApproveAddX509RootCert(signer, id)
      PROVE  Goal
  <2> DEFINE yes == [proposedCertificate[id] EXCEPT !.approvals = Append(@, signer)]
  <2>1. TypeOK /\ id \in DOMAIN proposedCertificate
    BY <1>4 DEF PkiInv, ApproveAddX509RootCert, CanVote
  <2>2. yes.cert \in Certificate /\ yes.owner \in Address /\ IsSelfSigned(yes.cert)
    BY <2>1, VotedProposal, ZenonT(60)
  <2>3. AddApprovedCertificate(yes.cert, yes.owner) \/ UNCHANGED approvedCertificates
    BY <1>4 DEF ApproveAddX509RootCert
  <2> HIDE DEF yes
  <2>4. QED
    BY <2>2, <2>3 DEF Verified
<1>5. ASSUME NEW signer, NEW x,
             \/ ProposeAddX509RootCert(signer, x)
             \/ RejectAddX509RootCert(signer, x) \/ ProposeRevokeX509RootCert(signer, x)
      PROVE  Goal
  BY <1>5 DEF ProposeAddX509RootCert, RejectAddX509RootCert, ProposeRevokeX509RootCert, lists
<1>6. ASSUME ChangeTrustees \/ UNCHANGED vars PROVE Goal
  BY <1>6 DEF ChangeTrustees, vars, lists
<1> HIDE DEF Goal
<1>7. ASSUME \E signer \in Owner :
             \/ \E cert \in Certificate : \/ ProposeAddX509RootCert(signer, cert)
                                          \/ AddX509Cert(signer, cert)
             \/ \E id \in CertID : RevokeX509Cert(signer, id)
      PROVE  Goal
  BY <1>1, <1>2, <1>5, <1>7
<1>8. ASSUME \E signer \in Address, id \in CertID :
             \/ ApproveAddX509RootCert(signer, id)
             \/ RejectAddX509RootCert(signer, id)
             \/ ProposeRevokeX509RootCert(signer, id)
             \/ ApproveRevokeX509RootCert(signer, id)
      PROVE  Goal
  BY <1>3, <1>4, <1>5, <1>8
<1>9. Goal
  BY <1>6, <1>7, <1>8 DEF Next
<1>10. QED
  BY <1>9, Zenon DEF Goal

\* With a certificate more, a set that is closed was closed before; so the
\* issuer is in it, and the identifier.
LEMMA AddKeepsChains ==
  ASSUME PkiInv, EveryChainEndsInRoot, NEW cert \in Certificate, NEW owner \in Address,
         Verified(cert), AddApprovedCertificate(cert, owner)
  PROVE  DOMAIN approvedCertificates' \subseteq Anchored'
<1> DEFINE new == [cert |-> cert, owner |-> owner]
<1>1. /\ cert.id \in CertID /\ DOMAIN approvedCertificates \subseteq CertID
      /\ DOMAIN approvedCertificates' = DOMAIN approvedCertificates \cup {cert.id}
      /\ \A i \in DOMAIN approvedCertificates :
           i # cert.id => approvedCertificates'[i] = approvedCertificates[i]
      /\ Range(approvedCertificates'[cert.id]) =
           Range(ListOf(approvedCertificates, cert.id)) \cup {new}
  <2>1. TypeOK
    BY DEF PkiInv
  <2>2. QED
    BY <2>1, FirstInList, ListsAfter, Zenon
<1>2. new.cert = cert
  OBVIOUS
<1> HIDE DEF new
<1>3. \A i \in DOMAIN approvedCertificates : \A e \in Range(approvedCertificates[i]) :
        i \in DOMAIN approvedCertificates' /\ e \in Range(approvedCertificates'[i])
  BY <1>1 DEF ListOf
<1>4. ASSUME NEW S \in SUBSET CertID, ClosedUnderSigning(S)'
      PROVE  DOMAIN approvedCertificates' \subseteq S
  <2>1. ClosedUnderSigning(S)
    BY <1>3, <1>4, Zenon DEF ClosedUnderSigning
  <2>2. DOMAIN approvedCertificates \subseteq S
    BY <2>1 DEF EveryChainEndsInRoot, Anchored
  <2>3. IsSelfSigned(cert) \/ cert.issuer \in S
    BY <2>2 DEF Verified, EveryChainEndsInRoot
  <2>4. cert.id \in DOMAIN approvedCertificates' /\ new \in Range(approvedCertificates'[cert.id])
    BY <1>1
  <2>5. cert.id \in S
    BY <1>2, <1>4, <2>3, <2>4, Zenon DEF ClosedUnderSigning
  <2>6. QED
    BY <1>1, <2>2, <2>5
<1>5. QED
  BY <1>1, <1>4 DEF Anchored

\* With what was revoked added to it, a set that is closed afterwards was
\* closed before: nothing that is left has its issuer among the revoked.
LEMMA RevokeKeepsChains ==
  ASSUME PkiInv, EveryChainEndsInRoot, NEW id \in DOMAIN approvedCertificates, NEW ids,
         ids = {id} \cup Descendants(id), MoveToRevoked(ids)
  PROVE  DOMAIN approvedCertificates' \subseteq Anchored'
<1>1. TypeOK
  BY DEF PkiInv
<1>2. /\ DOMAIN approvedCertificates \subseteq CertID
      /\ DOMAIN approvedCertificates' = DOMAIN approvedCertificates \ ids
      /\ \A i \in DOMAIN approvedCertificates' : approvedCertificates'[i] = approvedCertificates[i]
  BY <1>1, FirstInList DEF MoveToRevoked, RemoveApprovedCertificates
<1>3. ids \subseteq DOMAIN approvedCertificates /\ \A p \in ids : Children(p) \subseteq ids
  <2>1. Subtree(id, ids)
    BY RevokedTogether, Zenon
  <2>2. QED
    BY <2>1, Zenon DEF Subtree
<1>4. ASSUME NEW i \in DOMAIN approvedCertificates, i \notin ids,
             NEW e \in Range(approvedCertificates[i]), ~IsSelfSigned(e.cert)
      PROVE  e.cert.issuer \notin ids
  <2>1. i \in CertID /\ e.cert.issuer \in CertID
    <3>1. e \in Entry /\ i \in CertID
      BY <1>1, FirstInList
    <3>2. QED
      BY <3>1, CertificateAssumption DEF Entry
  <2>2. i \in Children(e.cert.issuer)
    BY <1>4, <2>1, Zenon DEF PkiInv, ListInv, ChildIndex, Below
  <2>3. QED
    BY <1>3, <1>4, <2>2
<1>5. ASSUME NEW S \in SUBSET CertID, ClosedUnderSigning(S)'
      PROVE  DOMAIN approvedCertificates' \subseteq S
  <2> DEFINE T == S \cup ids
  <2>1. ASSUME NEW i \in DOMAIN approvedCertificates, NEW e \in Range(approvedCertificates[i]),
               IsSelfSigned(e.cert) \/ e.cert.issuer \in T
        PROVE  i \in T
    <3>1. CASE i \in ids
      BY <3>1
    <3>2. CASE i \notin ids
      <4>1. IsSelfSigned(e.cert) \/ e.cert.issuer \in S
        BY <1>4, <2>1, <3>2
      <4>2. i \in DOMAIN approvedCertificates' /\ e \in Range(approvedCertificates'[i])
        BY <1>2, <3>2
      <4>3. i \in S
        BY <1>5, <4>1, <4>2, Zenon DEF ClosedUnderSigning
      <4>4. QED
        BY <4>3
    <3>3. QED
      BY <3>1, <3>2
  <2>2. T \in SUBSET CertID /\ DOMAIN approvedCertificates = Anchored
    BY <1>2, <1>3 DEF EveryChainEndsInRoot
  <2> HIDE DEF T
  <2>3. ClosedUnderSigning(T)
    BY <2>1, Zenon DEF ClosedUnderSigning
  <2>4. DOMAIN approvedCertificates \subseteq T
    BY <2>2, <2>3, Zenon DEF Anchored
  <2>5. QED
    BY <1>2, <2>4 DEF T
<1>6. QED
  BY <1>2, <1>5 DEF Anchored

\* No step leaves a certificate without its chain.
LEMMA ChainsStep == PkiInv /\ EveryChainEndsInRoot /\ [Next]_vars => EveryChainEndsInRoot'
<1> SUFFICES ASSUME PkiInv, EveryChainEndsInRoot, [Next]_vars PROVE EveryChainEndsInRoot'
  OBVIOUS
<1>1. TypeOK'
  BY InvStep DEF PkiInv
<1>2. (Anchored \subseteq DOMAIN approvedCertificates)'
  BY <1>1, AnchoredApproved, PTL
<1>3. ASSUME UNCHANGED approvedCertificates PROVE DOMAIN approvedCertificates' \subseteq Anchored'
  BY <1>3, Zenon DEF EveryChainEndsInRoot, Anchored, ClosedUnderSigning
<1>4. DOMAIN approvedCertificates' \subseteq Anchored'
  BY <1>3, ListsStep, AddKeepsChains, RevokeKeepsChains, Zenon
<1>5. QED
  BY <1>2, <1>4 DEF EveryChainEndsInRoot

\* In every reachable state the approved certificates are those with a chain
\* of approved ones to an approved root: RevokeChildCertificates takes with a
\* certificate all that was verified by it, and nothing that was not.
THEOREM ChainsCorrect == Spec => []EveryChainEndsInRoot
<1>1. Init => EveryChainEndsInRoot
  <2> SUFFICES ASSUME Init PROVE EveryChainEndsInRoot
    OBVIOUS
  <2>1. DOMAIN approvedCertificates = {}
    BY EmptyIsStore DEF Init
  <2>2. Anchored \subseteq DOMAIN approvedCertificates
    BY InvInit, AnchoredApproved DEF PkiInv
  <2>3. QED
    BY <2>1, <2>2 DEF EveryChainEndsInRoot
<1>2. QED
  BY <1>1, InvCorrect, ChainsStep, PTL DEF Spec

-----------------------------------------------------------------------------
(* Certificates are unique. *)

\* The keys of the certificates at their places, for given stores.
PlacesOf(prop, appr, rev) ==
  {<<"proposed", id, 1>> : id \in DOMAIN prop}
  \cup ListPlaces("approved", appr) \cup ListPlaces("revoked", rev)

CertIn(prop, appr, rev, place) ==
  CASE place[1] = "proposed" -> prop[place[2]].cert
    [] place[1] = "approved" -> appr[place[2]][place[3]].cert
    [] place[1] = "revoked" -> rev[place[2]][place[3]].cert

Keys(prop, appr, rev) ==
  [p \in PlacesOf(prop, appr, rev) |-> UniqueKey(CertIn(prop, appr, rev, p))]

\* Every key is taken, and no two places have the same.
UniqueKeys(keys, taken) ==
  \A p \in DOMAIN keys : keys[p] \in taken /\ \A q \in DOMAIN keys : keys[p] = keys[q] => p = q

\* CertificatesAreUnique in these terms.
LEMMA UniqueForm ==
  CertificatesAreUnique <=>
    UniqueKeys(Keys(proposedCertificate, approvedCertificates, revokedCertificates),
               uniqueCertificate)
<1> DEFINE keys == Keys(proposedCertificate, approvedCertificates, revokedCertificates)
<1>1. Places = PlacesOf(proposedCertificate, approvedCertificates, revokedCertificates)
  BY Zenon DEF Places, PlacesOf
<1>2. \A p : CertAt(p) =
        CertIn(proposedCertificate, approvedCertificates, revokedCertificates, p)
  BY Zenon DEF CertAt, CertIn
<1>3. DOMAIN keys = Places /\ \A p \in Places : keys[p] = UniqueKey(CertAt(p))
  BY <1>1, <1>2 DEF Keys
<1> HIDE DEF keys
<1>4. CertificatesAreUnique <=> UniqueKeys(keys, uniqueCertificate)
  BY <1>3 DEF CertificatesAreUnique, UniqueKeys
<1>5. QED
  BY <1>4 DEF keys

\* The places, one by one.
LEMMA PlaceForms ==
  ASSUME NEW prop, NEW appr, NEW rev
  PROVE  /\ \A id, i : <<"proposed", id, i>> \in PlacesOf(prop, appr, rev) <=>
                         id \in DOMAIN prop /\ i = 1
         /\ \A id, i : <<"approved", id, i>> \in PlacesOf(prop, appr, rev) <=>
                         id \in DOMAIN appr /\ i \in DOMAIN appr[id]
         /\ \A id, i : <<"revoked", id, i>> \in PlacesOf(prop, appr, rev) <=>
                         id \in DOMAIN rev /\ i \in DOMAIN rev[id]
         /\ \A p \in PlacesOf(prop, appr, rev) :
              \E id, i : \/ p = <<"proposed", id, 1>>
                         \/ p = <<"approved", id, i>>
                         \/ p = <<"revoked", id, i>>
<1> DEFINE P == PlacesOf(prop, appr, rev)
<1>1. \A p : p \in P <=>
        \/ \E id \in DOMAIN prop : p = <<"proposed", id, 1>>
        \/ \E id \in DOMAIN appr : \E i \in DOMAIN appr[id] : p = <<"approved", id, i>>
        \/ \E id \in DOMAIN rev : \E i \in DOMAIN rev[id] : p = <<"revoked", id, i>>
  <2>1. ASSUME NEW kind, NEW store
        PROVE  \A p : p \in ListPlaces(kind, store) <=>
                 \E id \in DOMAIN store : \E i \in DOMAIN store[id] : p = <<kind, id, i>>
    BY DEF ListPlaces
  <2>2. \A p : p \in P <=> \/ p \in {<<"proposed", id, 1>> : id \in DOMAIN prop}
                           \/ p \in ListPlaces("approved", appr)
                           \/ p \in ListPlaces("revoked", rev)
    BY DEF PlacesOf
  <2> HIDE DEF P
  <2>3. \A p : p \in ListPlaces("approved", appr) <=>
          \E id \in DOMAIN appr : \E i \in DOMAIN appr[id] : p = <<"approved", id, i>>
    BY <2>1
  <2>4. \A p : p \in ListPlaces("revoked", rev) <=>
          \E id \in DOMAIN rev : \E i \in DOMAIN rev[id] : p = <<"revoked", id, i>>
    BY <2>1
  <2>5. QED
    BY <2>2, <2>3, <2>4
<1> HIDE DEF P
<1>2. \A id, i : <<"proposed", id, i>> \in P <=> id \in DOMAIN prop /\ i = 1
  BY <1>1
<1>3. \A id, i : <<"approved", id, i>> \in P <=> id \in DOMAIN appr /\ i \in DOMAIN appr[id]
  BY <1>1
<1>4. \A id, i : <<"revoked", id, i>> \in P <=> id \in DOMAIN rev /\ i \in DOMAIN rev[id]
  BY <1>1
<1>5. \A p \in P : \E id, i : \/ p = <<"proposed", id, 1>>
                              \/ p = <<"approved", id, i>>
                              \/ p = <<"revoked", id, i>>
  BY <1>1, Zenon
<1>6. QED
  BY <1>2, <1>3, <1>4, <1>5 DEF P

\* The keys, one by one.
LEMMA KeyForms ==
  ASSUME NEW prop, NEW appr, NEW rev, NEW keys, keys = Keys(prop, appr, rev)
  PROVE  /\ DOMAIN keys = PlacesOf(prop, appr, rev)
         /\ \A id \in DOMAIN prop : keys[<<"proposed", id, 1>>] = UniqueKey(prop[id].cert)
         /\ \A id \in DOMAIN appr : \A i \in DOMAIN appr[id] :
              keys[<<"approved", id, i>>] = UniqueKey(appr[id][i].cert)
         /\ \A id \in DOMAIN rev : \A i \in DOMAIN rev[id] :
              keys[<<"revoked", id, i>>] = UniqueKey(rev[id][i].cert)
<1>1. /\ DOMAIN keys = PlacesOf(prop, appr, rev)
      /\ \A p \in DOMAIN keys : keys[p] = UniqueKey(CertIn(prop, appr, rev, p))
  BY DEF Keys
<1>2. \A id, i : /\ CertIn(prop, appr, rev, <<"proposed", id, i>>) = prop[id].cert
                 /\ CertIn(prop, appr, rev, <<"approved", id, i>>) = appr[id][i].cert
                 /\ CertIn(prop, appr, rev, <<"revoked", id, i>>) = rev[id][i].cert
  BY DEF CertIn
<1>3. \A id \in DOMAIN prop : <<"proposed", id, 1>> \in DOMAIN keys
  BY <1>1, PlaceForms, Zenon
<1>4. \A id \in DOMAIN appr : \A i \in DOMAIN appr[id] : <<"approved", id, i>> \in DOMAIN keys
  BY <1>1, PlaceForms, Zenon
<1>5. \A id \in DOMAIN rev : \A i \in DOMAIN rev[id] : <<"revoked", id, i>> \in DOMAIN keys
  BY <1>1, PlaceForms, Zenon
<1>6. QED
  BY <1>1, <1>2, <1>3, <1>4, <1>5, ZenonT(60)

\* The places of the certificates and their keys, one by one.
ProposedKeys(keys, prop) ==
  /\ \A id, i : <<"proposed", id, i>> \in DOMAIN keys <=> id \in DOMAIN prop /\ i = 1
  /\ \A id \in DOMAIN prop : keys[<<"proposed", id, 1>>] = UniqueKey(prop[id].cert)

ListKeys(keys, kind, store) ==
  /\ \A id, i : <<kind, id, i>> \in DOMAIN keys <=> id \in DOMAIN store /\ i \in DOMAIN store[id]
  /\ \A id \in DOMAIN store : \A i \in DOMAIN store[id] :
       keys[<<kind, id, i>>] = UniqueKey(store[id][i].cert)

KeyKinds(keys) ==
  \A p \in DOMAIN keys : \/ \E i : p = <<"proposed", i, 1>>
                         \/ \E i, n : p = <<"approved", i, n>>
                         \/ \E i, n : p = <<"revoked", i, n>>

KeyTable(keys, prop, appr, rev) ==
  /\ ProposedKeys(keys, prop) /\ KeyKinds(keys)
  /\ ListKeys(keys, "approved", appr) /\ ListKeys(keys, "revoked", rev)

\* Keys is such a table.
LEMMA KeysTable ==
  ASSUME NEW prop, NEW appr, NEW rev
  PROVE  KeyTable(Keys(prop, appr, rev), prop, appr, rev)
<1>1. PICK keys : keys = Keys(prop, appr, rev)
  BY Zenon
<1>2. DOMAIN keys = PlacesOf(prop, appr, rev)
  BY <1>1, KeyForms, Zenon
<1>3. /\ \A id, i : <<"proposed", id, i>> \in DOMAIN keys <=> id \in DOMAIN prop /\ i = 1
      /\ \A id, i : <<"approved", id, i>> \in DOMAIN keys <=> id \in DOMAIN appr /\ i \in DOMAIN appr[id]
      /\ \A id, i : <<"revoked", id, i>> \in DOMAIN keys <=> id \in DOMAIN rev /\ i \in DOMAIN rev[id]
      /\ \A p \in DOMAIN keys : \E id, i : \/ p = <<"proposed", id, 1>>
                                          \/ p = <<"approved", id, i>>
                                          \/ p = <<"revoked", id, i>>
  BY <1>2, PlaceForms
<1>4. /\ \A id \in DOMAIN prop : keys[<<"proposed", id, 1>>] = UniqueKey(prop[id].cert)
      /\ \A id \in DOMAIN appr : \A i \in DOMAIN appr[id] :
           keys[<<"approved", id, i>>] = UniqueKey(appr[id][i].cert)
      /\ \A id \in DOMAIN rev : \A i \in DOMAIN rev[id] :
           keys[<<"revoked", id, i>>] = UniqueKey(rev[id][i].cert)
  BY <1>1, KeyForms
<1>5. QED
  <2>1. ProposedKeys(keys, prop)
    BY <1>3, <1>4, Zenon DEF ProposedKeys
  <2>2. ListKeys(keys, "approved", appr)
    BY <1>3, <1>4, Zenon DEF ListKeys
  <2>3. ListKeys(keys, "revoked", rev)
    BY <1>3, <1>4, Zenon DEF ListKeys
  <2>4. KeyKinds(keys)
    BY <1>3 DEF KeyKinds
  <2>5. QED
    BY <1>1, <2>1, <2>2, <2>3, <2>4, Zenon DEF KeyTable

\* The certificate at p was there before.
Stays(before, after, p) == p \in DOMAIN before /\ after[p] = before[p]

\* A proposal with its certificate.
LEMMA SameProposal ==
  ASSUME NEW before, NEW after, NEW prop, NEW prop2,
         ProposedKeys(before, prop), ProposedKeys(after, prop2), NEW i, NEW p \in DOMAIN after,
         p = <<"proposed", i, 1>>,
         i \in DOMAIN prop2 => i \in DOMAIN prop /\ prop2[i].cert = prop[i].cert
  PROVE  Stays(before, after, p)
BY DEF ProposedKeys, Stays

\* A place of a list with its certificate.
LEMMA SameEntry ==
  ASSUME NEW before, NEW after, NEW kind, NEW store, NEW store2,
         ListKeys(before, kind, store), ListKeys(after, kind, store2),
         NEW i, NEW n, NEW p \in DOMAIN after, p = <<kind, i, n>>,
         i \in DOMAIN store2 /\ n \in DOMAIN store2[i] =>
           i \in DOMAIN store /\ n \in DOMAIN store[i] /\ store2[i][n].cert = store[i][n].cert
  PROVE  Stays(before, after, p)
BY DEF ListKeys, Stays

\* A list that is the same.
LEMMA SameList ==
  ASSUME NEW before, NEW after, NEW kind, NEW store,
         ListKeys(before, kind, store), ListKeys(after, kind, store),
         NEW i, NEW n, NEW p \in DOMAIN after, p = <<kind, i, n>>
  PROVE  Stays(before, after, p)
BY SameEntry, Zenon

\* A step that moves certificates, no two to one place, and adds one at most,
\* whose key was not taken.
Moved(before, taken, after, taken2, origin, new) ==
  /\ \A p \in DOMAIN after \ {new} :
       /\ origin[p] \in DOMAIN before /\ after[p] = before[origin[p]] /\ after[p] \in taken2
       /\ \A q \in DOMAIN after \ {new} : origin[p] = origin[q] => p = q
  /\ new \in DOMAIN after => after[new] \notin taken /\ after[new] \in taken2

\* It leaves the keys unique.
LEMMA UniqueAfter ==
  ASSUME NEW before, NEW taken, UniqueKeys(before, taken), NEW after, NEW taken2,
         NEW origin, NEW new, Moved(before, taken, after, taken2, origin, new)
  PROVE  UniqueKeys(after, taken2)
<1>1. ASSUME NEW p \in DOMAIN after PROVE after[p] \in taken2
  BY DEF Moved
<1>2. ASSUME NEW p \in DOMAIN after, NEW q \in DOMAIN after, after[p] = after[q]
      PROVE  p = q
  <2>1. \A r \in DOMAIN after \ {new} : after[r] \in taken
    BY DEF Moved, UniqueKeys
  <2>2. CASE p # new /\ q # new
    BY <1>2, <2>2 DEF Moved, UniqueKeys
  <2>3. QED
    BY <1>2, <2>1, <2>2 DEF Moved
<1>3. QED
  BY <1>1, <1>2 DEF UniqueKeys

\* A proposal with a new key.
LEMMA ProposeKeepsUnique ==
  ASSUME NEW prop, NEW appr, NEW rev, NEW taken, UniqueKeys(Keys(prop, appr, rev), taken),
         NEW proposal, NEW id, id \notin DOMAIN prop, UniqueKey(proposal.cert) \notin taken
  PROVE  UniqueKeys(Keys(Put(prop, id, proposal), appr, rev), taken \cup {UniqueKey(proposal.cert)})
<1>0. PICK prop2, before, after :
        prop2 = Put(prop, id, proposal) /\ before = Keys(prop, appr, rev) /\ after = Keys(prop2, appr, rev)
  BY Zenon
<1> DEFINE new == <<"proposed", id, 1>>
           origin == [p \in DOMAIN after |-> p]
<1>1. DOMAIN prop2 = DOMAIN prop \cup {id} /\ prop2[id] = proposal
      /\ \A i \in DOMAIN prop : prop2[i] = prop[i]
  BY <1>0 DEF Put
<1>p. /\ ProposedKeys(before, prop) /\ ProposedKeys(after, prop2)
      /\ ListKeys(before, "approved", appr) /\ ListKeys(after, "approved", appr)
      /\ ListKeys(before, "revoked", rev) /\ ListKeys(after, "revoked", rev)
      /\ KeyKinds(after)
  BY <1>0, KeysTable, Zenon DEF KeyTable
<1>2. new \in DOMAIN after /\ after[new] = UniqueKey(proposal.cert)
  BY <1>1, <1>p DEF ProposedKeys
<1>3. ASSUME NEW p \in DOMAIN after \ {new}
      PROVE  Stays(before, after, p)
  <2>1. ASSUME NEW i, p = <<"proposed", i, 1>>
        PROVE  Stays(before, after, p)
    <3>1. i \in DOMAIN prop2 => i \in DOMAIN prop /\ prop2[i].cert = prop[i].cert
      BY <1>1, <1>3, <2>1
    <3>2. QED
      BY <1>p, <2>1, <3>1, SameProposal, Zenon
  <2>2. QED
    BY <1>p, <2>1, SameList, Zenon DEF KeyKinds
<1>4. UniqueKeys(before, taken)
  BY <1>0, Zenon
<1>5. \A p \in DOMAIN after : origin[p] = p
  OBVIOUS
<1> DEFINE taken2 == taken \cup {UniqueKey(proposal.cert)}
<1>6. after[new] \notin taken /\ after[new] \in taken2 /\ taken \subseteq taken2
  BY <1>2, Zenon
<1> HIDE DEF new, origin, taken2
<1>7. Moved(before, taken, after, taken2, origin, new)
  <2>1. \A p \in DOMAIN after \ {new} : p \in DOMAIN after /\ Stays(before, after, p)
    BY <1>3, Zenon
  <2>2. \A p \in DOMAIN after \ {new} : /\ origin[p] = p /\ p \in DOMAIN before
                                        /\ after[p] = before[p]
    BY <1>5, <2>1, Zenon DEF Stays
  <2>3. \A p \in DOMAIN before : before[p] \in taken2
    BY <1>4, <1>6, Zenon DEF UniqueKeys
  <2>4. ASSUME NEW p \in DOMAIN after \ {new}
        PROVE  /\ origin[p] \in DOMAIN before /\ after[p] = before[origin[p]] /\ after[p] \in taken2
               /\ \A q \in DOMAIN after \ {new} : origin[p] = origin[q] => p = q
    BY <2>2, <2>3, Zenon
  <2>5. QED
    BY <1>6, <2>4, Zenon DEF Moved
<1>8. UniqueKeys(after, taken2)
  BY <1>4, <1>7, UniqueAfter, Zenon
<1>9. QED
  BY <1>0, <1>8, Zenon DEF taken2

\* A proposal that got a vote, or went.
LEMMA VoteKeepsUnique ==
  ASSUME NEW prop, NEW appr, NEW rev, NEW taken, UniqueKeys(Keys(prop, appr, rev), taken),
         NEW prop2, \A i \in DOMAIN prop2 : i \in DOMAIN prop /\ prop2[i].cert = prop[i].cert
  PROVE  /\ UniqueKeys(Keys(prop2, appr, rev), taken)
         /\ \A id \in DOMAIN prop \ DOMAIN prop2 :
              UniqueKeys(Keys(prop2, appr, rev), taken \ {UniqueKey(prop[id].cert)})
<1>0. PICK before, after : before = Keys(prop, appr, rev) /\ after = Keys(prop2, appr, rev)
  BY Zenon
<1>p. /\ ProposedKeys(before, prop) /\ ProposedKeys(after, prop2)
      /\ ListKeys(before, "approved", appr) /\ ListKeys(after, "approved", appr)
      /\ ListKeys(before, "revoked", rev) /\ ListKeys(after, "revoked", rev)
      /\ KeyKinds(after)
  BY <1>0, KeysTable, Zenon DEF KeyTable
<1>1. ASSUME NEW p \in DOMAIN after
      PROVE  Stays(before, after, p)
  <2>1. ASSUME NEW i, p = <<"proposed", i, 1>>
        PROVE  Stays(before, after, p)
    BY <1>p, <2>1, SameProposal, Zenon
  <2>2. QED
    BY <1>p, <2>1, SameList, Zenon DEF KeyKinds
<1>2. ASSUME NEW id \in DOMAIN prop \ DOMAIN prop2
      PROVE  /\ <<"proposed", id, 1>> \in DOMAIN before /\ <<"proposed", id, 1>> \notin DOMAIN after
             /\ before[<<"proposed", id, 1>>] = UniqueKey(prop[id].cert)
  BY <1>p DEF ProposedKeys
<1>3. UniqueKeys(before, taken)
  BY <1>0, Zenon
<1>4. UniqueKeys(after, taken)
  BY <1>1, <1>3 DEF UniqueKeys, Stays
<1>5. ASSUME NEW id \in DOMAIN prop \ DOMAIN prop2
      PROVE  UniqueKeys(after, taken \ {UniqueKey(prop[id].cert)})
  BY <1>1, <1>2, <1>3, ZenonT(60) DEF UniqueKeys, Stays
<1>6. QED
  BY <1>0, <1>4, <1>5, Zenon

\* A list that got one more certificate, at place n.
Grown(appr, appr2, id, n, e) ==
  /\ id \in DOMAIN appr2 /\ n \in DOMAIN appr2[id] /\ appr2[id][n] = e
  /\ \A i \in DOMAIN appr2 : \A k \in DOMAIN appr2[i] :
       \/ i = id /\ k = n
       \/ i \in DOMAIN appr /\ k \in DOMAIN appr[i] /\ appr2[i][k] = appr[i][k]

\* AddApprovedCertificate grows a list.
LEMMA ListGrows ==
  ASSUME TypeOK, NEW cert \in Certificate, NEW owner \in Address,
         AddApprovedCertificate(cert, owner)
  PROVE  \E n : Grown(approvedCertificates, approvedCertificates', cert.id, n,
                      [cert |-> cert, owner |-> owner])
<1> DEFINE new == [cert |-> cert, owner |-> owner]
           id == cert.id
           old == ListOf(approvedCertificates, id)
           list == Append(old, new)
<1>1. IsStore(approvedCertificates, CertID, Seq(Entry) \ {<<>>})
  BY Zenon DEF TypeOK
<1>2. old \in Seq(Entry) /\ (id \in DOMAIN approvedCertificates => old = approvedCertificates[id])
      /\ (id \notin DOMAIN approvedCertificates => old = <<>>)
  BY <1>1 DEF IsStore, ListOf
<1>3. new \in Entry
  BY DEF Entry
<1>4. approvedCertificates' = Put(approvedCertificates, id, list)
  BY DEF AddApprovedCertificate
<1> HIDE DEF new, id, old
<1>5. /\ DOMAIN list = 1..(Len(old) + 1) /\ DOMAIN old = 1..Len(old) /\ Len(old) \in Nat
      /\ list[Len(old) + 1] = new /\ \A k \in 1..Len(old) : list[k] = old[k]
  BY <1>2, <1>3
<1> HIDE DEF list
<1>6. /\ id \in DOMAIN approvedCertificates' /\ approvedCertificates'[id] = list
      /\ \A i \in DOMAIN approvedCertificates' : i # id =>
           i \in DOMAIN approvedCertificates /\ approvedCertificates'[i] = approvedCertificates[i]
  BY <1>4 DEF Put
<1>7. Len(old) + 1 \in DOMAIN list
  BY <1>5
<1>8. ASSUME NEW k \in DOMAIN list, k # Len(old) + 1
      PROVE  /\ id \in DOMAIN approvedCertificates /\ k \in DOMAIN approvedCertificates[id]
             /\ list[k] = approvedCertificates[id][k]
  <2>1. k \in DOMAIN old /\ list[k] = old[k]
    BY <1>5, <1>8
  <2>2. DOMAIN <<>> = {}
    OBVIOUS
  <2>3. QED
    BY <1>2, <2>1, <2>2
<1>9. Grown(approvedCertificates, approvedCertificates', id, Len(old) + 1, new)
  BY <1>5, <1>6, <1>7, <1>8 DEF Grown
<1>10. QED
  BY <1>9, Zenon DEF id, new

\* A certificate with a new key is added to a list.
LEMMA AddKeepsUnique ==
  ASSUME NEW prop, NEW appr, NEW rev, NEW taken, UniqueKeys(Keys(prop, appr, rev), taken),
         NEW appr2, NEW id, NEW n, NEW e, Grown(appr, appr2, id, n, e),
         UniqueKey(e.cert) \notin taken
  PROVE  UniqueKeys(Keys(prop, appr2, rev), taken \cup {UniqueKey(e.cert)})
<1>0. PICK before, after : before = Keys(prop, appr, rev) /\ after = Keys(prop, appr2, rev)
  BY Zenon
<1>p. /\ ProposedKeys(before, prop) /\ ProposedKeys(after, prop)
      /\ ListKeys(before, "approved", appr) /\ ListKeys(after, "approved", appr2)
      /\ ListKeys(before, "revoked", rev) /\ ListKeys(after, "revoked", rev)
      /\ KeyKinds(after)
  BY <1>0, KeysTable, Zenon DEF KeyTable
<1> DEFINE new == <<"approved", id, n>>
           origin == [p \in DOMAIN after |-> p]
           taken2 == taken \cup {UniqueKey(e.cert)}
<1>1. new \in DOMAIN after /\ after[new] = UniqueKey(e.cert)
  BY <1>p, Zenon DEF Grown, ListKeys
<1>2. ASSUME NEW p \in DOMAIN after \ {new}
      PROVE  Stays(before, after, p)
  <2>1. ASSUME NEW i, NEW k, p = <<"approved", i, k>>
        PROVE  Stays(before, after, p)
    <3>1. ~(i = id /\ k = n)
      BY <1>2, <2>1, Zenon
    <3>2. i \in DOMAIN appr2 /\ k \in DOMAIN appr2[i] =>
            i \in DOMAIN appr /\ k \in DOMAIN appr[i] /\ appr2[i][k].cert = appr[i][k].cert
      BY <3>1, Zenon DEF Grown
    <3>3. QED
      BY <1>p, <2>1, <3>2, SameEntry, Zenon
  <2>2. QED
    BY <1>p, <2>1, SameList, SameProposal, Zenon DEF KeyKinds
<1>3. UniqueKeys(before, taken) /\ \A p \in DOMAIN after : origin[p] = p
  BY <1>0, Zenon
<1>4. after[new] \notin taken /\ after[new] \in taken2 /\ taken \subseteq taken2
  BY <1>1, Zenon
<1> HIDE DEF new, origin, taken2
<1>5. Moved(before, taken, after, taken2, origin, new)
  BY <1>2, <1>3, <1>4 DEF UniqueKeys, Moved, Stays
<1>6. UniqueKeys(after, taken2)
  BY <1>3, <1>5, UniqueAfter, Zenon
<1>7. QED
  BY <1>0, <1>6, Zenon DEF taken2

\* A proposal becomes a certificate of a list.
LEMMA ApproveKeepsUnique ==
  ASSUME NEW prop, NEW appr, NEW rev, NEW taken, UniqueKeys(Keys(prop, appr, rev), taken),
         NEW appr2, NEW id \in DOMAIN prop, NEW n, NEW e, Grown(appr, appr2, id, n, e),
         e.cert = prop[id].cert
  PROVE  UniqueKeys(Keys(Delete(prop, id), appr2, rev), taken)
<1>0. PICK prop2, before, after :
        prop2 = Delete(prop, id) /\ before = Keys(prop, appr, rev) /\ after = Keys(prop2, appr2, rev)
  BY Zenon
<1>p. /\ ProposedKeys(before, prop) /\ ProposedKeys(after, prop2)
      /\ ListKeys(before, "approved", appr) /\ ListKeys(after, "approved", appr2)
      /\ ListKeys(before, "revoked", rev) /\ ListKeys(after, "revoked", rev)
      /\ KeyKinds(after)
  BY <1>0, KeysTable, Zenon DEF KeyTable
<1> DEFINE old == <<"proposed", id, 1>>
           new == <<"approved", id, n>>
           origin == [p \in DOMAIN after |-> IF p = new THEN old ELSE p]
<1>1. id \notin DOMAIN prop2 /\ \A i \in DOMAIN prop2 : i \in DOMAIN prop /\ prop2[i] = prop[i]
  BY <1>0, Zenon DEF Delete
<1>2. /\ old \in DOMAIN before /\ old \notin DOMAIN after
      /\ after[new] = before[old]
  <2>1. old \in DOMAIN before /\ before[old] = UniqueKey(prop[id].cert)
    BY <1>p, Zenon DEF ProposedKeys
  <2>2. old \notin DOMAIN after
    BY <1>1, <1>p, Zenon DEF ProposedKeys
  <2>3. after[new] = UniqueKey(e.cert)
    BY <1>p, Zenon DEF Grown, ListKeys
  <2>4. QED
    BY <2>1, <2>2, <2>3, Zenon
<1>3. ASSUME NEW p \in DOMAIN after \ {new}
      PROVE  Stays(before, after, p)
  <2>1. ASSUME NEW i, p = <<"proposed", i, 1>>
        PROVE  Stays(before, after, p)
    BY <1>1, <1>p, <2>1, SameProposal, Zenon
  <2>2. ASSUME NEW i, NEW k, p = <<"approved", i, k>>
        PROVE  Stays(before, after, p)
    <3>1. ~(i = id /\ k = n)
      BY <1>3, <2>2, Zenon
    <3>2. i \in DOMAIN appr2 /\ k \in DOMAIN appr2[i] =>
            i \in DOMAIN appr /\ k \in DOMAIN appr[i] /\ appr2[i][k].cert = appr[i][k].cert
      BY <3>1 DEF Grown
    <3>3. QED
      BY <1>p, <2>2, <3>2, SameEntry, ZenonT(60)
  <2>3. QED
    BY <1>p, <2>1, <2>2, SameList, Zenon DEF KeyKinds
<1>4. /\ UniqueKeys(before, taken)
      /\ \A p \in DOMAIN after : origin[p] = IF p = new THEN old ELSE p
  BY <1>0, Zenon
<1> HIDE DEF new, old, origin
<1>5. Moved(before, taken, after, taken, origin, old)
  BY <1>2, <1>3, <1>4 DEF UniqueKeys, Moved, Stays
<1>6. UniqueKeys(after, taken)
  BY <1>4, <1>5, UniqueAfter, Zenon
<1>7. QED
  BY <1>0, <1>6, Zenon

\* The lists of ids move behind the revoked ones, shift[i] places.
Revoked(appr, rev, appr2, rev2, ids, shift) ==
  /\ \A i \in DOMAIN appr2 : i \in DOMAIN appr /\ i \notin ids /\ appr2[i] = appr[i]
  /\ \A i \in DOMAIN rev2 : \A k \in DOMAIN rev2[i] :
       \/ i \in DOMAIN rev /\ k \in DOMAIN rev[i] /\ rev2[i][k] = rev[i][k]
       \/ /\ i \in ids /\ i \in DOMAIN appr
          /\ k \in Int /\ shift[i] \in Int
          /\ k - shift[i] \in DOMAIN appr[i] /\ rev2[i][k] = appr[i][k - shift[i]]

\* Where a certificate was that moved to p.
OldPlace(shift, p) == <<"approved", p[2], p[3] - shift[p[2]]>>

\* Moving the lists of a subtree to the revoked ones (RevokeX509Cert, ApproveRevokeX509RootCert)
\* keeps every certificate key unique.
LEMMA RevokeKeepsUnique ==
  ASSUME NEW prop, NEW appr, NEW rev, NEW taken, UniqueKeys(Keys(prop, appr, rev), taken),
         NEW appr2, NEW rev2, NEW ids, NEW shift, Revoked(appr, rev, appr2, rev2, ids, shift)
  PROVE  UniqueKeys(Keys(prop, appr2, rev2), taken)
<1>0. PICK before, after : before = Keys(prop, appr, rev) /\ after = Keys(prop, appr2, rev2)
  BY Zenon
<1>p. /\ ProposedKeys(before, prop) /\ ProposedKeys(after, prop)
      /\ ListKeys(before, "approved", appr) /\ ListKeys(after, "approved", appr2)
      /\ ListKeys(before, "revoked", rev) /\ ListKeys(after, "revoked", rev2)
      /\ KeyKinds(after)
  BY <1>0, KeysTable, Zenon DEF KeyTable
<1>1. ASSUME NEW p \in DOMAIN after, ~Stays(before, after, p)
      PROVE  /\ p = <<"revoked", p[2], p[3]>> /\ p[2] \in ids
             /\ p[3] \in Int /\ shift[p[2]] \in Int
             /\ OldPlace(shift, p) \in DOMAIN before /\ after[p] = before[OldPlace(shift, p)]
  <2>1. ASSUME NEW i, p = <<"proposed", i, 1>>
        PROVE  FALSE
    BY <1>1, <1>p, <2>1, SameProposal, Zenon
  <2>2. ASSUME NEW i, NEW k, p = <<"approved", i, k>>
        PROVE  FALSE
    <3>1. i \in DOMAIN appr2 /\ k \in DOMAIN appr2[i] =>
            i \in DOMAIN appr /\ k \in DOMAIN appr[i] /\ appr2[i][k].cert = appr[i][k].cert
      BY Zenon DEF Revoked
    <3>2. QED
      BY <1>1, <1>p, <2>2, <3>1, SameEntry, Zenon
  <2>3. ASSUME NEW i, NEW k, p = <<"revoked", i, k>>
        PROVE  /\ p = <<"revoked", p[2], p[3]>> /\ p[2] \in ids
               /\ p[3] \in Int /\ shift[p[2]] \in Int
               /\ OldPlace(shift, p) \in DOMAIN before
               /\ after[p] = before[OldPlace(shift, p)]
    <3>1. i \in DOMAIN rev2 /\ k \in DOMAIN rev2[i] /\ after[p] = UniqueKey(rev2[i][k].cert)
      BY <1>p, <2>3, Zenon DEF ListKeys
    <3>2. ~(i \in DOMAIN rev /\ k \in DOMAIN rev[i] /\ rev2[i][k] = rev[i][k])
      BY <1>1, <1>p, <2>3, SameEntry, Zenon
    <3>3. /\ i \in ids /\ i \in DOMAIN appr /\ k \in Int /\ shift[i] \in Int
          /\ k - shift[i] \in DOMAIN appr[i] /\ rev2[i][k] = appr[i][k - shift[i]]
      BY <3>1, <3>2, Zenon DEF Revoked
    <3>4. p[2] = i /\ p[3] = k
      BY <2>3
    <3>5. /\ OldPlace(shift, p) \in DOMAIN before
          /\ before[OldPlace(shift, p)] = UniqueKey(appr[i][k - shift[i]].cert)
      BY <1>p, <3>3, <3>4, Zenon DEF ListKeys, OldPlace
    <3>6. QED
      BY <2>3, <3>1, <3>3, <3>4, <3>5, Zenon
  <2>4. QED
    BY <1>p, <2>1, <2>2, <2>3, Zenon DEF KeyKinds
<1>2. ASSUME NEW p \in DOMAIN after, NEW i \in ids, NEW k
      PROVE  p # <<"approved", i, k>>
  <2>1. <<"approved", i, k>> \in DOMAIN after => i \in DOMAIN appr2
    BY <1>p, Zenon DEF ListKeys
  <2>2. i \notin DOMAIN appr2
    BY Zenon DEF Revoked
  <2>3. QED
    BY <2>1, <2>2, Zenon
<1>3. UniqueKeys(before, taken)
  BY <1>0, Zenon
<1>n. PICK none : none \notin DOMAIN after
  <2>1. <<"none", 1, 1>> \notin DOMAIN after
    BY <1>p, Zenon DEF KeyKinds
  <2>2. QED
    BY <2>1, Zenon
<1>o. PICK origin : \A p \in DOMAIN after :
        origin[p] = IF Stays(before, after, p) THEN p ELSE OldPlace(shift, p)
  <2>1. \A p \in DOMAIN after :
          [x \in DOMAIN after |-> IF Stays(before, after, x) THEN x ELSE OldPlace(shift, x)][p]
            = IF Stays(before, after, p) THEN p ELSE OldPlace(shift, p)
    BY Zenon
  <2>2. QED
    BY <2>1, Zenon
<1>4. ASSUME NEW p \in DOMAIN after
      PROVE  origin[p] \in DOMAIN before /\ after[p] = before[origin[p]]
  BY <1>1, <1>o, Zenon DEF Stays
<1>5. ASSUME NEW p \in DOMAIN after, NEW q \in DOMAIN after, origin[p] = origin[q]
      PROVE  p = q
  <2>1. ASSUME NEW r \in DOMAIN after, NEW s \in DOMAIN after, ~Stays(before, after, r), Stays(before, after, s)
        PROVE  origin[r] # origin[s]
    <3>1. origin[r] = OldPlace(shift, r) /\ origin[s] = s
      BY <1>o, <2>1, Zenon
    <3>2. r[2] \in ids
      BY <1>1, <2>1, Zenon
    <3>3. QED
      BY <1>2, <3>1, <3>2, Zenon DEF OldPlace
  <2>2. CASE Stays(before, after, p) /\ Stays(before, after, q)
    BY <1>o, <1>5, <2>2, Zenon
  <2>3. CASE ~Stays(before, after, p) /\ ~Stays(before, after, q)
    <3>1. OldPlace(shift, p) = OldPlace(shift, q)
      BY <1>o, <1>5, <2>3, Zenon
    <3>2. p[2] = q[2] /\ p[3] - shift[p[2]] = q[3] - shift[q[2]]
      BY <3>1, Zenon DEF OldPlace
    <3>3. p[3] \in Int /\ q[3] \in Int /\ shift[p[2]] \in Int
      BY <1>1, <2>3, Zenon
    <3>4. p[3] = q[3]
      BY <3>2, <3>3
    <3>5. p = <<"revoked", p[2], p[3]>> /\ q = <<"revoked", q[2], q[3]>>
      BY <1>1, <2>3, Zenon
    <3>6. QED
      BY <3>2, <3>4, <3>5, Zenon
  <2>4. QED
    BY <1>5, <2>1, <2>2, <2>3, Zenon
<1>6. Moved(before, taken, after, taken, origin, none)
  BY <1>3, <1>4, <1>5, <1>n, Zenon DEF UniqueKeys, Moved
<1>7. UniqueKeys(after, taken)
  BY <1>3, <1>6, UniqueAfter, Zenon
<1>8. QED
  BY <1>0, <1>7, Zenon

\* MoveToRevoked moves the lists.
LEMMA MoveRevokes ==
  ASSUME TypeOK, NEW ids, ids \subseteq DOMAIN approvedCertificates, MoveToRevoked(ids)
  PROVE  \E shift : Revoked(approvedCertificates, revokedCertificates,
                            approvedCertificates', revokedCertificates', ids, shift)
<1> DEFINE shift == [i \in CertID |-> Len(ListOf(revokedCertificates, i))]
<1>1. \A i \in DOMAIN approvedCertificates' :
        /\ i \in DOMAIN approvedCertificates /\ i \notin ids
        /\ approvedCertificates'[i] = approvedCertificates[i]
  BY DEF MoveToRevoked, RemoveApprovedCertificates
<1>2. /\ IsStore(approvedCertificates, CertID, Seq(Entry) \ {<<>>})
      /\ IsStore(revokedCertificates, CertID, Seq(Entry) \ {<<>>})
  BY Zenon DEF TypeOK
<1>3. ASSUME NEW i \in DOMAIN revokedCertificates', NEW k \in DOMAIN revokedCertificates'[i]
      PROVE  \/ /\ i \in DOMAIN revokedCertificates /\ k \in DOMAIN revokedCertificates[i]
                /\ revokedCertificates'[i][k] = revokedCertificates[i][k]
             \/ /\ i \in ids /\ i \in DOMAIN approvedCertificates
                /\ k \in Int /\ shift[i] \in Int
                /\ k - shift[i] \in DOMAIN approvedCertificates[i]
                /\ revokedCertificates'[i][k] = approvedCertificates[i][k - shift[i]]
  <2> DEFINE s == ListOf(revokedCertificates, i)
             u == IF i \in ids THEN ListOf(approvedCertificates, i) ELSE <<>>
  <2>1. i \in DOMAIN revokedCertificates \/ i \in ids
    BY DEF MoveToRevoked, AddRevokedCertificates
  <2>2. i \in CertID
    BY <1>2, <2>1, SMTT(30) DEF IsStore
  <2>3. revokedCertificates'[i] = s \o u
    BY SMTT(30) DEF MoveToRevoked, AddRevokedCertificates
  <2>4. s \in Seq(Entry) /\ u \in Seq(Entry)
    <3>1. /\ ListOf(approvedCertificates, i) \in Seq(Entry)
          /\ ListOf(revokedCertificates, i) \in Seq(Entry)
      BY <1>2, <2>2 DEF IsStore, ListOf
    <3>2. QED
      BY <3>1
  <2>5. /\ s # <<>> => i \in DOMAIN revokedCertificates /\ s = revokedCertificates[i]
        /\ u # <<>> => i \in ids /\ i \in DOMAIN approvedCertificates /\ u = approvedCertificates[i]
    BY DEF ListOf
  <2>6. shift[i] = Len(s)
    BY <2>2
  <2> HIDE DEF s, u, shift
  <2>7. /\ DOMAIN (s \o u) = 1..(Len(s) + Len(u)) /\ Len(s) \in Nat /\ Len(u) \in Nat
        /\ DOMAIN s = 1..Len(s) /\ DOMAIN u = 1..Len(u)
        /\ \A j \in 1..Len(s) : (s \o u)[j] = s[j]
        /\ \A j \in (Len(s) + 1)..(Len(s) + Len(u)) : (s \o u)[j] = u[j - Len(s)]
    BY <2>4, ConcatPlaces
  <2>8. k \in 1..(Len(s) + Len(u))
    BY <2>3, <2>7
  <2>9. CASE k \in 1..Len(s)
    <3>1. s # <<>>
      BY <2>9
    <3>2. QED
      BY <2>3, <2>5, <2>7, <2>9, <3>1
  <2>10. CASE k \in (Len(s) + 1)..(Len(s) + Len(u))
    <3>1. u # <<>> /\ k - Len(s) \in 1..Len(u) /\ k \in Int /\ Len(s) \in Int
      BY <2>7, <2>10
    <3>2. QED
      BY <2>3, <2>5, <2>6, <2>7, <2>10, <3>1
  <2>11. QED
    BY <2>7, <2>8, <2>9, <2>10, SMTT(30)
<1> HIDE DEF shift
<1>4. Revoked(approvedCertificates, revokedCertificates,
              approvedCertificates', revokedCertificates', ids, shift)
  BY <1>1, <1>3, Zenon DEF Revoked
<1>5. QED
  BY <1>4, Zenon

\* The stores and the keys that are taken in the state, and after a step.
KeysNow == Keys(proposedCertificate, approvedCertificates, revokedCertificates)

\* Where the certificates are found says nothing of a step that leaves their
\* stores alone.
LEMMA SameUnique ==
  ASSUME UniqueKeys(KeysNow, uniqueCertificate),
         UNCHANGED <<proposedCertificate, approvedCertificates, revokedCertificates,
                     uniqueCertificate>>
  PROVE  UniqueKeys(KeysNow, uniqueCertificate)'
BY DEF KeysNow

\* A proposal and the votes on it.
LEMMA ProposalsStayUnique ==
  ASSUME PkiInv, UniqueKeys(KeysNow, uniqueCertificate), NEW signer, NEW id, NEW cert,
         \/ ProposeAddX509RootCert(signer, cert)
         \/ RejectAddX509RootCert(signer, id)
         \/ ApproveAddX509RootCert(signer, id) /\ UNCHANGED approvedCertificates
            /\ proposedCertificate' = Put(proposedCertificate, id,
                 [proposedCertificate[id] EXCEPT !.approvals = Append(@, signer)])
  PROVE  UniqueKeys(KeysNow, uniqueCertificate)'
<1>1. CASE ProposeAddX509RootCert(signer, cert)
  <2> DEFINE proposal == [cert |-> cert, owner |-> signer,
                          approvals |-> IF signer \in trustees THEN <<signer>> ELSE <<>>,
                          rejects |-> <<>>]
  <2>1. /\ proposedCertificate' = Put(proposedCertificate, cert.id, proposal)
        /\ uniqueCertificate' = uniqueCertificate \cup {UniqueKey(cert)}
        /\ UNCHANGED <<approvedCertificates, revokedCertificates>>
        /\ cert.id \notin DOMAIN proposedCertificate /\ UniqueKey(cert) \notin uniqueCertificate
    BY <1>1 DEF ProposeAddX509RootCert, CanProposeRoot, lists
  <2>2. proposal.cert = cert
    OBVIOUS
  <2> HIDE DEF proposal
  <2>3. UniqueKeys(Keys(Put(proposedCertificate, cert.id, proposal), approvedCertificates,
                        revokedCertificates), uniqueCertificate \cup {UniqueKey(proposal.cert)})
    BY <2>1, <2>2, ProposeKeepsUnique DEF KeysNow
  <2>4. QED
    BY <2>1, <2>2, <2>3 DEF KeysNow
<1>2. CASE RejectAddX509RootCert(signer, id)
  <2> DEFINE no == [proposedCertificate[id] EXCEPT !.rejects = Append(@, signer)]
  <2>1. TypeOK /\ id \in DOMAIN proposedCertificate /\ signer \in Address
    BY <1>2 DEF PkiInv, TypeOK, RejectAddX509RootCert, CanVote
  <2>2. no.cert = proposedCertificate[id].cert
    BY <2>1, VotedProposal
  <2>3. /\ UNCHANGED <<approvedCertificates, revokedCertificates>>
        /\ \/ /\ proposedCertificate' = Delete(proposedCertificate, id)
              /\ uniqueCertificate' = uniqueCertificate \ {UniqueKey(no.cert)}
           \/ /\ proposedCertificate' = Put(proposedCertificate, id, no)
              /\ UNCHANGED uniqueCertificate
    BY <1>2 DEF RejectAddX509RootCert, lists
  <2> HIDE DEF no
  <2>4. /\ \A i \in DOMAIN proposedCertificate' : /\ i \in DOMAIN proposedCertificate
                                                  /\ proposedCertificate'[i].cert = proposedCertificate[i].cert
        /\ proposedCertificate' = Delete(proposedCertificate, id) => id \notin DOMAIN proposedCertificate'
    BY <2>1, <2>2, <2>3 DEF Put, Delete
  <2>5. /\ UniqueKeys(Keys(proposedCertificate', approvedCertificates, revokedCertificates),
                      uniqueCertificate)
        /\ \A i \in DOMAIN proposedCertificate \ DOMAIN proposedCertificate' :
             UniqueKeys(Keys(proposedCertificate', approvedCertificates, revokedCertificates),
                        uniqueCertificate \ {UniqueKey(proposedCertificate[i].cert)})
    BY <2>4, VoteKeepsUnique, Zenon DEF KeysNow
  <2>6. QED
    BY <2>1, <2>2, <2>3, <2>4, <2>5, SMTT(30) DEF KeysNow
<1>3. CASE ApproveAddX509RootCert(signer, id) /\ UNCHANGED approvedCertificates
           /\ proposedCertificate' = Put(proposedCertificate, id,
                [proposedCertificate[id] EXCEPT !.approvals = Append(@, signer)])
  <2> DEFINE yes == [proposedCertificate[id] EXCEPT !.approvals = Append(@, signer)]
  <2>1. /\ TypeOK /\ id \in DOMAIN proposedCertificate /\ signer \in Address
        /\ UNCHANGED <<approvedCertificates, revokedCertificates, uniqueCertificate>>
    BY <1>3 DEF PkiInv, TypeOK, ApproveAddX509RootCert, CanVote
  <2>2. yes.cert = proposedCertificate[id].cert
    BY <2>1, VotedProposal
  <2>3. proposedCertificate' = Put(proposedCertificate, id, yes)
    BY <1>3
  <2> HIDE DEF yes
  <2>4. \A i \in DOMAIN proposedCertificate' : /\ i \in DOMAIN proposedCertificate
                                               /\ proposedCertificate'[i].cert = proposedCertificate[i].cert
    BY <2>1, <2>2, <2>3 DEF Put
  <2>5. UniqueKeys(Keys(proposedCertificate', approvedCertificates, revokedCertificates),
                   uniqueCertificate)
    BY <2>4, VoteKeepsUnique, Zenon DEF KeysNow
  <2>6. QED
    BY <2>1, <2>5 DEF KeysNow
<1>4. QED
  BY <1>1, <1>2, <1>3

\* A certificate is added: below its issuer, or as the root that was proposed.
LEMMA AdditionsStayUnique ==
  ASSUME PkiInv, UniqueKeys(KeysNow, uniqueCertificate), NEW signer \in Address,
         NEW id \in CertID, NEW cert \in Certificate,
         \/ AddX509Cert(signer, cert)
         \/ ApproveAddX509RootCert(signer, id)
  PROVE  UniqueKeys(KeysNow, uniqueCertificate)'
<1>1. TypeOK
  BY DEF PkiInv
<1>2. CASE AddX509Cert(signer, cert)
  <2> DEFINE e == [cert |-> cert, owner |-> signer]
  <2>1. /\ AddApprovedCertificate(cert, signer) /\ UniqueKey(cert) \notin uniqueCertificate
        /\ uniqueCertificate' = uniqueCertificate \cup {UniqueKey(cert)}
        /\ UNCHANGED <<proposedCertificate, revokedCertificates>>
    BY <1>2, Zenon DEF AddX509Cert, CanAdd, votes
  <2>2. e.cert = cert
    OBVIOUS
  <2>3. PICK n : Grown(approvedCertificates, approvedCertificates', cert.id, n, e)
    BY <1>1, <2>1, ListGrows, Zenon
  <2> HIDE DEF e
  <2>4. UniqueKeys(Keys(proposedCertificate, approvedCertificates', revokedCertificates),
                   uniqueCertificate \cup {UniqueKey(e.cert)})
    BY <2>1, <2>2, <2>3, AddKeepsUnique DEF KeysNow
  <2>5. QED
    BY <2>1, <2>2, <2>4 DEF KeysNow
<1>3. CASE ApproveAddX509RootCert(signer, id)
  <2> DEFINE yes == [proposedCertificate[id] EXCEPT !.approvals = Append(@, signer)]
             e == [cert |-> yes.cert, owner |-> yes.owner]
  <2>1. id \in DOMAIN proposedCertificate
    BY <1>3 DEF ApproveAddX509RootCert, CanVote
  <2>2. /\ yes.cert = proposedCertificate[id].cert
        /\ yes.cert \in Certificate /\ yes.owner \in Address /\ yes.cert.id = id
    <3>1. PICK new : new = yes
      BY Zenon
    <3>2. /\ new.cert = proposedCertificate[id].cert
          /\ new.cert \in Certificate /\ new.owner \in Address /\ new.cert.id = id
      BY <1>1, <2>1, <3>1, VotedProposal
    <3>3. QED
      BY <3>1, <3>2, Zenon
  <2>3. /\ UNCHANGED <<revokedCertificates, uniqueCertificate>>
        /\ \/ /\ AddApprovedCertificate(yes.cert, yes.owner)
              /\ proposedCertificate' = Delete(proposedCertificate, id)
           \/ /\ proposedCertificate' = Put(proposedCertificate, id, yes)
              /\ UNCHANGED approvedCertificates
    BY <1>3 DEF ApproveAddX509RootCert
  <2>4. CASE /\ proposedCertificate' = Put(proposedCertificate, id, yes)
             /\ UNCHANGED approvedCertificates
    BY <1>3, <2>4, ProposalsStayUnique, Zenon
  <2>5. CASE /\ AddApprovedCertificate(yes.cert, yes.owner)
             /\ proposedCertificate' = Delete(proposedCertificate, id)
    <3>1. e.cert = proposedCertificate[id].cert
      BY <2>2, Zenon
    <3> HIDE DEF yes
    <3>2. PICK n : Grown(approvedCertificates, approvedCertificates', id, n, e)
      BY <1>1, <2>2, <2>5, ListGrows
    <3> HIDE DEF e
    <3>3. UniqueKeys(Keys(Delete(proposedCertificate, id), approvedCertificates', revokedCertificates),
                     uniqueCertificate)
      BY <2>1, <3>1, <3>2, ApproveKeepsUnique, Zenon DEF KeysNow
    <3>4. QED
      BY <2>3, <2>5, <3>3 DEF KeysNow
  <2>6. QED
    BY <2>3, <2>4, <2>5
<1>4. QED
  BY <1>2, <1>3

\* A list and all below it are revoked.
LEMMA RevocationsStayUnique ==
  ASSUME PkiInv, UniqueKeys(KeysNow, uniqueCertificate), NEW id \in DOMAIN approvedCertificates,
         MoveToRevoked({id} \cup Descendants(id)),
         UNCHANGED <<proposedCertificate, uniqueCertificate>>
  PROVE  UniqueKeys(KeysNow, uniqueCertificate)'
<1> DEFINE ids == {id} \cup Descendants(id)
<1>1. TypeOK /\ ids \subseteq DOMAIN approvedCertificates /\ MoveToRevoked(ids)
  <2>1. Subtree(id, ids)
    BY RevokedTogether, Zenon
  <2>2. QED
    BY <2>1, Zenon DEF Subtree, PkiInv
<1> HIDE DEF ids
<1>2. PICK shift : Revoked(approvedCertificates, revokedCertificates,
                           approvedCertificates', revokedCertificates', ids, shift)
  BY <1>1, MoveRevokes, Zenon
<1>3. UniqueKeys(Keys(proposedCertificate, approvedCertificates', revokedCertificates'),
                 uniqueCertificate)
  BY <1>2, RevokeKeepsUnique, Zenon DEF KeysNow
<1>4. QED
  BY <1>3 DEF KeysNow

\* No step makes two certificates with one key.
LEMMA UniqueStep ==
  PkiInv /\ UniqueKeys(KeysNow, uniqueCertificate) /\ [Next]_vars
    => UniqueKeys(KeysNow, uniqueCertificate)'
<1> SUFFICES ASSUME PkiInv, UniqueKeys(KeysNow, uniqueCertificate), [Next]_vars
             PROVE  UniqueKeys(KeysNow, uniqueCertificate)'
  OBVIOUS
<1> DEFINE Goal == UniqueKeys(KeysNow, uniqueCertificate)'
<1>1. ASSUME ChangeTrustees \/ UNCHANGED vars PROVE Goal
  BY <1>1, SameUnique, Zenon DEF ChangeTrustees, vars, votes, lists, indexes
<1>2. ASSUME NEW signer, NEW id, ProposeRevokeX509RootCert(signer, id) PROVE Goal
  BY <1>2, SameUnique DEF ProposeRevokeX509RootCert, lists, indexes
<1>3. ASSUME NEW signer \in Owner, NEW id \in CertID, RevokeX509Cert(signer, id) PROVE Goal
  <2>1. /\ id \in DOMAIN approvedCertificates /\ MoveToRevoked({id} \cup Descendants(id))
        /\ UNCHANGED <<votes, uniqueCertificate>>
    BY <1>3, Zenon DEF RevokeX509Cert, CanRevoke, RevokeWithChildren
  <2>2. UNCHANGED <<proposedCertificate, uniqueCertificate>>
    BY <2>1 DEF votes
  <2>3. QED
    BY <2>1, <2>2, RevocationsStayUnique, Zenon
<1>4. ASSUME NEW signer \in Address, NEW id \in CertID, ApproveRevokeX509RootCert(signer, id)
      PROVE  Goal
  <2>1. /\ UNCHANGED <<proposedCertificate, uniqueCertificate>>
        /\ \/ /\ id \in DOMAIN approvedCertificates
              /\ MoveToRevoked({id} \cup Descendants(id))
           \/ UNCHANGED lists
    BY <1>4, Zenon DEF ApproveRevokeX509RootCert, RevokeWithChildren
  <2>2. CASE id \in DOMAIN approvedCertificates /\ MoveToRevoked({id} \cup Descendants(id))
    BY <2>1, <2>2, RevocationsStayUnique, Zenon
  <2>3. CASE UNCHANGED lists
    BY <2>1, <2>3, SameUnique DEF lists
  <2>4. QED
    BY <2>1, <2>2, <2>3
<1>5. ASSUME NEW signer \in Owner, NEW cert \in Certificate,
             ProposeAddX509RootCert(signer, cert) \/ AddX509Cert(signer, cert)
      PROVE  Goal
  <2>1. signer \in Address /\ cert.id \in CertID
    BY AddressAssumption, CertificateAssumption
  <2>2. QED
    BY <1>5, <2>1, ProposalsStayUnique, AdditionsStayUnique, Zenon
<1>6. ASSUME NEW signer \in Address, NEW id \in CertID, RejectAddX509RootCert(signer, id)
      PROVE  Goal
  BY <1>6, ProposalsStayUnique, Zenon
<1>7. ASSUME NEW signer \in Address, NEW id \in CertID, ApproveAddX509RootCert(signer, id)
      PROVE  Goal
  <2>1. id \in DOMAIN proposedCertificate
    BY <1>7, SMTT(30) DEF ApproveAddX509RootCert, CanVote
  <2>2. proposedCertificate[id].cert \in Certificate
    BY <2>1 DEF PkiInv, TypeOK, IsStore, Proposal
  <2>3. QED
    BY <1>7, <2>2, AdditionsStayUnique, Zenon
<1> HIDE DEF Goal
<1>8. ASSUME \E signer \in Owner :
               \/ \E cert \in Certificate : \/ ProposeAddX509RootCert(signer, cert)
                                            \/ AddX509Cert(signer, cert)
               \/ \E id \in CertID : RevokeX509Cert(signer, id)
      PROVE  Goal
  BY <1>3, <1>5, <1>8
<1>9. ASSUME \E signer \in Address, id \in CertID :
               \/ ApproveAddX509RootCert(signer, id)
               \/ RejectAddX509RootCert(signer, id)
               \/ ProposeRevokeX509RootCert(signer, id)
               \/ ApproveRevokeX509RootCert(signer, id)
      PROVE  Goal
  BY <1>2, <1>4, <1>6, <1>7, <1>9
<1>10. Goal
  BY <1>1, <1>8, <1>9 DEF Next
<1>11. QED
  BY <1>10 DEF Goal

\* A pair of issuer and serial number is used by one certificate, wherever it
\* is: checkRootCert and AddX509Cert ask the unique-certificate index, the
\* rejection of a proposal frees only a pair that nothing else uses, and
\* revocation moves what it takes.
THEOREM UniqueCorrect == Spec => []CertificatesAreUnique
<1>1. Init => UniqueKeys(KeysNow, uniqueCertificate)
  <2> SUFFICES ASSUME Init PROVE UniqueKeys(KeysNow, uniqueCertificate)
    OBVIOUS
  <2>1. /\ DOMAIN proposedCertificate = {} /\ DOMAIN approvedCertificates = {}
        /\ DOMAIN revokedCertificates = {}
    BY EmptyIsStore DEF Init
  <2>2. DOMAIN KeysNow = {}
    <3>1. DOMAIN KeysNow = PlacesOf(proposedCertificate, approvedCertificates, revokedCertificates)
      BY KeyForms, Zenon DEF KeysNow
    <3>2. QED
      BY <2>1, <3>1, PlaceForms
  <2>3. QED
    BY <2>2 DEF UniqueKeys
<1>2. CertificatesAreUnique <=> UniqueKeys(KeysNow, uniqueCertificate)
  BY UniqueForm DEF KeysNow
<1>3. QED
  BY <1>1, <1>2, InvCorrect, UniqueStep, PTL DEF Spec

-----------------------------------------------------------------------------
(* Roots change by quorum. *)

\* Nobody votes twice for a root or for its revocation.
VotesOnce ==
  /\ \A id \in DOMAIN proposedCertificate : NoRepeats(proposedCertificate[id].approvals)
  /\ \A id \in DOMAIN proposedRevocation : NoRepeats(proposedRevocation[id])

\* The lists of votes are those of accounts.
LEMMA VoteLists ==
  ASSUME TypeOK
  PROVE  /\ \A id \in DOMAIN proposedCertificate : proposedCertificate[id].approvals \in Seq(Address)
         /\ \A id \in DOMAIN proposedRevocation : proposedRevocation[id] \in Seq(Address)
<1>1. /\ IsStore(proposedCertificate, CertID, Proposal)
      /\ IsStore(proposedRevocation, CertID, Seq(Address))
  BY Zenon DEF TypeOK
<1>2. QED
  BY <1>1 DEF IsStore, Proposal

\* The approvals of a proposal after a step: none, one, one more or the same.
LEMMA ProposalVotesOnce ==
  ASSUME TypeOK, VotesOnce, [Next]_vars
  PROVE  \A id \in DOMAIN proposedCertificate' : NoRepeats(proposedCertificate'[id].approvals)
<1> DEFINE Goal == \A id \in DOMAIN proposedCertificate' : NoRepeats(proposedCertificate'[id].approvals)
<1>0. \A id \in DOMAIN proposedCertificate : NoRepeats(proposedCertificate[id].approvals)
  BY DEF VotesOnce
<1>1. ASSUME UNCHANGED proposedCertificate PROVE Goal
  BY <1>0, <1>1
<1>2. ASSUME NEW id, proposedCertificate' = Delete(proposedCertificate, id) PROVE Goal
  BY <1>0, <1>2 DEF Delete
<1>3. ASSUME NEW id, NEW new, proposedCertificate' = Put(proposedCertificate, id, new),
             NoRepeats(new.approvals)
      PROVE  Goal
  BY <1>0, <1>3 DEF Put
<1>4. ASSUME NEW signer \in Owner, NEW cert \in Certificate, ProposeAddX509RootCert(signer, cert)
      PROVE  Goal
  <2> DEFINE new == [cert |-> cert, owner |-> signer,
                     approvals |-> IF signer \in trustees THEN <<signer>> ELSE <<>>,
                     rejects |-> <<>>]
  <2>1. NoRepeats(new.approvals)
    <3>1. NoRepeats(<<signer>>) /\ NoRepeats(<<>>)
      BY FirstVote
    <3>2. QED
      BY <3>1
  <2>2. proposedCertificate' = Put(proposedCertificate, cert.id, new)
    BY <1>4 DEF ProposeAddX509RootCert
  <2> HIDE DEF new, Goal
  <2>3. QED
    BY <1>3, <2>1, <2>2
<1>5. ASSUME NEW signer \in Address, NEW id \in CertID, ApproveAddX509RootCert(signer, id)
      PROVE  Goal
  <2> DEFINE old == proposedCertificate[id]
             new == [old EXCEPT !.approvals = Append(old.approvals, signer)]
  <2>1. id \in DOMAIN proposedCertificate /\ signer \notin Voters(old.approvals)
    BY <1>5 DEF ApproveAddX509RootCert, CanVote, HasVoted
  <2>2. old.approvals \in Seq(Address) /\ NoRepeats(old.approvals)
    BY <1>0, <2>1, VoteLists
  <2>3. old \in Proposal
    BY <2>1 DEF TypeOK, IsStore
  <2>4. \/ proposedCertificate' = Delete(proposedCertificate, id)
        \/ proposedCertificate' = Put(proposedCertificate, id, new)
    BY <1>5 DEF ApproveAddX509RootCert
  <2> HIDE DEF old
  <2>5. NoRepeats(Append(old.approvals, signer))
    BY <2>1, <2>2, AppendNoRepeats, Zenon
  <2>6. new.approvals = Append(old.approvals, signer)
    BY <2>3 DEF Proposal
  <2> HIDE DEF new, Goal
  <2>7. QED
    BY <1>2, <1>3, <2>4, <2>5, <2>6, Zenon
<1>6. ASSUME NEW signer \in Address, NEW id \in CertID, RejectAddX509RootCert(signer, id)
      PROVE  Goal
  <2> DEFINE old == proposedCertificate[id]
             new == [old EXCEPT !.rejects = Append(old.rejects, signer)]
  <2>1. id \in DOMAIN proposedCertificate
    BY <1>6 DEF RejectAddX509RootCert, CanVote
  <2>2. old \in Proposal /\ NoRepeats(old.approvals)
    BY <1>0, <2>1 DEF TypeOK, IsStore
  <2>3. \/ proposedCertificate' = Delete(proposedCertificate, id)
        \/ proposedCertificate' = Put(proposedCertificate, id, new)
    BY <1>6 DEF RejectAddX509RootCert
  <2> HIDE DEF old
  <2>4. new.approvals = old.approvals
    BY <2>2 DEF Proposal
  <2> HIDE DEF new, Goal
  <2>5. QED
    BY <1>2, <1>3, <2>2, <2>3, <2>4
<1>7. ASSUME NEW signer, NEW x,
             \/ AddX509Cert(signer, x) \/ RevokeX509Cert(signer, x)
             \/ ProposeRevokeX509RootCert(signer, x) \/ ApproveRevokeX509RootCert(signer, x)
      PROVE  UNCHANGED proposedCertificate
  BY <1>7, Zenon DEF AddX509Cert, RevokeX509Cert, ProposeRevokeX509RootCert, ApproveRevokeX509RootCert,
              votes
<1>8. ASSUME ChangeTrustees \/ UNCHANGED vars PROVE UNCHANGED proposedCertificate
  BY <1>8 DEF ChangeTrustees, vars, votes
<1> HIDE DEF Goal
<1>9. ASSUME \E signer \in Owner :
               \/ \E cert \in Certificate : \/ ProposeAddX509RootCert(signer, cert)
                                            \/ AddX509Cert(signer, cert)
               \/ \E id \in CertID : RevokeX509Cert(signer, id)
      PROVE  Goal
  BY <1>1, <1>4, <1>7, <1>9
<1>10. ASSUME \E signer \in Address, id \in CertID :
                \/ ApproveAddX509RootCert(signer, id)
                \/ RejectAddX509RootCert(signer, id)
                \/ ProposeRevokeX509RootCert(signer, id)
                \/ ApproveRevokeX509RootCert(signer, id)
      PROVE  Goal
  BY <1>1, <1>5, <1>6, <1>7, <1>10, SMTT(30)
<1>11. Goal
  BY <1>1, <1>8, <1>9, <1>10 DEF Next
<1>12. QED
  BY <1>11 DEF Goal

\* The approvals of a revocation after a step.
LEMMA RevocationVotesOnce ==
  ASSUME TypeOK, VotesOnce, [Next]_vars
  PROVE  \A id \in DOMAIN proposedRevocation' : NoRepeats(proposedRevocation'[id])
<1> DEFINE Goal == \A id \in DOMAIN proposedRevocation' : NoRepeats(proposedRevocation'[id])
<1>0. \A id \in DOMAIN proposedRevocation : NoRepeats(proposedRevocation[id])
  BY DEF VotesOnce
<1>1. ASSUME UNCHANGED proposedRevocation PROVE Goal
  BY <1>0, <1>1
<1>2. ASSUME NEW id, proposedRevocation' = Delete(proposedRevocation, id) PROVE Goal
  BY <1>0, <1>2 DEF Delete
<1>3. ASSUME NEW id, NEW new, proposedRevocation' = Put(proposedRevocation, id, new),
             NoRepeats(new)
      PROVE  Goal
  BY <1>0, <1>3 DEF Put
<1>4. ASSUME NEW signer \in Address, NEW id \in CertID, ProposeRevokeX509RootCert(signer, id)
      PROVE  Goal
  <2>1. NoRepeats(<<signer>>)
    BY FirstVote
  <2>2. proposedRevocation' = Put(proposedRevocation, id, <<signer>>)
    BY <1>4 DEF ProposeRevokeX509RootCert
  <2> HIDE DEF Goal
  <2>3. QED
    BY <1>3, <2>1, <2>2, Zenon
<1>5. ASSUME NEW signer \in Address, NEW id \in CertID, ApproveRevokeX509RootCert(signer, id)
      PROVE  Goal
  <2> DEFINE old == proposedRevocation[id]
  <2>1. id \in DOMAIN proposedRevocation /\ signer \notin Voters(old)
    BY <1>5 DEF ApproveRevokeX509RootCert
  <2>2. old \in Seq(Address) /\ NoRepeats(old)
    BY <1>0, <2>1, VoteLists, Zenon
  <2>3. \/ proposedRevocation' = Delete(proposedRevocation, id)
        \/ proposedRevocation' = Put(proposedRevocation, id, Append(old, signer))
    BY <1>5 DEF ApproveRevokeX509RootCert
  <2> HIDE DEF old, Goal
  <2>4. NoRepeats(Append(old, signer))
    BY <2>1, <2>2, AppendNoRepeats, Zenon
  <2>5. QED
    BY <1>2, <1>3, <2>3, <2>4, Zenon
<1>6. ASSUME NEW signer, NEW x,
             \/ AddX509Cert(signer, x) \/ RevokeX509Cert(signer, x)
             \/ ProposeAddX509RootCert(signer, x) \/ ApproveAddX509RootCert(signer, x)
             \/ RejectAddX509RootCert(signer, x)
      PROVE  UNCHANGED proposedRevocation
  BY <1>6 DEF AddX509Cert, RevokeX509Cert, ProposeAddX509RootCert, ApproveAddX509RootCert,
              RejectAddX509RootCert, votes
<1>7. ASSUME ChangeTrustees \/ UNCHANGED vars PROVE UNCHANGED proposedRevocation
  BY <1>7 DEF ChangeTrustees, vars, votes
<1> HIDE DEF Goal
<1>8. ASSUME \E signer \in Owner :
               \/ \E cert \in Certificate : \/ ProposeAddX509RootCert(signer, cert)
                                            \/ AddX509Cert(signer, cert)
               \/ \E id \in CertID : RevokeX509Cert(signer, id)
      PROVE  Goal
  BY <1>1, <1>6, <1>8
<1>9. ASSUME \E signer \in Address, id \in CertID :
               \/ ApproveAddX509RootCert(signer, id)
               \/ RejectAddX509RootCert(signer, id)
               \/ ProposeRevokeX509RootCert(signer, id)
               \/ ApproveRevokeX509RootCert(signer, id)
      PROVE  Goal
  BY <1>1, <1>4, <1>5, <1>6, <1>9
<1>10. Goal
  BY <1>1, <1>7, <1>8, <1>9 DEF Next
<1>11. QED
  BY <1>10 DEF Goal

\* In every reachable state.
LEMMA VotesOnceCorrect == Spec => []VotesOnce
<1>1. Init => VotesOnce
  <2> SUFFICES ASSUME Init PROVE VotesOnce
    OBVIOUS
  <2>1. DOMAIN proposedCertificate = {} /\ DOMAIN proposedRevocation = {}
    BY EmptyIsStore DEF Init
  <2>2. QED
    BY <2>1 DEF VotesOnce
<1>2. TypeOK /\ VotesOnce /\ [Next]_vars => VotesOnce'
  BY ProposalVotesOnce, RevocationVotesOnce DEF VotesOnce
<1>3. QED
  BY <1>1, <1>2, TypeCorrect, PTL DEF Spec

\* The vote that settles: as many accounts as votes.
LEMMA QuorumReached ==
  ASSUME NEW voters \in Seq(Address), NoRepeats(voters), NEW signer \in Address,
         signer \in trustees, signer \notin Voters(voters),
         Len(Append(voters, signer)) >= CertificateApprovalsCount
  PROVE  Quorum(voters)
<1> DEFINE all == Append(voters, signer)
<1>1. all \in Seq(Address) /\ Voters(all) = Voters(voters) \cup {signer}
  BY AppendVoters
<1>2. NoRepeats(all)
  BY AppendNoRepeats
<1>3. Len(all) >= CertificateApprovalsCount
  OBVIOUS
<1> HIDE DEF all
<1>4. Cardinality(Voters(all)) = Len(all)
  BY <1>1, <1>2, CountVoters, Zenon
<1>5. Cardinality(Voters(voters) \cup {signer}) >= CertificateApprovalsCount
  BY <1>1, <1>3, <1>4
<1>6. QED
  BY <1>5, Zenon DEF Quorum

\* The root certificates of a list, one by one.
LEMMA RootForm ==
  ASSUME NEW store, NEW id, NEW cert
  PROVE  cert \in Roots(store, id) <=>
           id \in DOMAIN store /\ \E e \in Range(store[id]) : IsSelfSigned(e.cert) /\ cert = e.cert
<1>1. Range(<<>>) = {}
  BY DEF Range
<1>2. QED
  BY <1>1 DEF Roots, ListOf

\* The roots after a certificate is added.
LEMMA RootsAfterAdd ==
  ASSUME TypeOK, NEW cert \in Certificate, NEW owner \in Address,
         AddApprovedCertificate(cert, owner), NEW id, NEW c
  PROVE  c \in Roots(approvedCertificates', id) <=>
           c \in Roots(approvedCertificates, id) \/ (id = cert.id /\ c = cert /\ IsSelfSigned(cert))
<1> DEFINE new == [cert |-> cert, owner |-> owner]
           old == ListOf(approvedCertificates, cert.id)
<1>1. /\ DOMAIN approvedCertificates' = DOMAIN approvedCertificates \cup {cert.id}
      /\ \A i \in DOMAIN approvedCertificates :
           i # cert.id => approvedCertificates'[i] = approvedCertificates[i]
      /\ Range(approvedCertificates'[cert.id]) = Range(old) \cup {new}
  BY ListsAfter, Zenon
<1>2. /\ cert.id \in DOMAIN approvedCertificates => old = approvedCertificates[cert.id]
      /\ cert.id \notin DOMAIN approvedCertificates => Range(old) = {}
  BY DEF ListOf, Range
<1>3. new.cert = cert
  OBVIOUS
<1> HIDE DEF new, old
<1>4. CASE id # cert.id
  BY <1>1, <1>4, RootForm
<1>5. CASE id = cert.id
  <2>1. c \in Roots(approvedCertificates', id) <=>
          \E e \in Range(old) \cup {new} : IsSelfSigned(e.cert) /\ c = e.cert
    BY <1>1, <1>5, RootForm, SMTT(30)
  <2>2. c \in Roots(approvedCertificates, id) <=>
          \E e \in Range(old) : IsSelfSigned(e.cert) /\ c = e.cert
    BY <1>2, <1>5, RootForm, SMTT(30)
  <2>3. QED
    BY <1>3, <1>5, <2>1, <2>2, Zenon
<1>6. QED
  BY <1>4, <1>5

\* The roots after a revocation.
LEMMA RootsAfterRevoke ==
  ASSUME NEW ids, MoveToRevoked(ids), NEW id, NEW c
  PROVE  c \in Roots(approvedCertificates', id) <=> c \in Roots(approvedCertificates, id) /\ id \notin ids
<1>1. /\ DOMAIN approvedCertificates' = DOMAIN approvedCertificates \ ids
      /\ \A i \in DOMAIN approvedCertificates' : approvedCertificates'[i] = approvedCertificates[i]
  BY DEF MoveToRevoked, RemoveApprovedCertificates
<1>2. QED
  BY <1>1, RootForm

\* A step that leaves the roots alone.
LEMMA SameRoots ==
  ASSUME \A id \in CertID : Roots(approvedCertificates', id) = Roots(approvedCertificates, id)
  PROVE  RootStep
BY DEF RootStep

\* A root is added: the last vote of ApproveAddX509RootCert.
LEMMA AddRootStep ==
  ASSUME PkiInv, VotesOnce, NEW signer \in Address, NEW id \in CertID,
         ApproveAddX509RootCert(signer, id)
  PROVE  RootStep
<1> DEFINE old == proposedCertificate[id]
           yes == [old EXCEPT !.approvals = Append(@, signer)]
<1>1. /\ TypeOK /\ id \in DOMAIN proposedCertificate /\ signer \in trustees
      /\ signer \notin Voters(old.approvals)
  BY DEF PkiInv, ApproveAddX509RootCert, CanVote, HasVoted
<1>2. /\ yes.cert = old.cert /\ yes.cert \in Certificate /\ yes.owner \in Address
      /\ yes.cert.id = id /\ IsSelfSigned(yes.cert)
  <2>1. PICK new : new = yes
    BY Zenon
  <2>2. /\ new.cert = proposedCertificate[id].cert
        /\ new.cert \in Certificate /\ new.owner \in Address
        /\ new.cert.id = id /\ IsSelfSigned(new.cert)
    BY <1>1, <2>1, VotedProposal
  <2>3. QED
    BY <2>1, <2>2, Zenon
<1>3. yes.approvals = Append(old.approvals, signer)
  <2>1. old \in Proposal
    BY <1>1 DEF TypeOK, IsStore
  <2> HIDE DEF old
  <2>2. QED
    BY <2>1 DEF Proposal
<1>4. \/ /\ Len(yes.approvals) >= CertificateApprovalsCount
         /\ AddApprovedCertificate(yes.cert, yes.owner)
      \/ UNCHANGED approvedCertificates
  BY DEF ApproveAddX509RootCert
<1>5. old.approvals \in Seq(Address) /\ NoRepeats(old.approvals)
  BY <1>1, VoteLists DEF VotesOnce
<1> HIDE DEF yes
<1>6. CASE UNCHANGED approvedCertificates
  BY <1>6, SameRoots
<1>7. CASE /\ Len(yes.approvals) >= CertificateApprovalsCount
           /\ AddApprovedCertificate(yes.cert, yes.owner)
  <2>1. Quorum(old.approvals)
    BY <1>1, <1>3, <1>5, <1>7, QuorumReached, Zenon
  <2>2. ASSUME NEW i, NEW c
        PROVE  c \in Roots(approvedCertificates', i) <=>
                 c \in Roots(approvedCertificates, i) \/ (i = id /\ c = old.cert)
    BY <1>1, <1>2, <1>7, RootsAfterAdd
  <2>3. ASSUME NEW i \in CertID, NEW c \in Roots(approvedCertificates', i) \ Roots(approvedCertificates, i)
        PROVE  /\ i \in DOMAIN proposedCertificate /\ proposedCertificate[i].cert = c
               /\ Quorum(proposedCertificate[i].approvals)
    BY <1>1, <2>1, <2>2
  <2>4. \A i \in CertID : Roots(approvedCertificates, i) \ Roots(approvedCertificates', i) = {}
    BY <2>2
  <2>5. QED
    BY <2>3, <2>4, Zenon DEF RootStep
<1>8. QED
  BY <1>4, <1>6, <1>7

\* A list and all below it are revoked; no other starts with a root.
LEMMA RevokeRootStep ==
  ASSUME PkiInv, NEW id \in DOMAIN approvedCertificates, MoveToRevoked({id} \cup Descendants(id)),
         FirstIsRoot(id) => id \in DOMAIN proposedRevocation /\ Quorum(proposedRevocation[id])
  PROVE  RootStep
<1> DEFINE ids == {id} \cup Descendants(id)
<1>1. ASSUME NEW i, NEW c
      PROVE  c \in Roots(approvedCertificates', i) <=>
               c \in Roots(approvedCertificates, i) /\ i \notin ids
  BY RootsAfterRevoke, Zenon
<1>2. ASSUME NEW i \in CertID,
             Roots(approvedCertificates, i) \ Roots(approvedCertificates', i) # {}, FirstIsRoot(i)
      PROVE  i \in DOMAIN proposedRevocation /\ Quorum(proposedRevocation[i])
  <2>1. i \in ids /\ i \in DOMAIN approvedCertificates
    BY <1>1, <1>2, RootForm
  <2>2. i = id
    BY <1>2, <2>1, RootsStay
  <2>3. QED
    BY <1>2, <2>2, Zenon
<1>3. \A i \in CertID : Roots(approvedCertificates', i) \ Roots(approvedCertificates, i) = {}
  BY <1>1
<1>4. QED
  BY <1>2, <1>3, Zenon DEF RootStep

\* The root certificates change in no other way.
LEMMA RootStepTaken == PkiInv /\ VotesOnce /\ [Next]_vars => [RootStep]_vars
<1> SUFFICES ASSUME PkiInv, VotesOnce, Next PROVE RootStep
  OBVIOUS
<1>1. ASSUME UNCHANGED approvedCertificates PROVE RootStep
  BY <1>1, SameRoots
<1>2. ASSUME NEW signer \in Owner, NEW cert \in Certificate, AddX509Cert(signer, cert)
      PROVE  RootStep
  <2>1. /\ TypeOK /\ signer \in Address /\ ~IsSelfSigned(cert)
        /\ AddApprovedCertificate(cert, signer)
    BY <1>2, AddressAssumption DEF PkiInv, AddX509Cert, CanAdd
  <2>2. ASSUME NEW i, NEW c
        PROVE  c \in Roots(approvedCertificates', i) <=> c \in Roots(approvedCertificates, i)
    BY <2>1, RootsAfterAdd
  <2>3. \A i \in CertID : Roots(approvedCertificates', i) = Roots(approvedCertificates, i)
    <3>1. \A i \in CertID : /\ Roots(approvedCertificates', i) \subseteq Roots(approvedCertificates, i)
                            /\ Roots(approvedCertificates, i) \subseteq Roots(approvedCertificates', i)
      BY <2>2
    <3>2. QED
      BY <3>1, Zenon
  <2>4. QED
    BY <2>3, SameRoots, Zenon
<1>3. ASSUME NEW signer \in Owner, NEW id \in CertID, RevokeX509Cert(signer, id)
      PROVE  RootStep
  <2>1. /\ id \in DOMAIN approvedCertificates /\ ~FirstIsRoot(id)
        /\ MoveToRevoked({id} \cup Descendants(id))
    BY <1>3, Zenon DEF RevokeX509Cert, CanRevoke, RevokeWithChildren
  <2>2. QED
    BY <2>1, RevokeRootStep, Zenon
<1>4. ASSUME NEW signer \in Address, NEW id \in CertID, ApproveRevokeX509RootCert(signer, id)
      PROVE  RootStep
  <2> DEFINE old == proposedRevocation[id]
  <2>1. /\ signer \in trustees /\ id \in DOMAIN proposedRevocation /\ signer \notin Voters(old)
        /\ \/ /\ Len(Append(old, signer)) >= CertificateApprovalsCount
              /\ id \in DOMAIN approvedCertificates
              /\ MoveToRevoked({id} \cup Descendants(id))
           \/ UNCHANGED lists
    BY <1>4, Zenon DEF ApproveRevokeX509RootCert, RevokeWithChildren
  <2>2. CASE UNCHANGED lists
    BY <1>1, <2>2 DEF lists
  <2>3. CASE /\ Len(Append(old, signer)) >= CertificateApprovalsCount
             /\ id \in DOMAIN approvedCertificates
             /\ MoveToRevoked({id} \cup Descendants(id))
    <3>1. old \in Seq(Address) /\ NoRepeats(old)
      BY <2>1, VoteLists, Zenon DEF PkiInv, VotesOnce
    <3>2. Quorum(old)
      BY <2>1, <2>3, <3>1, QuorumReached
    <3>3. QED
      BY <2>1, <2>3, <3>2, RevokeRootStep, Zenon
  <2>4. QED
    BY <2>1, <2>2, <2>3
<1>5. ASSUME NEW signer, NEW x,
             \/ ProposeAddX509RootCert(signer, x)
             \/ RejectAddX509RootCert(signer, x) \/ ProposeRevokeX509RootCert(signer, x)
      PROVE  UNCHANGED approvedCertificates
  BY <1>5 DEF ProposeAddX509RootCert, RejectAddX509RootCert, ProposeRevokeX509RootCert, lists
<1>6. CASE ChangeTrustees
  BY <1>1, <1>6 DEF ChangeTrustees, lists
<1>7. CASE \E signer \in Owner :
             \/ \E cert \in Certificate : \/ ProposeAddX509RootCert(signer, cert)
                                          \/ AddX509Cert(signer, cert)
             \/ \E id \in CertID : RevokeX509Cert(signer, id)
  BY <1>1, <1>2, <1>3, <1>5, <1>7, SMTT(30)
<1>8. CASE \E signer \in Address, id \in CertID :
             \/ ApproveAddX509RootCert(signer, id)
             \/ RejectAddX509RootCert(signer, id)
             \/ ProposeRevokeX509RootCert(signer, id)
             \/ ApproveRevokeX509RootCert(signer, id)
  BY <1>1, <1>4, <1>5, <1>8, AddRootStep
<1>9. QED
  BY <1>6, <1>7, <1>8 DEF Next

\* Root certificates come and go by the votes of enough different accounts,
\* however many Trustees there are and however often they change meanwhile
\* (ApproveAddX509RootCert, ApproveRevokeX509RootCert).
THEOREM RootsCorrect == Spec => RootsChangeByQuorum
BY InvCorrect, VotesOnceCorrect, RootStepTaken, PTL DEF Spec, RootsChangeByQuorum
=============================================================================
