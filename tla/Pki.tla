--------------------------------- MODULE Pki ---------------------------------
(***************************************************************************)
(* x/pki: the certificates of the ledger.  Root certificates are added and *)
(* revoked by the Trustees, the others by their owners; a certificate that *)
(* is revoked takes with it all that its chain has signed.  The stores are *)
(* lists of certificates by (subject, subject key id) and four indexes     *)
(* that the handlers keep up with them.                                    *)
(*                                                                         *)
(* A certificate is its identifier, that of its issuer and a serial        *)
(* number; it is within its dates, and its signature is good for the       *)
(* issuer it names.                                                        *)
(***************************************************************************)
EXTENDS FiniteSets, KVStore, TrusteeVoting

CONSTANTS
  Address,       \* account addresses
  Owner,         \* those of them that send certificates
  Subject,       \* names of certificate subjects
  KeyID,         \* subject key ids
  Certificate,   \* the certificates there are
  Genesis        \* the Trustees of the genesis file

CertID == Subject \X KeyID

ASSUME AddressAssumption ==
  IsFiniteSet(Address) /\ Owner \subseteq Address /\ Genesis \subseteq Address
ASSUME CertificateAssumption ==
  Certificate \subseteq [id : CertID, issuer : CertID, serial : Nat]

VARIABLES
  trustees,               \* the accounts with the Trustee role
  proposedCertificate,    \* id |-> root certificate, its owner and the votes
  rejectedCertificate,
  proposedRevocation,     \* id of root certificates |-> the approvals
  approvedCertificates,   \* id |-> list of certificates with their owners
  revokedCertificates,
  approvedRoots,          \* index: ids of the approved root certificates
  revokedRoots,           \* index: ids of the revoked root certificates
  bySubject,              \* index: subject |-> key ids of its certificates
  childCertificates,      \* index: id |-> ids of what it has signed
  uniqueCertificate       \* (issuer, serial number) pairs that are taken

votes == <<proposedCertificate, rejectedCertificate, proposedRevocation>>
lists == <<approvedCertificates, revokedCertificates>>
indexes == <<approvedRoots, revokedRoots, bySubject, childCertificates, uniqueCertificate>>
vars == <<trustees, votes, lists, indexes>>

-----------------------------------------------------------------------------
(* Certificates. *)

IsSelfSigned(cert) == cert.issuer = cert.id

UniqueKey(cert) == <<cert.issuer[1], cert.serial>>

\* Is the first certificate with this identifier a root certificate?
FirstIsRoot(id) == IsSelfSigned(approvedCertificates[id][1].cert)

FirstOwner(id) == approvedCertificates[id][1].owner

\* S has every root certificate and whatever its members have signed.
ClosedUnderSigning(S) ==
  \A id \in DOMAIN approvedCertificates :
    (\E e \in Range(approvedCertificates[id]) :
       IsSelfSigned(e.cert) \/ e.cert.issuer \in S) => id \in S

\* The identifiers with a chain to a root certificate, every link of it being
\* approved: the smallest closed set.
Anchored == {id \in CertID : \A S \in SUBSET CertID : ClosedUnderSigning(S) => id \in S}

\* verifyCertificate builds a chain to a root certificate.
Verified(cert) == IsSelfSigned(cert) \/ cert.issuer \in Anchored

Children(id) == IF id \in DOMAIN childCertificates THEN childCertificates[id] ELSE {}

\* Only the certificates that the revoked one has signed itself.
Descendants_Direct(id) == Children(id)

ClosedUnderChildren(S) == \A id \in S : Children(id) \subseteq S

\* What RevokeChildCertificates visits: the children of id and theirs, the
\* smallest set with the first that is closed.
Descendants(id) ==
  {d \in CertID : \A S \in SUBSET CertID :
                    Children(id) \subseteq S /\ ClosedUnderChildren(S) => d \in S}

-----------------------------------------------------------------------------
(* The keeper. *)

RootCertificateApprovalsPercent == 66

CertificateApprovalsCount ==
  RoundedShare(RootCertificateApprovalsPercent, Cardinality(trustees))

CertificateRejectApprovalsCount == Cardinality(trustees) - CertificateApprovalsCount + 1

ListOf(store, id) == IF id \in DOMAIN store THEN store[id] ELSE <<>>

SetOf(store, key) == IF key \in DOMAIN store THEN store[key] ELSE {}

AddApprovedCertificate(cert, owner) ==
  approvedCertificates' =
    Put(approvedCertificates, cert.id,
        Append(ListOf(approvedCertificates, cert.id), [cert |-> cert, owner |-> owner]))

AddApprovedCertificateBySubject(id) ==
  bySubject' = Put(bySubject, id[1], SetOf(bySubject, id[1]) \cup {id[2]})

\* RemoveApprovedCertificateBySubject for each of the ids: a record that
\* becomes empty is removed.
RemoveApprovedCertificatesBySubject(ids) ==
  bySubject' = [s \in {t \in DOMAIN bySubject : \E k \in bySubject[t] : <<t, k>> \notin ids} |->
                  {k \in bySubject[s] : <<s, k>> \notin ids}]

\* AddRevokedCertificates for each of the ids.  (The code would file an id
\* without a list under an empty subject; IndexesAgree says there is none.)
AddRevokedCertificates(ids) ==
  revokedCertificates' =
    [id \in DOMAIN revokedCertificates \cup ids |->
       ListOf(revokedCertificates, id)
         \o (IF id \in ids THEN ListOf(approvedCertificates, id) ELSE <<>>)]

RemoveApprovedCertificates(ids) ==
  approvedCertificates' = [id \in DOMAIN approvedCertificates \ ids |-> approvedCertificates[id]]

AddChildCertificate(issuer, id) ==
  childCertificates' = Put(childCertificates, issuer, Children(issuer) \cup {id})

\* The child index without id below its issuer.
RemoveChildCertificate(issuer, id) ==
  LET rest == Children(issuer) \ {id}
  IN  IF rest = {} THEN Delete(childCertificates, issuer) ELSE Put(childCertificates, issuer, rest)

AddApprovedRootCertificate(id) == approvedRoots' = approvedRoots \cup {id}

RemoveApprovedRootCertificate(id) == approvedRoots' = approvedRoots \ {id}

AddRevokedRootCertificate(id) == revokedRoots' = revokedRoots \cup {id}

\* What both revocations do with a certificate and those below it.
MoveToRevoked(ids) ==
  /\ AddRevokedCertificates(ids)
  /\ RemoveApprovedCertificates(ids)
  /\ RemoveApprovedCertificatesBySubject(ids)

\* The record of the certificate itself stays in the child index.
RevokeWithChildren_StaleIndex(id, children) ==
  LET ids == {id} \cup Descendants(id)
  IN  /\ MoveToRevoked(ids)
      /\ childCertificates' = [i \in DOMAIN children \ Descendants(id) |-> children[i]]

\* RevokeChildCertificates: the records of everything visited are removed
\* from the child index, of which children is the rest of it.
RevokeWithChildren(id, children) ==
  LET ids == {id} \cup Descendants(id)
  IN  /\ MoveToRevoked(ids)
      /\ childCertificates' = [i \in DOMAIN children \ ids |-> children[i]]

-----------------------------------------------------------------------------
(* The handlers of root certificates. *)

\* The certificate may have been on the ledger before.
CanProposeRoot_Again(signer, cert) ==
  /\ IsSelfSigned(cert)
  /\ cert.id \notin DOMAIN proposedCertificate

\* The certificate may be signed by another one.
CanProposeRoot_NotSelfSigned(signer, cert) ==
  /\ cert.id \notin DOMAIN proposedCertificate
  /\ UniqueKey(cert) \notin uniqueCertificate
  /\ Verified(cert)

CanProposeRoot(signer, cert) ==
  /\ IsSelfSigned(cert)
  /\ cert.id \notin DOMAIN proposedCertificate
  /\ UniqueKey(cert) \notin uniqueCertificate
  /\ Verified(cert)
  /\ cert.id \in DOMAIN approvedCertificates =>
       FirstIsRoot(cert.id) /\ FirstOwner(cert.id) = signer

\* Anybody may propose; a Trustee approves by it.
ProposeAddX509RootCert(signer, cert) ==
  /\ CanProposeRoot(signer, cert)
  /\ proposedCertificate' =
       Put(proposedCertificate, cert.id,
           [cert |-> cert, owner |-> signer,
            approvals |-> IF signer \in trustees THEN <<signer>> ELSE <<>>, rejects |-> <<>>])
  /\ rejectedCertificate' = Delete(rejectedCertificate, cert.id)
  /\ uniqueCertificate' = uniqueCertificate \cup {UniqueKey(cert)}
  /\ UNCHANGED <<trustees, proposedRevocation, lists, approvedRoots, revokedRoots, bySubject,
                 childCertificates>>

CanVote(signer, id) ==
  /\ signer \in trustees
  /\ id \in DOMAIN proposedCertificate
  /\ ~HasVoted(proposedCertificate[id], signer)

\* What has been approved under the identifier since the proposal was made
\* is not looked at.
ApproveAddX509RootCert(signer, id) ==
  /\ CanVote(signer, id)
  /\ LET proposal == [proposedCertificate[id] EXCEPT !.approvals = Append(@, signer)]
     IN  \/ /\ Len(proposal.approvals) >= CertificateApprovalsCount
            /\ AddApprovedCertificate(proposal.cert, proposal.owner)
            /\ proposedCertificate' = Delete(proposedCertificate, id)
            /\ AddApprovedRootCertificate(id)
            /\ AddApprovedCertificateBySubject(id)
         \/ /\ Len(proposal.approvals) < CertificateApprovalsCount
            /\ proposedCertificate' = Put(proposedCertificate, id, proposal)
            /\ UNCHANGED <<approvedCertificates, approvedRoots, bySubject>>
  /\ UNCHANGED <<trustees, rejectedCertificate, proposedRevocation, revokedCertificates,
                 revokedRoots, childCertificates, uniqueCertificate>>

RejectAddX509RootCert(signer, id) ==
  /\ CanVote(signer, id)
  /\ LET proposal == [proposedCertificate[id] EXCEPT !.rejects = Append(@, signer)]
     IN  \/ /\ Len(proposal.rejects) >= CertificateRejectApprovalsCount
            /\ rejectedCertificate' = Put(rejectedCertificate, id, proposal)
            /\ proposedCertificate' = Delete(proposedCertificate, id)
            /\ uniqueCertificate' = uniqueCertificate \ {UniqueKey(proposal.cert)}
         \/ /\ Len(proposal.rejects) < CertificateRejectApprovalsCount
            /\ proposedCertificate' = Put(proposedCertificate, id, proposal)
            /\ UNCHANGED <<rejectedCertificate, uniqueCertificate>>
  /\ UNCHANGED <<trustees, proposedRevocation, lists, approvedRoots, revokedRoots, bySubject,
                 childCertificates>>

ProposeRevokeX509RootCert(signer, id) ==
  /\ signer \in trustees
  /\ id \notin DOMAIN proposedRevocation
  /\ id \in DOMAIN approvedCertificates
  /\ FirstIsRoot(id)
  /\ proposedRevocation' = Put(proposedRevocation, id, <<signer>>)
  /\ UNCHANGED <<trustees, proposedCertificate, rejectedCertificate, lists, indexes>>

ApproveRevokeX509RootCert(signer, id) ==
  /\ signer \in trustees
  /\ id \in DOMAIN proposedRevocation
  /\ signer \notin Voters(proposedRevocation[id])
  /\ LET approvals == Append(proposedRevocation[id], signer)
     IN  \/ /\ Len(approvals) >= CertificateApprovalsCount
            /\ id \in DOMAIN approvedCertificates
            /\ RevokeWithChildren(id, childCertificates)
            /\ proposedRevocation' = Delete(proposedRevocation, id)
            /\ RemoveApprovedRootCertificate(id)
            /\ AddRevokedRootCertificate(id)
         \/ /\ Len(approvals) < CertificateApprovalsCount
            /\ proposedRevocation' = Put(proposedRevocation, id, approvals)
            /\ UNCHANGED <<lists, approvedRoots, revokedRoots, bySubject, childCertificates>>
  /\ UNCHANGED <<trustees, proposedCertificate, rejectedCertificate, uniqueCertificate>>

-----------------------------------------------------------------------------
(* The handlers of the other certificates. *)

\* The certificates that share its identifier do not matter.
CanAdd_AnyIssuer(signer, cert) ==
  /\ ~IsSelfSigned(cert)
  /\ UniqueKey(cert) \notin uniqueCertificate
  /\ Verified(cert)

CanAdd(signer, cert) ==
  /\ ~IsSelfSigned(cert)
  /\ UniqueKey(cert) \notin uniqueCertificate
  /\ cert.id \in DOMAIN approvedCertificates =>
       /\ ~FirstIsRoot(cert.id)
       /\ approvedCertificates[cert.id][1].cert.issuer = cert.issuer
       /\ FirstOwner(cert.id) = signer
  /\ Verified(cert)

AddX509Cert(signer, cert) ==
  /\ CanAdd(signer, cert)
  /\ AddApprovedCertificate(cert, signer)
  /\ AddChildCertificate(cert.issuer, cert.id)
  /\ AddApprovedCertificateBySubject(cert.id)
  /\ uniqueCertificate' = uniqueCertificate \cup {UniqueKey(cert)}
  /\ UNCHANGED <<trustees, votes, revokedCertificates, approvedRoots, revokedRoots>>

\* The owner of a root certificate can revoke it.
CanRevoke_Root(signer, id) ==
  /\ id \in DOMAIN approvedCertificates
  /\ FirstOwner(id) = signer

CanRevoke(signer, id) ==
  /\ id \in DOMAIN approvedCertificates
  /\ ~FirstIsRoot(id)
  /\ FirstOwner(id) = signer

\* The owner of the first certificate revokes all of the list.
RevokeX509Cert(signer, id) ==
  /\ CanRevoke(signer, id)
  /\ LET issuer == approvedCertificates[id][1].cert.issuer
     IN  RevokeWithChildren(id, RemoveChildCertificate(issuer, id))
  /\ UNCHANGED <<trustees, votes, approvedRoots, revokedRoots, uniqueCertificate>>

\* x/dclauth adds or revokes a Trustee.
ChangeTrustees ==
  /\ \E a \in Address : trustees' \in {trustees \cup {a}, trustees \ {a}} \ {trustees}
  /\ UNCHANGED <<votes, lists, indexes>>

-----------------------------------------------------------------------------
Init ==
  /\ trustees = Genesis
  /\ proposedCertificate = EmptyStore
  /\ rejectedCertificate = EmptyStore
  /\ proposedRevocation = EmptyStore
  /\ approvedCertificates = EmptyStore
  /\ revokedCertificates = EmptyStore
  /\ approvedRoots = {}
  /\ revokedRoots = {}
  /\ bySubject = EmptyStore
  /\ childCertificates = EmptyStore
  /\ uniqueCertificate = {}

Next ==
  \/ ChangeTrustees
  \/ \E signer \in Owner :
       \/ \E cert \in Certificate : \/ ProposeAddX509RootCert(signer, cert)
                                    \/ AddX509Cert(signer, cert)
       \/ \E id \in CertID : RevokeX509Cert(signer, id)
  \/ \E signer \in Address, id \in CertID :
       \/ ApproveAddX509RootCert(signer, id)
       \/ RejectAddX509RootCert(signer, id)
       \/ ProposeRevokeX509RootCert(signer, id)
       \/ ApproveRevokeX509RootCert(signer, id)

Spec == Init /\ [][Next]_vars
-----------------------------------------------------------------------------
(* Properties. *)

Entry == [cert : Certificate, owner : Address]

Proposal == [cert : Certificate, owner : Address,
             approvals : Seq(Address), rejects : Seq(Address)]

\* The stores hold what their types say, a proposal is filed under its own
\* identifier and only self-signed certificates are proposed as roots.
TypeOK ==
  /\ trustees \subseteq Address
  /\ IsStore(proposedCertificate, CertID, Proposal)
  /\ IsStore(rejectedCertificate, CertID, Proposal)
  /\ IsStore(proposedRevocation, CertID, Seq(Address))
  /\ IsStore(approvedCertificates, CertID, Seq(Entry) \ {<<>>})
  /\ IsStore(revokedCertificates, CertID, Seq(Entry) \ {<<>>})
  /\ approvedRoots \subseteq CertID /\ revokedRoots \subseteq CertID
  /\ IsStore(bySubject, Subject, SUBSET KeyID)
  /\ IsStore(childCertificates, CertID, SUBSET CertID)
  /\ uniqueCertificate \subseteq Subject \X Nat
  /\ \A id \in DOMAIN proposedCertificate :
       proposedCertificate[id].cert.id = id /\ IsSelfSigned(proposedCertificate[id].cert)

\* No certificate outlives its chain: whatever the handlers add and revoke, in
\* whatever order, every approved certificate still has a chain of approved
\* ones up to an approved root (verifyCertificate looks only when it is added,
\* afterwards RevokeChildCertificates has to keep it true).
EveryChainEndsInRoot == DOMAIN approvedCertificates = Anchored

\* The root certificates in a list.
Roots(store, id) == {e.cert : e \in {f \in Range(ListOf(store, id)) : IsSelfSigned(f.cert)}}

\* The indexes that the handlers change by hand agree with the lists.  The
\* child index has an identifier under an issuer exactly when the issuer
\* signed one of its approved certificates, so RevokeChildCertificates visits
\* what it must; the subject index has the key ids of the approved lists.
\* Every approved root is on the list of approved roots and every id on the
\* list of revoked roots has a revoked one, although an id that was revoked
\* and approved again is on both (ApproveAddX509RootCert leaves the second).
IndexesAgree ==
  /\ \A id \in DOMAIN childCertificates : childCertificates[id] # {}
  /\ \A p, id \in CertID :
       id \in Children(p) <=>
         /\ id \in DOMAIN approvedCertificates
         /\ \E e \in Range(approvedCertificates[id]) : ~IsSelfSigned(e.cert) /\ e.cert.issuer = p
  /\ \A s \in DOMAIN bySubject : bySubject[s] # {}
  /\ \A id \in CertID :
       /\ id \in DOMAIN approvedCertificates <=> id[2] \in SetOf(bySubject, id[1])
       /\ Roots(approvedCertificates, id) # {} => id \in approvedRoots
       /\ id \in revokedRoots => Roots(revokedCertificates, id) # {}

\* No certificate is below itself, so that the recursions of
\* RevokeChildCertificates and verifyCertificate come to an end.
NoCycle == \A id \in CertID : id \notin Descendants(id)

\* Where the certificates are: proposed, or at a place of a list.
ListPlaces(kind, store) == UNION {{<<kind, id, i>> : i \in DOMAIN store[id]} : id \in DOMAIN store}

Places ==
  {<<"proposed", id, 1>> : id \in DOMAIN proposedCertificate}
  \cup ListPlaces("approved", approvedCertificates) \cup ListPlaces("revoked", revokedCertificates)

CertAt(place) ==
  CASE place[1] = "proposed" -> proposedCertificate[place[2]].cert
    [] place[1] = "approved" -> approvedCertificates[place[2]][place[3]].cert
    [] place[1] = "revoked" -> revokedCertificates[place[2]][place[3]].cert

\* A pair of issuer and serial number is used once: a certificate that was
\* proposed, approved or revoked is nowhere else, under any identifier, and
\* holds its entry of the unique-certificate index.
CertificatesAreUnique ==
  \A p \in Places :
    /\ UniqueKey(CertAt(p)) \in uniqueCertificate
    /\ \A q \in Places : UniqueKey(CertAt(p)) = UniqueKey(CertAt(q)) => p = q

\* An open revocation is about root certificates that are still approved: no
\* other path can take them away before the last Trustee approves.
RevocationHasRoot ==
  \A id \in DOMAIN proposedRevocation :
    id \in DOMAIN approvedCertificates /\ FirstIsRoot(id) /\ id \in approvedRoots

\* The approvals that the voters and one Trustee more can have given.
Quorum(voters) ==
  \E t \in trustees \ Voters(voters) :
    Cardinality(Voters(voters) \cup {t}) >= CertificateApprovalsCount

RootStep ==
  \A id \in CertID :
    LET before == Roots(approvedCertificates, id)
        after == Roots(approvedCertificates', id)
    IN  /\ \A cert \in after \ before :
             /\ id \in DOMAIN proposedCertificate
             /\ proposedCertificate[id].cert = cert
             /\ Quorum(proposedCertificate[id].approvals)
        /\ before \ after # {} /\ FirstIsRoot(id) =>
             /\ id \in DOMAIN proposedRevocation
             /\ Quorum(proposedRevocation[id])

\* A root certificate becomes approved only when enough different accounts,
\* the Trustee whose vote settles it included, approved that very
\* certificate, and a list that starts with a root certificate goes only when
\* enough approved its revocation (the two handlers that approve).
RootsChangeByQuorum == [][RootStep]_vars

\* docs/transactions.md of REVOKE_X509_CERT: "Root certificates can not be
\* revoked this way".  Violated: the first certificate of a list decides, and
\* a root certificate can be approved behind one that is not.
RootsLeaveByRevocation ==
  [][\A id \in CertID :
       ~(Roots(approvedCertificates, id) \subseteq Roots(approvedCertificates', id)) =>
         id \in DOMAIN proposedRevocation]_vars
=============================================================================
