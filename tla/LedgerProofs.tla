----------------------------- MODULE LedgerProofs ----------------------------
(***************************************************************************)
(* The accounts of x/dclauth and what is built on them, for any set of     *)
(* addresses and consensus keys, any genesis file, any proposals and any   *)
(* number of transactions: the invariants of Dclauth; transactions are     *)
(* executed once and in order (Transactions); x/validator behaves on the   *)
(* whole ledger as its own module says, and no account leaves but by a     *)
(* quorum or on evidence (Pool).                                           *)
(***************************************************************************)
EXTENDS Transactions, Pool, LedgerLemmas

USE DEF AccountApprovalsPercent, VendorAccountApprovalsPercent

-----------------------------------------------------------------------------
(* Types. *)

\* The genesis file has finitely many accounts.
LEMMA GenesisFacts ==
  /\ IsFiniteSet(DOMAIN Genesis)
  /\ Cardinality(DOMAIN Genesis) \in Nat
BY AddressAssumption, GenesisAssumption, FS_Subset, FS_CardinalityType DEF IsStore

\* The genesis accounts are well formed.
LEMMA TypeInit == Init => TypeOK
<1> SUFFICES ASSUME Init PROVE TypeOK
  OBVIOUS
<1>1. PICK number \in Injection(DOMAIN Genesis, 0..Cardinality(DOMAIN Genesis) - 1) :
        account = [a \in DOMAIN Genesis |->
                     [roles |-> Genesis[a].roles, vid |-> Genesis[a].vid,
                      number |-> number[a]]]
  BY DEF Init
<1>2. number \in [DOMAIN Genesis -> Nat]
  BY GenesisFacts DEF Injection
<1>3. ASSUME NEW a \in DOMAIN Genesis
      PROVE  account[a] \in AccountType
  BY <1>1, <1>2, <1>3, GenesisAssumption DEF AccountType, ProfileType, ValidProfile, IsStore
<1>4. IsStore(account, Address, AccountType)
  BY <1>1, <1>3, GenesisAssumption DEF IsStore
<1>5. QED
  BY <1>4, GenesisFacts, EmptyIsStore DEF Init, TypeOK

\* The record of a new account is well formed.
LEMMA NewAccountType ==
  ASSUME TypeOK, NEW p, p.roles \in SUBSET Role, p.vid \in VendorID \cup {0}, ValidProfile(p)
  PROVE  NewAccount(p) \in AccountType
BY DEF TypeOK, NewAccount, AccountType, ValidProfile

\* A record with lists of votes is a proposal.
LEMMA PendingRecord ==
  ASSUME NEW p, p.roles \in SUBSET Role, p.vid \in VendorID \cup {0}, ValidProfile(p),
         NEW s \in Seq(Address), Len(s) > 0, NEW r \in Seq(Address)
  PROVE  [roles |-> p.roles, vid |-> p.vid, approvals |-> s, rejects |-> r] \in PendingType
BY DEF PendingType, ValidProfile

\* A proposal stays well formed when a vote is added to it.
LEMMA VoteType ==
  ASSUME NEW pend \in PendingType, NEW signer \in Address
  PROVE  /\ Approved(pend, signer) \in PendingType
         /\ Rejected(pend, signer) \in PendingType
         /\ Approved(pend, signer).roles = pend.roles
         /\ Approved(pend, signer).vid = pend.vid
         /\ Rejected(pend, signer).roles = pend.roles
         /\ Rejected(pend, signer).vid = pend.vid
<1>1. /\ pend.approvals \in Seq(Address)
      /\ pend.rejects \in Seq(Address)
      /\ Len(pend.approvals) > 0
  BY DEF PendingType
<1>2. /\ Append(pend.approvals, signer) \in Seq(Address)
      /\ Len(Append(pend.approvals, signer)) > 0
      /\ Append(pend.rejects, signer) \in Seq(Address)
  BY <1>1, AppendVoters
<1>3. QED
  BY <1>1, <1>2, Zenon DEF PendingType, Approved, Rejected, ValidProfile

\* An account that is revoked keeps its type.
LEMMA MoveToRevokedType ==
  ASSUME TypeOK, NEW addr \in Address, MoveToRevoked(addr)
  PROVE  /\ IsStore(account', Address, AccountType)
         /\ IsStore(revokedAccount', Address, AccountType)
<1>1. account[addr] \in AccountType
  BY DEF TypeOK, IsStore, MoveToRevoked
<1>2. QED
  BY <1>1, PutIsStore, DeleteIsStore DEF TypeOK, MoveToRevoked

\* Every handler leaves well-formed records.
LEMMA TypeStep == TypeOK /\ [Next]_vars => TypeOK'
<1> SUFFICES ASSUME TypeOK, [Next]_vars PROVE TypeOK'
  OBVIOUS
<1> USE DEF TypeOK
<1>1. ASSUME NEW signer \in Address, NEW addr \in Address, NEW p \in Profile,
             ProposeAddAccount(signer, addr, p)
      PROVE  TypeOK'
  <2>1. p.roles \in SUBSET Role /\ p.vid \in VendorID \cup {0} /\ ValidProfile(p)
    BY <1>1, ProfileAssumption DEF ProposeAddAccount, CanPropose, ProfileType
  <2>2. NewPendingAccount(p, signer) \in PendingType
    <3>1. /\ <<signer>> \in Seq(Address) /\ Len(<<signer>>) > 0
          /\ <<>> \in Seq(Address)
      BY FirstVote
    <3>2. QED
      BY <2>1, <3>1, PendingRecord, Zenon DEF NewPendingAccount
  <2>3. NewAccount(p) \in AccountType
    BY <2>1, NewAccountType
  <2>4. IsStore(account', Address, AccountType)
    BY <1>1, <2>3, PutIsStore DEF ProposeAddAccount
  <2>5. IsStore(pendingAccount', Address, PendingType)
    BY <1>1, <2>2, PutIsStore DEF ProposeAddAccount
  <2>6. IsStore(rejectedAccount', Address, AccountType)
    BY <1>1, DeleteIsStore DEF ProposeAddAccount
  <2>7. accountStat' \in Nat
    BY <1>1 DEF ProposeAddAccount, GetNextAccountNumber
  <2>8. QED
    BY <1>1, <2>4, <2>5, <2>6, <2>7 DEF ProposeAddAccount
<1>2. ASSUME NEW signer \in Address, NEW addr \in Address, ApproveAddAccount(signer, addr)
      PROVE  TypeOK'
  <2> DEFINE pend == Approved(pendingAccount[addr], signer)
  <2>1. pend \in PendingType
    BY <1>2, VoteType DEF ApproveAddAccount, CanVote, IsStore
  <2>2. NewAccount(pend) \in AccountType
    BY <2>1, NewAccountType DEF PendingType
  <2> HIDE DEF pend
  <2>3. IsStore(account', Address, AccountType)
    BY <1>2, <2>2, PutIsStore DEF ApproveAddAccount, pend
  <2>4. IsStore(pendingAccount', Address, PendingType)
    BY <1>2, <2>1, PutIsStore, DeleteIsStore DEF ApproveAddAccount, pend
  <2>5. IsStore(revokedAccount', Address, AccountType)
    BY <1>2, DeleteIsStore DEF ApproveAddAccount
  <2>6. accountStat' \in Nat
    BY <1>2 DEF ApproveAddAccount, GetNextAccountNumber
  <2>7. QED
    BY <1>2, <2>3, <2>4, <2>5, <2>6 DEF ApproveAddAccount
<1>3. ASSUME NEW signer \in Address, NEW addr \in Address, RejectAddAccount(signer, addr)
      PROVE  TypeOK'
  <2> DEFINE pend == Rejected(pendingAccount[addr], signer)
  <2>1. pend \in PendingType
    BY <1>3, VoteType DEF RejectAddAccount, CanVote, IsStore
  <2>2. NewAccount(pend) \in AccountType
    BY <2>1, NewAccountType DEF PendingType
  <2> HIDE DEF pend
  <2>3. IsStore(rejectedAccount', Address, AccountType)
    BY <1>3, <2>2, PutIsStore DEF RejectAddAccount, pend
  <2>4. IsStore(pendingAccount', Address, PendingType)
    BY <1>3, <2>1, PutIsStore, DeleteIsStore DEF RejectAddAccount, pend
  <2>5. accountStat' \in Nat
    BY <1>3 DEF RejectAddAccount, GetNextAccountNumber
  <2>6. QED
    BY <1>3, <2>3, <2>4, <2>5 DEF RejectAddAccount
<1>4. ASSUME NEW signer \in Address, NEW addr \in Address, ProposeRevokeAccount(signer, addr)
      PROVE  TypeOK'
  <2>1. <<signer>> \in RevocationType
    BY FirstVote DEF RevocationType
  <2>2. IsStore(pendingAccountRevocation', Address, RevocationType)
    BY <1>4, <2>1, PutIsStore DEF ProposeRevokeAccount
  <2>3. /\ IsStore(account', Address, AccountType)
        /\ IsStore(revokedAccount', Address, AccountType)
    BY <1>4, MoveToRevokedType DEF ProposeRevokeAccount
  <2>4. QED
    BY <1>4, <2>2, <2>3 DEF ProposeRevokeAccount
<1>5. ASSUME NEW signer \in Address, NEW addr \in Address, ApproveRevokeAccount(signer, addr)
      PROVE  TypeOK'
  <2> DEFINE approvals == Append(pendingAccountRevocation[addr], signer)
  <2>1. approvals \in RevocationType
    BY <1>5, AppendVoters DEF ApproveRevokeAccount, CanApproveRevocation, IsStore, RevocationType
  <2> HIDE DEF approvals
  <2>2. IsStore(pendingAccountRevocation', Address, RevocationType)
    BY <1>5, <2>1, PutIsStore, DeleteIsStore DEF ApproveRevokeAccount, RevocationDone, approvals
  <2>3. /\ IsStore(account', Address, AccountType)
        /\ IsStore(revokedAccount', Address, AccountType)
    BY <1>5, MoveToRevokedType DEF ApproveRevokeAccount
  <2>4. QED
    BY <1>5, <2>2, <2>3 DEF ApproveRevokeAccount
<1>6. CASE UNCHANGED vars
  BY <1>6 DEF vars
<1>7. QED
  BY <1>1, <1>2, <1>3, <1>4, <1>5, <1>6 DEF Next, SignedBy

\* Every record on the ledger is well formed, in every reachable state.
THEOREM TypeCorrect == Spec => []TypeOK
BY TypeInit, TypeStep, PTL DEF Spec

-----------------------------------------------------------------------------
(* The status of an address. *)

\* No handler puts an address into a second one of the three stores.
LEMMA StatusStep == StoresApart /\ [Next]_vars => StoresApart'
<1> SUFFICES ASSUME StoresApart, [Next]_vars PROVE StoresApart'
  OBVIOUS
<1> USE DEF StoresApart
<1>1. ASSUME NEW signer \in Address, NEW addr \in Address, NEW p \in Profile,
             ProposeAddAccount(signer, addr, p)
      PROVE  StoresApart'
  BY <1>1 DEF Put, Delete, ProposeAddAccount, CanPropose
<1>2. ASSUME NEW signer \in Address, NEW addr \in Address, ApproveAddAccount(signer, addr)
      PROVE  StoresApart'
  BY <1>2 DEF Put, Delete, ApproveAddAccount, CanVote
<1>3. ASSUME NEW signer \in Address, NEW addr \in Address, RejectAddAccount(signer, addr)
      PROVE  StoresApart'
  BY <1>3 DEF Put, Delete, RejectAddAccount, CanVote
<1>4. ASSUME NEW signer \in Address, NEW addr \in Address, ProposeRevokeAccount(signer, addr)
      PROVE  StoresApart'
  BY <1>4 DEF Delete, ProposeRevokeAccount, MoveToRevoked
<1>5. ASSUME NEW signer \in Address, NEW addr \in Address, ApproveRevokeAccount(signer, addr)
      PROVE  StoresApart'
  BY <1>5 DEF Delete, ApproveRevokeAccount, MoveToRevoked
<1>6. CASE UNCHANGED vars
  BY <1>6 DEF vars
<1>7. QED
  BY <1>1, <1>2, <1>3, <1>4, <1>5, <1>6 DEF Next, SignedBy

\* An address is never active, proposed and rejected at the same time.
LEMMA StoresApartCorrect == Spec => []StoresApart
<1>1. Init => StoresApart
  BY EmptyIsStore, SMTT(30) DEF Init, StoresApart
<1>2. QED
  BY <1>1, StatusStep, PTL DEF Spec

-----------------------------------------------------------------------------
(* Open revocations. *)

\* An account goes only together with its revocation.
LEMMA RevocationStep == RevocationHasAccount /\ [Next]_vars => RevocationHasAccount'
<1> SUFFICES ASSUME RevocationHasAccount, [Next]_vars PROVE RevocationHasAccount'
  OBVIOUS
<1> USE DEF RevocationHasAccount
<1>1. ASSUME NEW signer \in Address, NEW addr \in Address, NEW p \in Profile,
             ProposeAddAccount(signer, addr, p)
      PROVE  RevocationHasAccount'
  BY <1>1 DEF Put, ProposeAddAccount
<1>2. ASSUME NEW signer \in Address, NEW addr \in Address, ApproveAddAccount(signer, addr)
      PROVE  RevocationHasAccount'
  BY <1>2 DEF Put, ApproveAddAccount
<1>3. ASSUME NEW signer \in Address, NEW addr \in Address, RejectAddAccount(signer, addr)
      PROVE  RevocationHasAccount'
  BY <1>3 DEF RejectAddAccount
<1>4. ASSUME NEW signer \in Address, NEW addr \in Address, ProposeRevokeAccount(signer, addr)
      PROVE  RevocationHasAccount'
  BY <1>4 DEF Put, Delete, ProposeRevokeAccount, MoveToRevoked
<1>5. ASSUME NEW signer \in Address, NEW addr \in Address, ApproveRevokeAccount(signer, addr)
      PROVE  RevocationHasAccount'
  BY <1>5
  DEF Put, Delete, ApproveRevokeAccount, CanApproveRevocation, MoveToRevoked, RevocationDone
<1>6. CASE UNCHANGED vars
  BY <1>6 DEF vars
<1>7. QED
  BY <1>1, <1>2, <1>3, <1>4, <1>5, <1>6 DEF Next, SignedBy

\* A revocation is open only for an account that exists.
THEOREM RevocationCorrect == Spec => []RevocationHasAccount
<1>1. Init => RevocationHasAccount
  BY EmptyIsStore DEF Init, RevocationHasAccount
<1>2. QED
  BY <1>1, RevocationStep, PTL DEF Spec

\* An address has one status, and a revocation that is open one to revoke.
THEOREM StatusCorrect == Spec => []OneStatusPerAddress
<1>1. StoresApart /\ RevocationHasAccount => OneStatusPerAddress
  BY DEF OneStatusPerAddress
<1>2. QED
  BY <1>1, StoresApartCorrect, RevocationCorrect, PTL

-----------------------------------------------------------------------------
(* Votes. *)

\* A vote of somebody who has not voted keeps one vote each.
LEMMA OneMoreVote ==
  ASSUME NEW pend \in PendingType, NEW signer \in Address,
         OneVoteEach(pend), ~HasVoted(pend, signer)
  PROVE  /\ OneVoteEach(Approved(pend, signer))
         /\ OneVoteEach(Rejected(pend, signer))
<1>1. /\ pend.approvals \in Seq(Address) /\ NoRepeats(pend.approvals)
      /\ pend.rejects \in Seq(Address) /\ NoRepeats(pend.rejects)
      /\ signer \notin Voters(pend.approvals) /\ signer \notin Voters(pend.rejects)
      /\ Voters(pend.approvals) \cap Voters(pend.rejects) = {}
  BY DEF PendingType, OneVoteEach, HasVoted
<1>2. /\ NoRepeats(Append(pend.approvals, signer))
      /\ NoRepeats(Append(pend.rejects, signer))
      /\ Voters(Append(pend.approvals, signer)) = Voters(pend.approvals) \cup {signer}
      /\ Voters(Append(pend.rejects, signer)) = Voters(pend.rejects) \cup {signer}
  BY <1>1, AppendNoRepeats, AppendVoters
<1>3. /\ Approved(pend, signer).approvals = Append(pend.approvals, signer)
      /\ Approved(pend, signer).rejects = pend.rejects
      /\ Rejected(pend, signer).rejects = Append(pend.rejects, signer)
      /\ Rejected(pend, signer).approvals = pend.approvals
  BY DEF PendingType, Approved, Rejected
<1>4. QED
  BY <1>1, <1>2, <1>3 DEF OneVoteEach

\* No handler records a second vote of anybody.
LEMMA VotesStep == TypeOK /\ VotesCountOnce /\ [Next]_vars => VotesCountOnce'
<1> SUFFICES ASSUME TypeOK, VotesCountOnce, [Next]_vars PROVE VotesCountOnce'
  OBVIOUS
<1> USE DEF VotesCountOnce
<1>1. ASSUME NEW signer \in Address, NEW addr \in Address, NEW p \in Profile,
             ProposeAddAccount(signer, addr, p)
      PROVE  VotesCountOnce'
  <2>1. OneVoteEach(NewPendingAccount(p, signer))
    BY FirstVote DEF OneVoteEach, NewPendingAccount
  <2>2. QED
    BY <1>1, <2>1 DEF Put, ProposeAddAccount
<1>2. ASSUME NEW signer \in Address, NEW addr \in Address, ApproveAddAccount(signer, addr)
      PROVE  VotesCountOnce'
  <2>1. OneVoteEach(Approved(pendingAccount[addr], signer))
    BY <1>2, OneMoreVote DEF ApproveAddAccount, CanVote, TypeOK, IsStore
  <2>2. QED
    BY <1>2, <2>1 DEF Put, Delete, ApproveAddAccount
<1>3. ASSUME NEW signer \in Address, NEW addr \in Address, RejectAddAccount(signer, addr)
      PROVE  VotesCountOnce'
  <2>1. OneVoteEach(Rejected(pendingAccount[addr], signer))
    BY <1>3, OneMoreVote DEF RejectAddAccount, CanVote, TypeOK, IsStore
  <2>2. QED
    BY <1>3, <2>1 DEF Put, Delete, RejectAddAccount
<1>4. ASSUME NEW signer \in Address, NEW addr \in Address, ProposeRevokeAccount(signer, addr)
      PROVE  VotesCountOnce'
  BY <1>4, FirstVote DEF Put, ProposeRevokeAccount
<1>5. ASSUME NEW signer \in Address, NEW addr \in Address, ApproveRevokeAccount(signer, addr)
      PROVE  VotesCountOnce'
  <2>1. /\ pendingAccountRevocation[addr] \in Seq(Address)
        /\ NoRepeats(pendingAccountRevocation[addr])
        /\ signer \notin Voters(pendingAccountRevocation[addr])
    BY <1>5 DEF ApproveRevokeAccount, CanApproveRevocation, TypeOK, IsStore, RevocationType
  <2>2. NoRepeats(Append(pendingAccountRevocation[addr], signer))
    BY <2>1, AppendNoRepeats
  <2>3. QED
    BY <1>5, <2>2, Zenon DEF Put, Delete, ApproveRevokeAccount, RevocationDone
<1>6. CASE UNCHANGED vars
  BY <1>6 DEF vars
<1>7. QED
  BY <1>1, <1>2, <1>3, <1>4, <1>5, <1>6 DEF Next, SignedBy

\* Nobody ever has two votes on a proposal.
THEOREM VotesCorrect == Spec => []VotesCountOnce
<1>1. Init => VotesCountOnce
  BY EmptyIsStore DEF Init, VotesCountOnce
<1>2. QED
  BY <1>1, TypeCorrect, VotesStep, PTL DEF Spec

-----------------------------------------------------------------------------
(* Account numbers. *)

\* What makes NumbersAreUnique inductive: every number in use has been given
\* out, so the next one is in nobody's hands.
NumbersAreIssued ==
  /\ \A a \in DOMAIN account : account[a].number < accountStat
  /\ \A a \in DOMAIN revokedAccount : revokedAccount[a].number < accountStat
  /\ \A a \in DOMAIN rejectedAccount : rejectedAccount[a].number < accountStat

NumbersInv == NumbersAreIssued /\ NumbersAreUnique

\* The genesis accounts are numbered from 0 on.
LEMMA NumbersInit == Init => NumbersInv
<1> SUFFICES ASSUME Init PROVE NumbersInv
  OBVIOUS
<1>1. PICK number \in Injection(DOMAIN Genesis, 0..Cardinality(DOMAIN Genesis) - 1) :
        account = [a \in DOMAIN Genesis |->
                     [roles |-> Genesis[a].roles, vid |-> Genesis[a].vid,
                      number |-> number[a]]]
  BY DEF Init
<1>2. \A a \in DOMAIN Genesis : number[a] \in Nat /\ number[a] < accountStat
  BY GenesisFacts DEF Injection, Init
<1>3. \A a, b \in DOMAIN Genesis : number[a] = number[b] => a = b
  BY DEF Injection, IsInjective
<1>4. NumbersAreIssued
  BY <1>1, <1>2, EmptyIsStore, SMTT(30) DEF Init, NumbersAreIssued
<1>5. NumbersAreUnique
  BY <1>1, <1>3, EmptyIsStore, SMTT(30) DEF Init, NumbersAreUnique
<1>6. QED
  BY <1>4, <1>5 DEF NumbersInv

\* Moving an account to the revoked ones moves its number with it.
LEMMA MoveKeepsNumbers ==
  ASSUME NumbersInv, NEW addr \in Address, MoveToRevoked(addr),
         UNCHANGED <<rejectedAccount, accountStat>>
  PROVE  NumbersInv'
<1>1. NumbersAreIssued'
  BY DEF NumbersInv, NumbersAreIssued, MoveToRevoked, Put, Delete
<1>2. NumbersAreUnique'
  BY DEF NumbersInv, NumbersAreUnique, MoveToRevoked, Put, Delete
<1>3. QED
  BY <1>1, <1>2 DEF NumbersInv

\* Nothing happens to the numbers when these stores stay as they are.
LEMMA SameNumbers ==
  ASSUME NumbersInv, UNCHANGED <<account, revokedAccount, rejectedAccount, accountStat>>
  PROVE  NumbersInv'
BY DEF NumbersInv, NumbersAreIssued, NumbersAreUnique

\* No handler gives out a number that is in use.
LEMMA NumbersStep == TypeOK /\ NumbersInv /\ [Next]_vars => NumbersInv'
<1> SUFFICES ASSUME TypeOK, NumbersInv, [Next]_vars PROVE NumbersInv'
  OBVIOUS
<1>t. /\ accountStat \in Nat
      /\ \A a \in DOMAIN account : account[a].number \in Nat
      /\ \A a \in DOMAIN revokedAccount : revokedAccount[a].number \in Nat
      /\ \A a \in DOMAIN rejectedAccount : rejectedAccount[a].number \in Nat
  BY DEF TypeOK, IsStore, AccountType
<1>1. ASSUME NEW signer \in Address, NEW addr \in Address, NEW p \in Profile,
             ProposeAddAccount(signer, addr, p)
      PROVE  NumbersInv'
  <2>1. NumbersAreIssued'
    BY <1>1, <1>t
       DEF ProposeAddAccount, CanPropose, GetNextAccountNumber, NewAccount, Put, Delete,
           NumbersInv, NumbersAreIssued
  <2>2. NumbersAreUnique'
    BY <1>1, <1>t
       DEF ProposeAddAccount, CanPropose, GetNextAccountNumber, NewAccount, Put, Delete,
           NumbersInv, NumbersAreIssued, NumbersAreUnique
  <2>3. QED
    BY <2>1, <2>2 DEF NumbersInv
<1>2. ASSUME NEW signer \in Address, NEW addr \in Address, ApproveAddAccount(signer, addr)
      PROVE  NumbersInv'
  <2>1. NumbersAreIssued'
    BY <1>2, <1>t
       DEF ApproveAddAccount, GetNextAccountNumber, NewAccount, Put, Delete,
           NumbersInv, NumbersAreIssued
  <2>2. NumbersAreUnique'
    BY <1>2, <1>t
       DEF ApproveAddAccount, GetNextAccountNumber, NewAccount, Put, Delete,
           NumbersInv, NumbersAreIssued, NumbersAreUnique
  <2>3. QED
    BY <2>1, <2>2 DEF NumbersInv
<1>3. ASSUME NEW signer \in Address, NEW addr \in Address, RejectAddAccount(signer, addr)
      PROVE  NumbersInv'
  <2>1. NumbersAreIssued'
    BY <1>3, <1>t
       DEF RejectAddAccount, GetNextAccountNumber, NewAccount, Put, Delete,
           NumbersInv, NumbersAreIssued
  <2>2. NumbersAreUnique'
    BY <1>3, <1>t
       DEF RejectAddAccount, GetNextAccountNumber, NewAccount, Put, Delete,
           NumbersInv, NumbersAreIssued, NumbersAreUnique
  <2>3. QED
    BY <2>1, <2>2 DEF NumbersInv
<1>4. ASSUME NEW signer \in Address, NEW addr \in Address, ProposeRevokeAccount(signer, addr)
      PROVE  NumbersInv'
  <2>1. CASE MoveToRevoked(addr)
    BY <1>4, <2>1, MoveKeepsNumbers DEF ProposeRevokeAccount
  <2>2. CASE UNCHANGED <<account, revokedAccount>>
    BY <1>4, <2>2, SameNumbers DEF ProposeRevokeAccount
  <2>3. QED
    BY <1>4, <2>1, <2>2 DEF ProposeRevokeAccount
<1>5. ASSUME NEW signer \in Address, NEW addr \in Address, ApproveRevokeAccount(signer, addr)
      PROVE  NumbersInv'
  <2>1. CASE MoveToRevoked(addr)
    BY <1>5, <2>1, MoveKeepsNumbers DEF ApproveRevokeAccount
  <2>2. CASE UNCHANGED <<account, revokedAccount>>
    BY <1>5, <2>2, SameNumbers DEF ApproveRevokeAccount
  <2>3. QED
    BY <1>5, <2>1, <2>2 DEF ApproveRevokeAccount
<1>6. CASE UNCHANGED vars
  BY <1>6, SameNumbers DEF vars
<1>7. QED
  BY <1>1, <1>2, <1>3, <1>4, <1>5, <1>6 DEF Next, SignedBy

\* No two records carry the same account number.
THEOREM NumbersCorrect == Spec => []NumbersAreUnique
<1>1. NumbersInv => NumbersAreUnique
  BY DEF NumbersInv
<1>2. QED
  BY <1>1, NumbersInit, TypeCorrect, NumbersStep, PTL DEF Spec

\* Every step gives out fresh numbers only.
LEMMA FreshStep == TypeOK /\ [Next]_vars => FreshNumberStep \/ UNCHANGED vars
<1> SUFFICES ASSUME TypeOK, Next PROVE FreshNumberStep
  OBVIOUS
<1>t. accountStat \in Nat
  BY DEF TypeOK
<1> USE DEF FreshNumberStep
<1>1. ASSUME NEW signer \in Address, NEW addr \in Address, NEW p \in Profile,
             ProposeAddAccount(signer, addr, p)
      PROVE  FreshNumberStep
  BY <1>1, <1>t DEF ProposeAddAccount, CanPropose, GetNextAccountNumber, NewAccount, Put
<1>2. ASSUME NEW signer \in Address, NEW addr \in Address, ApproveAddAccount(signer, addr)
      PROVE  FreshNumberStep
  BY <1>2, <1>t DEF ApproveAddAccount, GetNextAccountNumber, NewAccount, Put
<1>3. ASSUME NEW signer \in Address, NEW addr \in Address, RejectAddAccount(signer, addr)
      PROVE  FreshNumberStep
  BY <1>3, <1>t DEF RejectAddAccount, GetNextAccountNumber
<1>4. ASSUME NEW signer \in Address, NEW addr \in Address, ProposeRevokeAccount(signer, addr)
      PROVE  FreshNumberStep
  BY <1>4, <1>t DEF ProposeRevokeAccount, MoveToRevoked, Delete
<1>5. ASSUME NEW signer \in Address, NEW addr \in Address, ApproveRevokeAccount(signer, addr)
      PROVE  FreshNumberStep
  BY <1>5, <1>t DEF ApproveRevokeAccount, MoveToRevoked, Delete
<1>6. QED
  BY <1>1, <1>2, <1>3, <1>4, <1>5 DEF Next, SignedBy

\* A number that has been given out is never given out again.
THEOREM NumbersFresh == Spec => NumbersAreFresh
<1>1. TypeOK /\ [Next]_vars => [FreshNumberStep]_vars
  BY FreshStep
<1>2. QED
  BY <1>1, TypeCorrect, PTL DEF Spec, NumbersAreFresh

-----------------------------------------------------------------------------
(* Thresholds. *)

\* How the thresholds of AccountApprovalsCount lie between 1 and the number
\* of Trustees.
LEMMA CountFacts ==
  ASSUME TypeOK
  PROVE  /\ IsFiniteSet(AccountsWithRole("Trustee"))
         /\ CountAccountsWithRole("Trustee") \in Nat
         /\ AccountApprovalsCount(66) \in Nat
         /\ AccountApprovalsCount(33) \in Nat
         /\ AccountApprovalsCount(33) <= AccountApprovalsCount(66)
         /\ CountAccountsWithRole("Trustee") > 0 =>
              AccountApprovalsCount(66) <= CountAccountsWithRole("Trustee")
<1>1. AccountsWithRole("Trustee") \subseteq Address
  BY DEF TypeOK, IsStore, AccountsWithRole
<1>2. IsFiniteSet(AccountsWithRole("Trustee"))
  BY <1>1, AddressAssumption, FS_Subset
<1>3. CountAccountsWithRole("Trustee") \in Nat
  BY <1>2, FS_CardinalityType DEF CountAccountsWithRole
<1> DEFINE n == CountAccountsWithRole("Trustee")
<1>4. /\ RoundedShare(66, n) \in Nat /\ RoundedShare(33, n) \in Nat
      /\ RoundedShare(66, n) <= n
      /\ RoundedShare(33, n) <= RoundedShare(66, n)
  BY <1>3, ApprovalShares
<1> HIDE DEF n
<1>5. QED
  BY <1>2, <1>3, <1>4 DEF AccountApprovalsCount, n

\* Voters enough to settle a vote have voted when all the Trustees have.
THEOREM NoDraw == TypeOK => UndecidedHasVoter
<1> SUFFICES ASSUME TypeOK PROVE UndecidedHasVoter
  OBVIOUS
<1> DEFINE T == AccountsWithRole("Trustee")
<1>1. ASSUME NEW a \in DOMAIN pendingAccount, Undecided(pendingAccount[a]),
             \A t \in T : HasVoted(pendingAccount[a], t)
      PROVE  FALSE
  <2> DEFINE pro == pendingAccount[a].approvals
             con == pendingAccount[a].rejects
  <2>1. pro \in Seq(Address) /\ con \in Seq(Address)
    BY DEF TypeOK, IsStore, PendingType
  <2>2. T \subseteq Voters(pro) \cup Voters(con)
    BY <1>1 DEF HasVoted
  <2>3. /\ IsFiniteSet(Voters(pro)) /\ Cardinality(Voters(pro)) \in Nat
        /\ IsFiniteSet(Voters(con)) /\ Cardinality(Voters(con)) \in Nat
        /\ Cardinality(Voters(pro)) <= Len(pro)
        /\ Cardinality(Voters(con)) <= Len(con)
    BY <2>1, CountVoters
  <2> HIDE DEF T, pro, con
  <2>4. /\ IsFiniteSet(Voters(pro) \cup Voters(con))
        /\ Cardinality(Voters(pro) \cup Voters(con))
             <= Cardinality(Voters(pro)) + Cardinality(Voters(con))
    <3>1. IsFiniteSet(Voters(pro) \cap Voters(con))
      BY <2>3, FS_Intersection, Zenon
    <3>2. Cardinality(Voters(pro) \cap Voters(con)) \in Nat
      BY <3>1, FS_CardinalityType
    <3>3. /\ IsFiniteSet(Voters(pro) \cup Voters(con))
          /\ Cardinality(Voters(pro) \cup Voters(con))
               = Cardinality(Voters(pro)) + Cardinality(Voters(con))
                   - Cardinality(Voters(pro) \cap Voters(con))
      BY <2>3, FS_Union
    <3>4. QED
      BY <2>3, <3>2, <3>3
  <2>5. Cardinality(T) <= Cardinality(Voters(pro) \cup Voters(con))
    BY <2>2, <2>4, FS_Subset
  <2>6. Cardinality(Voters(pro) \cup Voters(con)) \in Nat
    BY <2>4, FS_CardinalityType
  <2>7. Cardinality(T) = CountAccountsWithRole("Trustee")
    BY DEF T, CountAccountsWithRole
  <2>8. Len(pro) < AccountApprovalsCount(66)
    BY <1>1, <2>1, CountFacts
       DEF Undecided, ApprovalsPercent, pro
  <2>9. Len(con) < CountAccountsWithRole("Trustee") - AccountApprovalsCount(66) + 1
    BY <1>1 DEF Undecided, AccountRejectApprovalsCount, con
  <2>10. Len(pro) \in Nat /\ Len(con) \in Nat
    BY <2>1
  <2>11. CountAccountsWithRole("Trustee") <= Len(pro) + Len(con)
    BY <2>3, <2>4, <2>5, <2>6, <2>7, <2>10, CountFacts
  <2>12. QED
    BY <2>8, <2>9, <2>10, <2>11, CountFacts
<1>2. ASSUME NEW a \in DOMAIN pendingAccountRevocation, T # {},
             Len(pendingAccountRevocation[a]) < AccountApprovalsCount(AccountApprovalsPercent),
             T \subseteq Voters(pendingAccountRevocation[a])
      PROVE  FALSE
  <2> DEFINE pro == pendingAccountRevocation[a]
  <2>1. pro \in Seq(Address)
    BY DEF TypeOK, IsStore, RevocationType
  <2>2. /\ IsFiniteSet(Voters(pro)) /\ Cardinality(Voters(pro)) \in Nat
        /\ Cardinality(Voters(pro)) <= Len(pro)
        /\ Len(pro) \in Nat
    BY <2>1, CountVoters
  <2>3. /\ Cardinality(T) <= Cardinality(Voters(pro))
        /\ Cardinality(T) = CountAccountsWithRole("Trustee")
    BY <1>2, <2>2, FS_Subset DEF CountAccountsWithRole
  <2>4. Cardinality(T) > 0
    BY <1>2, <2>3, CountFacts, FS_EmptySet
  <2>5. QED
    BY <1>2, <2>2, <2>3, <2>4, CountFacts DEF AccountApprovalsPercent
<1>3. QED
  BY <1>1, <1>2 DEF UndecidedHasVoter

\* No vote ends in a draw.
THEOREM VoterCorrect == Spec => []UndecidedHasVoter
BY TypeCorrect, NoDraw, PTL

-----------------------------------------------------------------------------
(* Quorums. *)

\* The entries of a list that nobody is in twice, and the vote of somebody
\* who is not in it, are as many people as the longer list has entries.
LEMMA OneMoreVoter ==
  ASSUME NEW s \in Seq(Address), NEW e \in Address, NoRepeats(s), e \notin Voters(s)
  PROVE  Cardinality(Voters(s) \cup {e}) = Len(Append(s, e))
<1>1. /\ IsFiniteSet(Voters(s))
      /\ Cardinality(Voters(s)) = Len(s)
  BY CountVoters
<1>2. Cardinality(Voters(s) \cup {e}) = Len(s) + 1
  BY <1>1, FS_AddElement, Zenon
<1>3. QED
  BY <1>2

\* A single vote is a quorum when the threshold is at most one.
LEMMA SingleVote ==
  ASSUME NEW votes, votes = {}, NEW e, NEW required \in Nat, required <= 1
  PROVE  Cardinality(votes \cup {e}) >= required
<1>1. Cardinality(votes \cup {e}) = 1
  BY FS_Singleton
<1>2. QED
  BY <1>1

\* Every handler changes accounts by a quorum only.
LEMMA QuorumHolds ==
  TypeOK /\ VotesCountOnce /\ StoresApart /\ [Next]_vars
    => QuorumStep \/ UNCHANGED vars
<1> SUFFICES ASSUME TypeOK, VotesCountOnce, StoresApart, Next
             PROVE  QuorumStep
  OBVIOUS
<1>c. \A roles : AccountApprovalsCount(ApprovalsPercent(roles)) \in Nat
  BY CountFacts DEF ApprovalsPercent, AccountApprovalsPercent, VendorAccountApprovalsPercent
<1>1. ASSUME NEW signer \in Address, NEW addr \in Address, NEW p \in Profile,
             ProposeAddAccount(signer, addr, p)
      PROVE  QuorumStep
  <2>1. CASE account' = account
    BY <2>1 DEF QuorumStep
  <2>2. CASE AccountApprovalsCount(ApprovalsPercent(p.roles)) <= 1
    <3>1. /\ account' = Put(account, addr, NewAccount(p)) \/ account' = account
          /\ addr \notin DOMAIN account
          /\ signer \in AccountsWithRole("Trustee")
          /\ AddVoters(addr) = {}
      BY <1>1, <2>2 DEF ProposeAddAccount, CanPropose, HasRole, AccountsWithRole, AddVoters
    <3>2. Cardinality(AddVoters(addr) \cup {signer})
            >= AccountApprovalsCount(ApprovalsPercent(p.roles))
      BY <1>c, <2>2, <3>1, SingleVote, Zenon
    <3>3. NewAccount(p).roles = p.roles
      BY DEF NewAccount
    <3>4. QED
      BY <3>1, <3>2, <3>3, Zenon DEF QuorumStep, Put
  <2>3. QED
    BY <1>1, <2>1, <2>2 DEF ProposeAddAccount
<1>2. ASSUME NEW signer \in Address, NEW addr \in Address, ApproveAddAccount(signer, addr)
      PROVE  QuorumStep
  <2> DEFINE pend == pendingAccount[addr]
             required == AccountApprovalsCount(ApprovalsPercent(pend.roles))
  <2>1. CASE account' = account
    BY <2>1 DEF QuorumStep
  <2>2. CASE account' # account
    <3>1. /\ addr \in DOMAIN pendingAccount
          /\ addr \notin DOMAIN account
          /\ signer \in AccountsWithRole("Trustee")
          /\ ~HasVoted(pend, signer)
      BY <1>2 DEF ApproveAddAccount, CanVote, HasRole, AccountsWithRole, StoresApart
    <3>2. /\ pend \in PendingType
          /\ pend.approvals \in Seq(Address)
          /\ NoRepeats(pend.approvals)
          /\ signer \notin Voters(pend.approvals)
      BY <3>1 DEF TypeOK, IsStore, PendingType, VotesCountOnce, OneVoteEach, HasVoted
    <3>3. /\ Approved(pend, signer).approvals = Append(pend.approvals, signer)
          /\ Approved(pend, signer).roles = pend.roles
      BY <3>2 DEF Approved, PendingType
    <3>4. /\ Len(Append(pend.approvals, signer)) >= required
          /\ account' = Put(account, addr, NewAccount(Approved(pend, signer)))
      BY <1>2, <2>2, <3>3 DEF ApproveAddAccount
    <3>5. Cardinality(AddVoters(addr) \cup {signer}) >= required
      BY <3>1, <3>2, <3>4, OneMoreVoter DEF AddVoters
    <3>6. account'[addr].roles = pend.roles
      BY <3>3, <3>4 DEF NewAccount, Put
    <3>7. QED
      BY <3>1, <3>4, <3>5, <3>6, Zenon DEF QuorumStep, Put
  <2>3. QED
    BY <2>1, <2>2
<1>3. ASSUME NEW signer \in Address, NEW addr \in Address, RejectAddAccount(signer, addr)
      PROVE  QuorumStep
  BY <1>3 DEF RejectAddAccount, QuorumStep
<1>r. ASSUME NEW signer \in AccountsWithRole("Trustee"), NEW addr, MoveToRevoked(addr),
             Cardinality(RevokeVoters(addr) \cup {signer})
               >= AccountApprovalsCount(AccountApprovalsPercent)
      PROVE  QuorumStep
  BY <1>r DEF MoveToRevoked, QuorumStep, Put, Delete
<1>4. ASSUME NEW signer \in Address, NEW addr \in Address, ProposeRevokeAccount(signer, addr)
      PROVE  QuorumStep
  <2>1. CASE account' = account
    BY <2>1 DEF QuorumStep
  <2>2. CASE account' # account
    <3>1. /\ MoveToRevoked(addr)
          /\ signer \in AccountsWithRole("Trustee")
          /\ RevokeVoters(addr) = {}
          /\ AccountApprovalsCount(AccountApprovalsPercent) <= 1
      BY <1>4, <2>2 DEF ProposeRevokeAccount, HasRole, AccountsWithRole, RevokeVoters
    <3>2. AccountApprovalsCount(AccountApprovalsPercent) \in Nat
      BY CountFacts DEF AccountApprovalsPercent
    <3>3. QED
      BY <1>r, <3>1, <3>2, SingleVote, Zenon
  <2>3. QED
    BY <2>1, <2>2
<1>5. ASSUME NEW signer \in Address, NEW addr \in Address, ApproveRevokeAccount(signer, addr)
      PROVE  QuorumStep
  <2> DEFINE pro == pendingAccountRevocation[addr]
  <2>1. CASE account' = account
    BY <2>1 DEF QuorumStep
  <2>2. CASE account' # account
    <3>1. /\ MoveToRevoked(addr)
          /\ addr \in DOMAIN pendingAccountRevocation
          /\ signer \in AccountsWithRole("Trustee")
          /\ signer \notin Voters(pro)
          /\ Len(Append(pro, signer)) >= AccountApprovalsCount(AccountApprovalsPercent)
      BY <1>5, <2>2 DEF ApproveRevokeAccount, CanApproveRevocation, HasRole, AccountsWithRole
    <3>2. pro \in Seq(Address) /\ NoRepeats(pro)
      BY <3>1 DEF TypeOK, IsStore, RevocationType, VotesCountOnce
    <3>3. Cardinality(RevokeVoters(addr) \cup {signer}) = Len(Append(pro, signer))
      BY <3>1, <3>2, OneMoreVoter DEF RevokeVoters
    <3>4. QED
      BY <1>r, <3>1, <3>3
  <2>3. QED
    BY <2>1, <2>2
<1>6. QED
  BY <1>1, <1>2, <1>3, <1>4, <1>5 DEF Next, SignedBy

\* Accounts come and go by a quorum of different voters only.
THEOREM QuorumCorrect == Spec => AccountsChangeByQuorum
<1>1. TypeOK /\ VotesCountOnce /\ StoresApart /\ [Next]_vars
        => [QuorumStep]_vars
  BY QuorumHolds
<1>2. QED
  BY <1>1, TypeCorrect, VotesCorrect, StoresApartCorrect, PTL
     DEF Spec, AccountsChangeByQuorum

-----------------------------------------------------------------------------
(* Transactions.  That one is executed once needs two facts that the ante  *)
(* handler does not check: what was executed for an address was signed     *)
(* with the number of its account or an older one, and with a lower        *)
(* sequence number when it is the number the account has now.              *)

\* What has been executed is behind the account of its signer.
ExecutedIsBehind ==
  \A i \in DOMAIN executed :
    LET tx == executed[i] IN
    /\ tx.number < accountStat
    /\ tx.signer \in DOMAIN account =>
         \/ tx.number < account[tx.signer].number
         \/ tx.number = account[tx.signer].number /\ tx.sequence < sequence[tx.signer]

\* Of the type invariant, what the argument needs.
TxTypes ==
  /\ sequence \in [DOMAIN account \cap Submitter -> Nat]
  /\ signed \subseteq Transaction
  /\ executed \in Seq(Transaction)

TxInv == TypeOK /\ NumbersInv /\ TxTypes /\ ExecutedIsBehind /\ ExecutedOnceInOrder

\* The invariants of x/dclauth hold as long as its variables stay.
LEMMA SameAccounts == TypeOK /\ NumbersInv /\ UNCHANGED vars => TypeOK' /\ NumbersInv'
BY TypeStep, NumbersStep

LEMMA ExecutedFields ==
  ASSUME TxTypes, NEW i \in DOMAIN executed
  PROVE  /\ executed[i].signer \in Submitter
         /\ executed[i].number \in Nat /\ executed[i].sequence \in Nat
<1>1. executed[i] \in Transaction
  BY DEF TxTypes
<1>2. QED
  BY <1>1 DEF Transaction

LEMMA TxInvInit == TxInit => TxInv
<1> SUFFICES ASSUME TxInit PROVE TxInv
  OBVIOUS
<1>1. TypeOK /\ NumbersInv
  BY TypeInit, NumbersInit DEF TxInit
<1>2. DOMAIN account = DOMAIN Genesis
  BY DEF TxInit, Init
<1>3. TxTypes /\ ExecutedIsBehind /\ ExecutedOnceInOrder
  BY <1>2 DEF TxInit, TxTypes, ExecutedIsBehind, ExecutedOnceInOrder
<1>4. QED
  BY <1>1, <1>3 DEF TxInv

\* Signing changes nothing that the ante handler looks at.
LEMMA SignKeeps ==
  ASSUME TxInv, NEW addr \in Submitter, NEW msg \in Message, Sign(addr, msg)
  PROVE  TxInv'
<1>1. TypeOK' /\ NumbersInv'
  BY SameAccounts DEF TxInv, Sign
<1>2. TxTypes'
  <2>1. account[addr].number \in Nat
    BY DEF TxInv, TypeOK, IsStore, AccountType, Sign
  <2>2. \A n \in sequence[addr]..MaxSequence : n \in Nat
    BY SignedAssumption DEF TxInv, TxTypes, Sign
  <2>3. QED
    BY <2>1, <2>2 DEF TxInv, TxTypes, Sign, Transaction, vars
<1>3. ExecutedIsBehind' /\ ExecutedOnceInOrder'
  <2>1. /\ account' = account /\ accountStat' = accountStat
        /\ sequence' = sequence /\ executed' = executed
    BY DEF Sign, vars
  <2>2. ExecutedIsBehind'
    BY <2>1, Zenon DEF TxInv, ExecutedIsBehind
  <2>3. ExecutedOnceInOrder'
    BY <2>1 DEF TxInv, ExecutedOnceInOrder, Later
  <2>4. QED
    BY <2>2, <2>3, Zenon
<1>4. QED
  BY <1>1, <1>2, <1>3 DEF TxInv

\* What passes the ante handler is later than all that its signer has had
\* executed, and the sequence number moves past it.
LEMMA DeliverKeeps ==
  ASSUME TxInv, NEW tx \in signed, DeliverTx(tx)
  PROVE  TxInv'
<1>1. TypeOK' /\ NumbersInv'
  BY SameAccounts DEF TxInv, DeliverTx
<1>2. /\ tx \in Transaction
      /\ tx.signer \in Submitter /\ tx.number \in Nat /\ tx.sequence \in Nat
      /\ tx.signer \in DOMAIN account
      /\ tx.number = account[tx.signer].number
      /\ tx.sequence = sequence[tx.signer]
      /\ sequence' = [sequence EXCEPT ![tx.signer] = @ + 1]
      /\ executed' = Append(executed, tx)
      /\ UNCHANGED <<account, accountStat, signed>>
  BY DEF TxInv, TxTypes, DeliverTx, Authenticated, IncrementSequence, Transaction, vars
<1>3. TxTypes'
  BY <1>2 DEF TxInv, TxTypes
<1>4. /\ executed \in Seq(Transaction)
      /\ DOMAIN executed' = 1..Len(executed) + 1
      /\ \A i \in DOMAIN executed : executed'[i] = executed[i]
      /\ executed'[Len(executed) + 1] = tx
      /\ DOMAIN executed = 1..Len(executed) /\ Len(executed) \in Nat
  BY <1>2 DEF TxInv, TxTypes
<1>5. \A i \in DOMAIN executed : executed[i].number \in Nat /\ executed[i].sequence \in Nat
  BY ExecutedFields DEF TxInv
<1>6. /\ tx.number < accountStat
      /\ \A a \in DOMAIN account \cap Submitter : sequence[a] \in Nat
  BY <1>2, SMTT(30) DEF TxInv, TxTypes, NumbersInv, NumbersAreIssued
<1>7. ExecutedIsBehind'
  <2>1. ASSUME NEW i \in DOMAIN executed
        PROVE  LET e == executed[i] IN
               /\ e.number < accountStat
               /\ e.signer \in DOMAIN account =>
                    \/ e.number < account[e.signer].number
                    \/ e.number = account[e.signer].number /\ e.sequence < sequence'[e.signer]
    <3>1. executed[i].signer \in Submitter
      BY ExecutedFields, SMTT(30) DEF TxInv
    <3>2. executed[i].signer \in DOMAIN account =>
            /\ sequence[executed[i].signer] \in Nat
            /\ sequence'[executed[i].signer] \in Nat
            /\ sequence'[executed[i].signer] >= sequence[executed[i].signer]
      BY <3>1, <1>2, <1>6 DEF TxInv, TxTypes
    <3>3. /\ executed[i].number < accountStat
          /\ executed[i].signer \in DOMAIN account =>
               \/ executed[i].number < account[executed[i].signer].number
               \/ /\ executed[i].number = account[executed[i].signer].number
                  /\ executed[i].sequence < sequence[executed[i].signer]
      BY DEF TxInv, ExecutedIsBehind
    <3>4. QED
      BY <3>2, <3>3, <1>5
  <2>2. tx.sequence < sequence'[tx.signer]
    BY <1>2 DEF TxInv, TxTypes
  <2>3. QED
    BY <2>1, <2>2, <1>2, <1>4, <1>6, SMTT(30) DEF ExecutedIsBehind
<1>8. ExecutedOnceInOrder'
  <2>1. \A i \in DOMAIN executed : executed[i].signer = tx.signer => Later(executed[i], tx)
    BY <1>2 DEF TxInv, ExecutedIsBehind, Later
  <2>2. QED
    BY <2>1, <1>4, SMTT(30) DEF TxInv, ExecutedOnceInOrder
<1>9. QED
  BY <1>1, <1>3, <1>7, <1>8 DEF TxInv

\* An account that is added has a number that nothing was signed with.
LEMMA AuthTxKeeps ==
  ASSUME TxInv, NEW signer \in Address, AuthTx(signer)
  PROVE  TxInv'
<1>1. Next
  BY DEF AuthTx, Next
<1>2. TypeOK' /\ NumbersInv'
  BY <1>1, TypeStep, NumbersStep DEF TxInv
<1>3. FreshNumberStep \/ UNCHANGED vars
  BY <1>1, FreshStep, SMTT(30) DEF TxInv
<1>4. /\ accountStat \in Nat /\ accountStat' \in Nat
      /\ UNCHANGED <<signed, executed>>
      /\ sequence' = [a \in DOMAIN account' \cap Submitter |->
                        IF a \notin DOMAIN account THEN 0
                        ELSE IF a = signer THEN sequence[a] + 1 ELSE sequence[a]]
  BY <1>2 DEF TxInv, TypeOK, AuthTx
<1>5. TxTypes'
  BY <1>4 DEF TxInv, TxTypes
<1>6. /\ accountStat' >= accountStat
      /\ \A a \in DOMAIN account' :
           \/ a \in DOMAIN account /\ account'[a] = account[a]
           \/ account'[a].number >= accountStat
  BY <1>3, <1>4 DEF FreshNumberStep, vars
<1>7. ExecutedIsBehind'
  <2>1. ASSUME NEW i \in DOMAIN executed
        PROVE  LET e == executed[i] IN
               /\ e.number < accountStat'
               /\ e.signer \in DOMAIN account' =>
                    \/ e.number < account'[e.signer].number
                    \/ e.number = account'[e.signer].number /\ e.sequence < sequence'[e.signer]
    <3>1. /\ executed[i].signer \in Submitter
          /\ executed[i].number \in Nat /\ executed[i].sequence \in Nat
      BY ExecutedFields DEF TxInv
    <3>2. executed[i].number < accountStat
      BY DEF TxInv, ExecutedIsBehind
    <3>3. \A a \in DOMAIN account' : account'[a].number \in Nat
      BY <1>2, SMTT(30) DEF TypeOK, IsStore, AccountType
    <3>4. CASE /\ executed[i].signer \in DOMAIN account' \cap DOMAIN account
               /\ account'[executed[i].signer] = account[executed[i].signer]
      <4>1. /\ sequence[executed[i].signer] \in Nat
            /\ sequence'[executed[i].signer] >= sequence[executed[i].signer]
            /\ sequence'[executed[i].signer] \in Nat
        BY <1>4, <3>1, <3>4 DEF TxInv, TxTypes
      <4>2. QED
        BY <1>4, <1>6, <3>1, <3>2, <3>4, <4>1, SMTT(30) DEF TxInv, ExecutedIsBehind
    <3>5. QED
      BY <1>4, <1>6, <3>1, <3>2, <3>3, <3>4, SMTT(30)
  <2>2. QED
    BY <1>4, <2>1, Zenon DEF ExecutedIsBehind
<1>8. ExecutedOnceInOrder'
  BY <1>4 DEF TxInv, ExecutedOnceInOrder
<1>9. QED
  BY <1>2, <1>5, <1>7, <1>8 DEF TxInv

LEMMA TxInvStep == TxInv /\ [TxNext]_allVars => TxInv'
<1> SUFFICES ASSUME TxInv, [TxNext]_allVars PROVE TxInv'
  OBVIOUS
<1>1. CASE UNCHANGED allVars
  <2>1. TypeOK' /\ NumbersInv'
    BY <1>1, SameAccounts, SMTT(30) DEF TxInv, allVars
  <2>2. TxTypes' /\ ExecutedIsBehind' /\ ExecutedOnceInOrder'
    BY <1>1 DEF TxInv, allVars, vars, txVars, TxTypes, ExecutedIsBehind,
                ExecutedOnceInOrder, Later
  <2>3. QED
    BY <2>1, <2>2 DEF TxInv
<1>2. QED
  BY <1>1, SignKeeps, DeliverKeeps, AuthTxKeeps DEF TxNext

\* A signed transaction is executed at most once, and those of one address in
\* the order they were signed for, whatever is delivered again or late and
\* whichever accounts are revoked and added again.
THEOREM OnceInOrder == TxSpec => []ExecutedOnceInOrder
<1>1. TxInv => ExecutedOnceInOrder
  BY DEF TxInv
<1>2. QED
  BY <1>1, TxInvInit, TxInvStep, PTL DEF TxSpec

\* A record of x/vendorinfo is only written by an account of its vendor, with
\* a transaction signed for the account the writer has now.
THEOREM VendorCorrect == TxSpec => RecordsByTheirVendor
<1>1. ASSUME NEW tx \in signed, DeliverTx(tx) PROVE VendorStep
  <2>1. CASE UNCHANGED vendorInfo
    BY <2>1 DEF VendorStep
  <2>2. CASE /\ VI!CanWrite(tx.signer, tx.msg.type, tx.msg.vid)
             /\ VI!WriteVendorInfo(tx.signer, tx.msg.vid, tx.msg.info)
    <3>1. HasRole(tx.signer, "Vendor") /\ account[tx.signer].vid = tx.msg.vid
      BY <2>2 DEF VI!CanWrite, VI!CheckVendorRights, Vendors, AccountsWithRole, HasRole
    <3>2. account[tx.signer].number = tx.number
      BY <1>1 DEF DeliverTx, Authenticated
    <3>3. vendorInfo' = [v \in DOMAIN vendorInfo \cup {tx.msg.vid} |->
                           IF v = tx.msg.vid THEN [creator |-> tx.signer, info |-> tx.msg.info]
                           ELSE vendorInfo[v]]
      BY <2>2 DEF VI!WriteVendorInfo, VI!Put
    <3>4. QED
      BY <3>1, <3>2, <3>3, Zenon DEF VendorStep
  <2>3. QED
    BY <1>1, <2>1, <2>2, SMTT(30) DEF DeliverTx, RunMsg
<1>2. ASSUME UNCHANGED vendorInfo PROVE VendorStep
  BY <1>2 DEF VendorStep
<1>3. TxNext => VendorStep
  BY <1>1, <1>2 DEF TxNext, AuthTx, Sign
<1>4. QED
  BY <1>3, PTL DEF TxSpec, RecordsByTheirVendor

-----------------------------------------------------------------------------
(* Pool implements Validator. *)

\* At most the account of the address a is added, changed or removed.
OneChanges(a) ==
  \/ UNCHANGED account
  \/ \E x : account' = Put(account, a, x)
  \/ account' = Delete(account, a)

\* A transaction of x/dclauth changes one account at most.
LEMMA OneAccountChanges ==
  ASSUME Next
  PROVE  \E a \in Address : OneChanges(a)
<1>1. PICK signer \in Address, a \in Address :
        \/ \E p \in Profile : ProposeAddAccount(signer, a, p)
        \/ ApproveAddAccount(signer, a)
        \/ RejectAddAccount(signer, a)
        \/ ProposeRevokeAccount(signer, a)
        \/ ApproveRevokeAccount(signer, a)
  BY Zenon DEF Next, SignedBy
<1>2. OneChanges(a)
  BY <1>1, Zenon
     DEF ProposeAddAccount, ApproveAddAccount, RejectAddAccount, ProposeRevokeAccount,
         ApproveRevokeAccount, MoveToRevoked, OneChanges
<1>3. QED
  BY <1>2

\* The accounts with a role gain or lose this address at most.
LEMMA RoleChanges ==
  ASSUME NEW a, OneChanges(a), NEW role
  PROVE  LET old == AccountsWithRole(role)
         IN  AccountsWithRole(role)' \in {old, old \cup {a}, old \ {a}}
<1> DEFINE old == AccountsWithRole(role)
<1>1. CASE UNCHANGED account
  BY <1>1 DEF AccountsWithRole
<1>2. CASE account' = Delete(account, a)
  <2>1. AccountsWithRole(role)' = old \ {a}
    BY <1>2 DEF AccountsWithRole, Delete
  <2>2. QED
    BY <2>1
<1>3. ASSUME NEW x, account' = Put(account, a, x)
      PROVE  AccountsWithRole(role)' \in {old, old \cup {a}, old \ {a}}
  <2>1. CASE role \in x.roles
    <3>1. AccountsWithRole(role)' = old \cup {a}
      BY <1>3, <2>1 DEF AccountsWithRole, Put
    <3>2. QED
      BY <3>1
  <2>2. CASE role \notin x.roles
    <3>1. AccountsWithRole(role)' = old \ {a}
      BY <1>3, <2>2 DEF AccountsWithRole, Put
    <3>2. QED
      BY <3>1
  <2>3. QED
    BY <2>1, <2>2
<1>4. QED
  BY <1>1, <1>2, <1>3, Zenon DEF OneChanges

\* A transaction of x/dclauth is a change of accounts as x/validator sees it.
LEMMA AccountTxMaps == AccountTx => V!ChangeAccounts
<1> SUFFICES ASSUME AccountTx PROVE V!ChangeAccounts
  OBVIOUS
<1>1. PICK a \in Address : OneChanges(a)
  BY OneAccountChanges DEF AccountTx
<1>2. /\ LET old == AccountsWithRole("Trustee")
         IN  AccountsWithRole("Trustee")' \in {old, old \cup {a}, old \ {a}}
      /\ LET old == AccountsWithRole("NodeAdmin")
         IN  AccountsWithRole("NodeAdmin")' \in {old, old \cup {a}, old \ {a}}
  BY <1>1, RoleChanges, Zenon
<1>3. QED
  BY <1>2
     DEF AccountTx, nodeVars, V!ChangeAccounts, V!Deliver, V!nodes, V!disabling, V!consensus

\* The revocation that evidence brings is the one x/validator asks for.
LEMMA EvidenceMaps == Evidence => V!Evidence
<1> SUFFICES ASSUME NEW key \in ConsKey, NEW old \in BOOLEAN, NEW farBack \in BOOLEAN,
                    DoubleSign(key, old, farBack)
             PROVE  V!HandleDoubleSign(key, old, farBack)
  BY Zenon DEF Evidence, V!Evidence
<1> DEFINE owner == validatorByConsAddr[key]
<1>1. \/ account' = Delete(account, owner)
      \/ owner \notin DOMAIN account /\ UNCHANGED account
  BY DEF DoubleSign, RevokeOwner, MoveToRevoked
<1>2. \A role : AccountsWithRole(role)' = AccountsWithRole(role) \ {owner}
  BY <1>1 DEF AccountsWithRole, Delete
<1>3. QED
  BY <1>2 DEF DoubleSign, V!HandleDoubleSign, V!disabling, V!consensus

\* On the whole ledger x/validator behaves as its own module says: every
\* step is a step of that module or leaves its state as it is.
THEOREM PoolImplementsValidator == PoolSpec => ImplementsValidator
<1>1. PoolInit => V!Init
  BY DEF PoolInit
<1>2. [PoolNext]_poolVars => [V!Next]_V!vars
  <2>1. CASE AccountTx
    BY <2>1, AccountTxMaps DEF V!Next
  <2>2. CASE NodeTx
    BY <2>2 DEF NodeTx, V!Next
  <2>3. CASE Evidence
    BY <2>3, EvidenceMaps DEF V!Next
  <2>4. CASE EndBlock
    BY <2>4 DEF EndBlock, V!Next
  <2>5. CASE UNCHANGED poolVars
    <3>1. /\ AccountsWithRole("Trustee")' = AccountsWithRole("Trustee")
          /\ AccountsWithRole("NodeAdmin")' = AccountsWithRole("NodeAdmin")
      BY <2>5 DEF poolVars, authVars, AccountsWithRole
    <3>2. QED
      BY <2>5, <3>1
         DEF poolVars, nodeVars, V!vars, V!accounts, V!nodes, V!disabling, V!consensus
  <2>6. QED
    BY <2>1, <2>2, <2>3, <2>4, <2>5 DEF PoolNext
<1>3. QED
  BY <1>1, <1>2, PTL DEF PoolSpec, ImplementsValidator, V!Safety

-----------------------------------------------------------------------------
(* Accounts that leave. *)

\* What the proof rests on: the invariants of x/dclauth that its quorums need,
\* and that evidence on a key finds a node.
LeaveInv ==
  /\ TypeOK /\ VotesCountOnce /\ StoresApart
  /\ \A k \in DOMAIN validatorByConsAddr : validatorByConsAddr[k] \in DOMAIN validator

\* The revocation that evidence brings keeps what x/dclauth relies on.
LEMMA RevokeOwnerKeeps ==
  ASSUME TypeOK, VotesCountOnce, StoresApart, NEW owner, RevokeOwner(owner)
  PROVE  TypeOK' /\ VotesCountOnce' /\ StoresApart'
<1>1. CASE MoveToRevoked(owner)
  <2>1. /\ IsStore(account', Address, AccountType)
        /\ IsStore(revokedAccount', Address, AccountType)
    <3>1. owner \in Address /\ account[owner] \in AccountType
      BY <1>1 DEF MoveToRevoked, TypeOK, IsStore
    <3>2. QED
      BY <1>1, <3>1, PutIsStore, DeleteIsStore, Zenon DEF MoveToRevoked, TypeOK
  <2>2. TypeOK'
    BY <2>1 DEF RevokeOwner, TypeOK
  <2>3. VotesCountOnce'
    BY DEF RevokeOwner, VotesCountOnce
  <2>4. StoresApart'
    BY <1>1 DEF RevokeOwner, MoveToRevoked, StoresApart, Delete
  <2>5. QED
    BY <2>2, <2>3, <2>4
<1>2. CASE UNCHANGED <<account, revokedAccount>>
  BY <1>2 DEF RevokeOwner, TypeOK, VotesCountOnce, StoresApart
<1>3. QED
  BY <1>1, <1>2 DEF RevokeOwner

\* No step of x/validator takes a node off the ledger.
LEMMA NodesStay ==
  ASSUME LeaveInv, V!NodeTx \/ Evidence \/ EndBlock \/ UNCHANGED nodeVars
  PROVE  \A k \in DOMAIN validatorByConsAddr' : validatorByConsAddr'[k] \in DOMAIN validator'
<1> DEFINE Stay == DOMAIN validator' = DOMAIN validator /\ UNCHANGED validatorByConsAddr
<1>1. ASSUME Stay
      PROVE  \A k \in DOMAIN validatorByConsAddr' :
               validatorByConsAddr'[k] \in DOMAIN validator'
  BY <1>1, SMTT(30) DEF LeaveInv
<1>2. ASSUME NEW a, NEW k, V!CreateValidator(a, k)
      PROVE  \A j \in DOMAIN validatorByConsAddr' :
               validatorByConsAddr'[j] \in DOMAIN validator'
  BY <1>2, Zenon DEF LeaveInv, V!CreateValidator, V!Put
<1>3. ASSUME NEW o, V!Jail(o) \/ V!Unjail(o) \/ UNCHANGED validator
      PROVE  DOMAIN validator' = DOMAIN validator
  BY <1>3 DEF V!Jail, V!Unjail
<1>4. CASE V!NodeTx
  <2>1. ASSUME NEW a, V!DisableValidator(a) \/ V!EnableValidator(a)
        PROVE  Stay
    BY <1>3, <2>1 DEF V!DisableValidator, V!EnableValidator
  <2>2. ASSUME NEW a, NEW o, \/ V!ProposeDisableValidator(a, o)
                            \/ V!ApproveDisableValidator(a, o)
                            \/ V!RejectDisableValidator(a, o)
        PROVE  Stay
    BY <1>3, <2>2, Zenon
       DEF V!ProposeDisableValidator, V!ApproveDisableValidator, V!RejectDisableValidator,
           V!nodes
  <2>3. QED
    BY <1>1, <1>2, <1>4, <2>1, <2>2, Zenon DEF V!NodeTx
<1>5. CASE Evidence
  BY <1>1, <1>3, <1>5, SMTT(30) DEF Evidence, DoubleSign, V!JailDoubleSigner
<1>6. CASE EndBlock
  BY <1>1, <1>6 DEF EndBlock, V!EndBlock, V!nodes
<1>7. CASE UNCHANGED nodeVars
  BY <1>1, <1>7 DEF nodeVars
<1>8. QED
  BY <1>4, <1>5, <1>6, <1>7

\* The inductive step.
LEMMA LeaveInvStep == LeaveInv /\ [PoolNext]_poolVars => LeaveInv'
<1> SUFFICES ASSUME LeaveInv, [PoolNext]_poolVars PROVE LeaveInv'
  OBVIOUS
<1>1. TypeOK /\ VotesCountOnce /\ StoresApart
  BY DEF LeaveInv
<1>2. CASE Evidence
  <2>1. TypeOK' /\ VotesCountOnce' /\ StoresApart'
    BY <1>1, <1>2, RevokeOwnerKeeps, SMTT(30) DEF Evidence, DoubleSign
  <2>2. QED
    BY <1>2, <2>1, NodesStay, SMTT(30) DEF LeaveInv
<1>3. CASE AccountTx
  <2>1. TypeOK' /\ VotesCountOnce' /\ StoresApart'
    BY <1>1, <1>3, TypeStep, VotesStep, StatusStep, SMTT(30) DEF AccountTx
  <2>2. QED
    BY <1>3, <2>1, NodesStay DEF LeaveInv, AccountTx
<1>4. CASE NodeTx \/ EndBlock \/ UNCHANGED poolVars
  <2>1. UNCHANGED vars
    BY <1>4 DEF NodeTx, EndBlock, poolVars, authVars, vars
  <2>2. TypeOK' /\ VotesCountOnce' /\ StoresApart'
    BY <1>1, <2>1, TypeStep, VotesStep, StatusStep
  <2>3. V!NodeTx \/ EndBlock \/ UNCHANGED nodeVars
    BY <1>4 DEF NodeTx, poolVars
  <2>4. QED
    BY <2>2, <2>3, NodesStay DEF LeaveInv
<1>5. QED
  BY <1>2, <1>3, <1>4 DEF PoolNext

\* An account leaves by a quorum, or on evidence against its owner's node.
LEMMA LeaveStep == LeaveInv /\ [PoolNext]_poolVars => EvidenceStep \/ UNCHANGED poolVars
<1> SUFFICES ASSUME LeaveInv, PoolNext PROVE EvidenceStep
  OBVIOUS
<1>1. ASSUME UNCHANGED account
      PROVE  QuorumStep
  BY <1>1 DEF QuorumStep
<1>2. CASE AccountTx
  <2>1. QuorumStep \/ UNCHANGED vars
    BY <1>2, QuorumHolds, SMTT(30) DEF AccountTx, LeaveInv
  <2>2. QED
    BY <1>1, <2>1, SMTT(30) DEF vars, EvidenceStep
<1>3. CASE NodeTx \/ EndBlock
  BY <1>1, <1>3, SMTT(30) DEF NodeTx, EndBlock, authVars, EvidenceStep
<1>4. CASE Evidence
  <2>1. PICK key \in ConsKey, old \in BOOLEAN, farBack \in BOOLEAN :
          DoubleSign(key, old, farBack)
    BY <1>4 DEF Evidence
  <2> DEFINE owner == validatorByConsAddr[key]
  <2>2. key \in DOMAIN validatorByConsAddr /\ owner \in DOMAIN validator
    BY <2>1 DEF DoubleSign, V!EvidenceAccepted, LeaveInv
  <2>3. validator'[owner].jailed
    <3>1. CASE V!Jail(owner)
      BY <2>2, <3>1 DEF V!Jail, V!Jailed
    <3>2. QED
      BY <2>1, <3>1, Zenon DEF DoubleSign, V!JailDoubleSigner
  <2>4. CASE MoveToRevoked(owner)
    <3>1. /\ DOMAIN account' = DOMAIN account \ {owner}
          /\ \A a \in DOMAIN account' : account'[a] = account[a]
          /\ owner \in DOMAIN revokedAccount' /\ revokedAccount'[owner] = account[owner]
      BY <2>4 DEF MoveToRevoked, Put, Delete
    <3>2. phase' = "begin" /\ key \in signers
      BY <2>1 DEF DoubleSign
    <3>3. QED
      BY <2>2, <2>3, <3>1, <3>2, Zenon DEF EvidenceStep
  <2>5. CASE UNCHANGED account
    BY <1>1, <2>5 DEF EvidenceStep
  <2>6. QED
    BY <2>1, <2>4, <2>5 DEF DoubleSign, RevokeOwner
<1>5. QED
  BY <1>2, <1>3, <1>4 DEF PoolNext

\* Only a quorum of different voters, or evidence of double signing against
\* a node that is jailed, takes an account off the ledger (HandleDoubleSign,
\* and the handlers of x/dclauth).
THEOREM LeaveCorrect == PoolSpec => AccountsLeaveByQuorumOrEvidence
<1>1. PoolInit => LeaveInv
  <2>1. Init => TypeOK /\ VotesCountOnce /\ StoresApart
    BY TypeInit, EmptyIsStore, SMTT(30) DEF Init, VotesCountOnce, StoresApart
  <2>2. V!Init => DOMAIN validatorByConsAddr = {}
    BY DEF V!Init, V!EmptyStore
  <2>3. QED
    BY <2>1, <2>2, SMTT(30) DEF PoolInit, LeaveInv
<1>2. QED
  BY <1>1, LeaveInvStep, LeaveStep, PTL DEF PoolSpec, AccountsLeaveByQuorumOrEvidence
-----------------------------------------------------------------------------
(* What is proved of Validator holds on the whole ledger. *)

VP == INSTANCE ValidatorProofs WITH
  Trustees <- GenesisWith("Trustee"), NodeAdmins <- GenesisWith("NodeAdmin"),
  trustees <- AccountsWithRole("Trustee"), nodeAdmins <- AccountsWithRole("NodeAdmin")

\* What ValidatorProofs assumes of its constants.
LEMMA ConstantsFit ==
  /\ MaxNodes \in Nat
  /\ VP!IsFiniteSet(Address)
  /\ GenesisWith("Trustee") \subseteq Address
  /\ GenesisWith("NodeAdmin") \subseteq Address
<1>1. VP!IsFiniteSet(Address)
  BY AddressAssumption, SMTT(30) DEF IsFiniteSet, VP!IsFiniteSet
<1>2. DOMAIN Genesis \subseteq Address
  BY GenesisAssumption, SMTT(30) DEF IsStore
<1>3. QED
  BY <1>1, <1>2, MaxNodesAssumption DEF GenesisWith

\* ValidatorProofs has the same transactions of x/validator.
LEMMA SameTransactions == V!NodeTx => VP!NodeTx
BY Zenon
   DEF V!NodeTx, VP!NodeTx, V!CreateValidator, VP!CreateValidator,
       V!CanCreate, VP!CanCreate, V!CountLastValidators, VP!CountLastValidators,
       V!Cardinality, VP!Cardinality,
       V!DisableValidator, VP!DisableValidator,
       V!EnableValidator, VP!EnableValidator,
       V!ProposeDisableValidator, VP!ProposeDisableValidator,
       V!ApproveDisableValidator, VP!ApproveDisableValidator,
       V!RejectDisableValidator, VP!RejectDisableValidator,
       V!CanVote, VP!CanVote, V!HasVoted, VP!HasVoted, V!Voters, VP!Voters,
       V!DisableValidatorApprovalsCount, VP!DisableValidatorApprovalsCount,
       V!DisableValidatorRejectApprovalsCount, VP!DisableValidatorRejectApprovalsCount,
       V!DisableValidatorPercent, VP!DisableValidatorPercent,
       V!RoundedShare, VP!RoundedShare, V!NewValidator, VP!NewValidator,
       V!Jail, VP!Jail, V!Jailed, VP!Jailed, V!Unjail, VP!Unjail,
       V!Unjailed, VP!Unjailed, V!Power, VP!Power, V!Put, VP!Put,
       V!Delete, VP!Delete, V!Range, VP!Range, V!Deliver, VP!Deliver,
       V!accounts, VP!accounts, V!nodes, VP!nodes, V!disabling, VP!disabling,
       V!consensus, VP!consensus

LEMMA SameEvidence == V!Evidence => VP!Evidence
BY Zenon
   DEF V!Evidence, VP!Evidence, V!HandleDoubleSign, VP!HandleDoubleSign,
       V!EvidenceAccepted, VP!EvidenceAccepted,
       V!JailDoubleSigner, VP!JailDoubleSigner, V!Jail, VP!Jail,
       V!Jailed, VP!Jailed, V!disabling, VP!disabling, V!consensus, VP!consensus

\* And the same specification.
LEMMA SameSpecification == V!Safety => VP!Safety
<1>1. V!Init => VP!Init
  BY DEF V!Init, VP!Init, V!EmptyStore, VP!EmptyStore
<1>2. [V!Next]_V!vars => [VP!Next]_VP!vars
  <2>1. V!EndBlock => VP!EndBlock
    BY Zenon DEF V!EndBlock, VP!EndBlock, V!Leaving, VP!Leaving,
                 V!Joining, VP!Joining, V!KeysOf, VP!KeysOf,
                 V!accounts, VP!accounts, V!nodes, VP!nodes,
                 V!disabling, VP!disabling
  <2>2. V!ChangeAccounts => VP!ChangeAccounts
    BY Zenon DEF V!ChangeAccounts, VP!ChangeAccounts, V!Deliver, VP!Deliver,
                 V!nodes, VP!nodes, V!disabling, VP!disabling,
                 V!consensus, VP!consensus
  <2>3. UNCHANGED V!vars => UNCHANGED VP!vars
    BY DEF V!vars, VP!vars, V!accounts, VP!accounts, V!nodes, VP!nodes,
           V!disabling, VP!disabling, V!consensus, VP!consensus
  <2>4. QED
    BY <2>1, <2>2, <2>3, SameTransactions, SameEvidence DEF V!Next, VP!Next
<1>3. QED
  BY <1>1, <1>2, PTL DEF V!Safety, VP!Safety

\* A disabled node is jailed, on a ledger where evidence revokes accounts and
\* Trustees vote on accounts and nodes in any order.
THEOREM PoolDisabled == PoolSpec => []DisabledIsJailed
<1>1. VP!DisabledIsJailed => DisabledIsJailed
  BY DEF DisabledIsJailed, V!DisabledIsJailed, VP!DisabledIsJailed
<1>2. VP!Safety => []VP!DisabledIsJailed
  BY VP!DisabledCorrect, ConstantsFit, Zenon
<1>3. QED
  BY <1>1, <1>2, PoolImplementsValidator, SameSpecification, PTL
     DEF ImplementsValidator

\* Nodes are jailed and return for a reason, the quorum being one of the
\* Trustees x/dclauth has at that moment.
THEOREM PoolReason == PoolSpec => JailedForAReason
<1>1. [VP!JailStep]_VP!vars => [V!JailStep]_V!vars
  BY Zenon DEF V!JailStep, VP!JailStep, V!Cardinality, VP!Cardinality,
               V!DisableValidatorApprovalsCount, VP!DisableValidatorApprovalsCount,
               V!DisableValidatorPercent, VP!DisableValidatorPercent,
               V!RoundedShare, VP!RoundedShare, V!vars, VP!vars,
               V!accounts, VP!accounts, V!nodes, VP!nodes,
               V!disabling, VP!disabling, V!consensus, VP!consensus
<1>2. VP!Safety => [][VP!JailStep]_VP!vars
  BY VP!ReasonCorrect, ConstantsFit, Zenon DEF VP!JailedForAReason
<1>3. QED
  BY <1>1, <1>2, PoolImplementsValidator, SameSpecification, PTL
     DEF ImplementsValidator, JailedForAReason, V!JailedForAReason
=============================================================================
