------------------------------- MODULE Dclauth -------------------------------
(***************************************************************************)
(* x/dclauth: the accounts of the ledger and the votes of the Trustees     *)
(* that add and revoke them.  One action is one transaction: a handler     *)
(* that returns an error changes nothing (its writes are rolled back), so  *)
(* its early returns are the guards of the action.                         *)
(***************************************************************************)
EXTENDS FiniteSets, KVStore, TrusteeVoting

CONSTANTS
  Address,           \* account addresses
  VendorID,          \* vendor ids in use; 0 is "no vendor id"
  Profile,           \* the (roles, vid) pairs that proposals ask for
  Genesis,           \* the accounts of the genesis file: address |-> profile
  MaxAccountNumber   \* bound on the account numbers given out

Role == {"Vendor", "CertificationCenter", "Trustee", "NodeAdmin"}

ProfileType == [roles : SUBSET Role, vid : VendorID \cup {0}]

\* What ValidateBasic and the handler ask of the roles of a new account.
ValidProfile(p) ==
  /\ p.roles # {}
  /\ "Vendor" \in p.roles => p.vid # 0

ASSUME AddressAssumption == IsFiniteSet(Address)
ASSUME VendorAssumption == VendorID \subseteq Nat \ {0}
ASSUME ProfileAssumption == Profile \subseteq ProfileType
ASSUME GenesisAssumption ==
  /\ IsStore(Genesis, Address, ProfileType)
  /\ \A a \in DOMAIN Genesis : ValidProfile(Genesis[a])
ASSUME BoundAssumption == MaxAccountNumber \in Nat

VARIABLES
  account,                   \* active accounts
  pendingAccount,            \* proposed accounts, with the votes so far
  pendingAccountRevocation,  \* proposed revocations, with the votes so far
  revokedAccount,            \* accounts as they were when revoked
  rejectedAccount,           \* accounts as they were proposed when rejected
  accountStat                \* the next account number

vars == <<account, pendingAccount, pendingAccountRevocation,
          revokedAccount, rejectedAccount, accountStat>>

-----------------------------------------------------------------------------
(* The keeper. *)

HasRole(addr, role) == addr \in DOMAIN account /\ role \in account[addr].roles

AccountsWithRole(role) == {a \in DOMAIN account : role \in account[a].roles}

CountAccountsWithRole(role) == Cardinality(AccountsWithRole(role))

AccountApprovalsPercent == 66

VendorAccountApprovalsPercent == 33

ApprovalsPercent(roles) ==
  IF roles = {"Vendor"} THEN VendorAccountApprovalsPercent
                        ELSE AccountApprovalsPercent

AccountApprovalsCount(percent) ==
  LET count == RoundedShare(percent, CountAccountsWithRole("Trustee"))
  IN  IF count = 0 THEN 1 ELSE count

\* One vote more than needed: all the Trustees may have voted and the
\* proposal is still open.
AccountRejectApprovalsCount_OffByOne ==
  CountAccountsWithRole("Trustee") - AccountApprovalsCount(AccountApprovalsPercent) + 2

AccountRejectApprovalsCount ==
  CountAccountsWithRole("Trustee") - AccountApprovalsCount(AccountApprovalsPercent) + 1

\* The number that is given out is not counted.
GetNextAccountNumber_NotStored == accountStat' = accountStat

\* Gives out accountStat.  The bound stands for the end of the run.
GetNextAccountNumber ==
  /\ accountStat < MaxAccountNumber
  /\ accountStat' = accountStat + 1

NewAccount(p) == [roles |-> p.roles, vid |-> p.vid, number |-> accountStat]

NewPendingAccount(p, signer) ==
  [roles |-> p.roles, vid |-> p.vid, approvals |-> <<signer>>, rejects |-> <<>>]

Approved(pend, signer) == [pend EXCEPT !.approvals = Append(@, signer)]

Rejected(pend, signer) == [pend EXCEPT !.rejects = Append(@, signer)]

\* AddAccountToRevokedAccount, which fails when there is no such account,
\* SetRevokedAccount and RemoveAccount.
MoveToRevoked(addr) ==
  /\ addr \in DOMAIN account
  /\ revokedAccount' = Put(revokedAccount, addr, account[addr])
  /\ account' = Delete(account, addr)

-----------------------------------------------------------------------------
(* The handlers. *)

\* The guard on the roles is missing.
CanPropose_AnyProfile(signer, addr, p) ==
  /\ HasRole(signer, "Trustee")
  /\ addr \notin DOMAIN account
  /\ addr \notin DOMAIN pendingAccount

CanPropose(signer, addr, p) ==
  /\ HasRole(signer, "Trustee")
  /\ ValidProfile(p)
  /\ addr \notin DOMAIN account
  /\ addr \notin DOMAIN pendingAccount

ProposeAddAccount(signer, addr, p) ==
  /\ CanPropose(signer, addr, p)
  /\ \/ /\ AccountApprovalsCount(ApprovalsPercent(p.roles)) > 1
        /\ pendingAccount' = Put(pendingAccount, addr, NewPendingAccount(p, signer))
        /\ UNCHANGED <<account, accountStat>>
     \/ /\ AccountApprovalsCount(ApprovalsPercent(p.roles)) <= 1
        /\ GetNextAccountNumber
        /\ account' = Put(account, addr, NewAccount(p))
        /\ UNCHANGED pendingAccount
  /\ rejectedAccount' = Delete(rejectedAccount, addr)
  /\ UNCHANGED <<pendingAccountRevocation, revokedAccount>>

\* What ApproveAddAccount and RejectAddAccount check before they count.
CanVote(signer, addr) ==
  /\ HasRole(signer, "Trustee")
  /\ addr \in DOMAIN pendingAccount
  /\ ~HasVoted(pendingAccount[addr], signer)

ApproveAddAccount(signer, addr) ==
  /\ CanVote(signer, addr)
  /\ LET pend == Approved(pendingAccount[addr], signer)
         required == AccountApprovalsCount(ApprovalsPercent(pend.roles))
     IN  \/ /\ Len(pend.approvals) >= required
            /\ GetNextAccountNumber
            /\ account' = Put(account, addr, NewAccount(pend))
            /\ revokedAccount' = Delete(revokedAccount, addr)
            /\ pendingAccount' = Delete(pendingAccount, addr)
         \/ /\ Len(pend.approvals) < required
            /\ pendingAccount' = Put(pendingAccount, addr, pend)
            /\ UNCHANGED <<account, revokedAccount, accountStat>>
  /\ UNCHANGED <<pendingAccountRevocation, rejectedAccount>>

\* The proposal stays on the ledger after its rejection.
RejectAddAccount_KeepsPending(signer, addr) ==
  /\ CanVote(signer, addr)
  /\ LET pend == Rejected(pendingAccount[addr], signer)
     IN  /\ Len(pend.rejects) >= AccountRejectApprovalsCount
         /\ GetNextAccountNumber
         /\ rejectedAccount' = Put(rejectedAccount, addr, NewAccount(pend))
         /\ pendingAccount' = Put(pendingAccount, addr, pend)
  /\ UNCHANGED <<account, pendingAccountRevocation, revokedAccount>>

RejectAddAccount(signer, addr) ==
  /\ CanVote(signer, addr)
  /\ LET pend == Rejected(pendingAccount[addr], signer)
     IN  \/ /\ Len(pend.rejects) >= AccountRejectApprovalsCount
            /\ GetNextAccountNumber
            /\ rejectedAccount' = Put(rejectedAccount, addr, NewAccount(pend))
            /\ pendingAccount' = Delete(pendingAccount, addr)
         \/ /\ Len(pend.rejects) < AccountRejectApprovalsCount
            /\ pendingAccount' = Put(pendingAccount, addr, pend)
            /\ UNCHANGED <<rejectedAccount, accountStat>>
  /\ UNCHANGED <<account, pendingAccountRevocation, revokedAccount>>

ProposeRevokeAccount(signer, addr) ==
  /\ HasRole(signer, "Trustee")
  /\ addr \in DOMAIN account
  /\ addr \notin DOMAIN pendingAccountRevocation
  /\ \/ /\ AccountApprovalsCount(AccountApprovalsPercent) > 1
        /\ pendingAccountRevocation' = Put(pendingAccountRevocation, addr, <<signer>>)
        /\ UNCHANGED <<account, revokedAccount>>
     \/ /\ AccountApprovalsCount(AccountApprovalsPercent) <= 1
        /\ MoveToRevoked(addr)
        /\ UNCHANGED pendingAccountRevocation
  /\ UNCHANGED <<pendingAccount, rejectedAccount, accountStat>>

\* The same Trustee may vote again.
CanApproveRevocation_Again(signer, addr) ==
  /\ HasRole(signer, "Trustee")
  /\ addr \in DOMAIN pendingAccountRevocation

CanApproveRevocation(signer, addr) ==
  /\ HasRole(signer, "Trustee")
  /\ addr \in DOMAIN pendingAccountRevocation
  /\ signer \notin Voters(pendingAccountRevocation[addr])

RevocationDone(addr) ==
  pendingAccountRevocation' = Delete(pendingAccountRevocation, addr)

ApproveRevokeAccount(signer, addr) ==
  /\ CanApproveRevocation(signer, addr)
  /\ LET approvals == Append(pendingAccountRevocation[addr], signer)
         required == AccountApprovalsCount(AccountApprovalsPercent)
     IN  \/ /\ Len(approvals) >= required
            /\ MoveToRevoked(addr)
            /\ RevocationDone(addr)
         \/ /\ Len(approvals) < required
            /\ pendingAccountRevocation' = Put(pendingAccountRevocation, addr, approvals)
            /\ UNCHANGED <<account, revokedAccount>>
  /\ UNCHANGED <<pendingAccount, rejectedAccount, accountStat>>

-----------------------------------------------------------------------------
\* InitGenesis numbers the accounts in the order of the genesis file, which
\* may be any.
Init ==
  /\ \E number \in Injection(DOMAIN Genesis, 0..Cardinality(DOMAIN Genesis) - 1) :
       account = [a \in DOMAIN Genesis |->
                    [roles |-> Genesis[a].roles, vid |-> Genesis[a].vid,
                     number |-> number[a]]]
  /\ pendingAccount = EmptyStore
  /\ pendingAccountRevocation = EmptyStore
  /\ revokedAccount = EmptyStore
  /\ rejectedAccount = EmptyStore
  /\ accountStat = Cardinality(DOMAIN Genesis)

\* A transaction of x/dclauth that the account of signer has signed.
SignedBy(signer) ==
  \E addr \in Address :
    \/ \E p \in Profile : ProposeAddAccount(signer, addr, p)
    \/ ApproveAddAccount(signer, addr)
    \/ RejectAddAccount(signer, addr)
    \/ ProposeRevokeAccount(signer, addr)
    \/ ApproveRevokeAccount(signer, addr)

Next == \E signer \in Address : SignedBy(signer)

Spec == Init /\ [][Next]_vars

-----------------------------------------------------------------------------
(* Properties. *)

AccountType == {r \in [roles : SUBSET Role, vid : VendorID \cup {0}, number : Nat] :
                  ValidProfile(r)}

PendingType == {r \in [roles : SUBSET Role, vid : VendorID \cup {0},
                       approvals : Seq(Address), rejects : Seq(Address)] :
                  ValidProfile(r) /\ Len(r.approvals) > 0}

RevocationType == {s \in Seq(Address) : Len(s) > 0}

\* Every record on the ledger is well formed: it has a role, a Vendor has a
\* vendor id (the checks of ValidateBasic and of ProposeAddAccount hold for
\* everything those checks let through), and a proposal carries the vote of
\* the one who made it.
TypeOK ==
  /\ IsStore(account, Address, AccountType)
  /\ IsStore(pendingAccount, Address, PendingType)
  /\ IsStore(pendingAccountRevocation, Address, RevocationType)
  /\ IsStore(revokedAccount, Address, AccountType)
  /\ IsStore(rejectedAccount, Address, AccountType)
  /\ accountStat \in Nat

\* An address is active, proposed or rejected, never two of them.
StoresApart ==
  /\ DOMAIN account \cap DOMAIN pendingAccount = {}
  /\ DOMAIN account \cap DOMAIN rejectedAccount = {}
  /\ DOMAIN pendingAccount \cap DOMAIN rejectedAccount = {}

\* A revocation is only open for an account that exists; otherwise its last
\* approval would fail in AddAccountToRevokedAccount for ever.
RevocationHasAccount == DOMAIN pendingAccountRevocation \subseteq DOMAIN account

\* Whatever order the votes, re-proposals and revocations come in, an address
\* has one status: the handlers keep the stores of active, proposed and
\* rejected accounts apart, and a revocation is open only for an active one.
OneStatusPerAddress == StoresApart /\ RevocationHasAccount

\* Nobody votes twice on a proposal, and nobody votes both ways, even one
\* who was revoked and added again while the proposal was open.
VotesCountOnce ==
  /\ \A a \in DOMAIN pendingAccount : OneVoteEach(pendingAccount[a])
  /\ \A a \in DOMAIN pendingAccountRevocation : NoRepeats(pendingAccountRevocation[a])

\* No two records of the ledger carry the same account number, an account
\* that was revoked or rejected included: a signature is bound to a number,
\* so a number that is used again makes old signatures valid again
\* (GetNextAccountNumber).
NumbersAreUnique ==
  /\ \A a, b \in DOMAIN account : account[a].number = account[b].number => a = b
  /\ \A a, b \in DOMAIN revokedAccount :
       revokedAccount[a].number = revokedAccount[b].number => a = b
  /\ \A a, b \in DOMAIN rejectedAccount :
       rejectedAccount[a].number = rejectedAccount[b].number => a = b
  /\ \A a \in DOMAIN account, b \in DOMAIN revokedAccount :
       account[a].number # revokedAccount[b].number
  /\ \A a \in DOMAIN account, b \in DOMAIN rejectedAccount :
       account[a].number # rejectedAccount[b].number
  /\ \A a \in DOMAIN revokedAccount, b \in DOMAIN rejectedAccount :
       revokedAccount[a].number # rejectedAccount[b].number

\* The votes that are short of both thresholds, for the Trustees there are now.
Undecided(pend) ==
  /\ Len(pend.approvals) < AccountApprovalsCount(ApprovalsPercent(pend.roles))
  /\ Len(pend.rejects) < AccountRejectApprovalsCount

\* A vote cannot end in a draw: while a proposal is short of both thresholds
\* some Trustee has still to vote on it, although Trustees come and go while
\* it is open and Vendor accounts have a lower threshold for approval but
\* not for rejection (AccountApprovalsCount, AccountRejectApprovalsCount).
UndecidedHasVoter ==
  /\ \A a \in DOMAIN pendingAccount :
       Undecided(pendingAccount[a]) =>
         \E t \in AccountsWithRole("Trustee") : ~HasVoted(pendingAccount[a], t)
  /\ \A a \in DOMAIN pendingAccountRevocation :
       Len(pendingAccountRevocation[a]) < AccountApprovalsCount(AccountApprovalsPercent) =>
         \/ AccountsWithRole("Trustee") = {}
         \/ \E t \in AccountsWithRole("Trustee") : t \notin Voters(pendingAccountRevocation[a])

\* The addresses that have approved the proposal or the revocation of addr.
AddVoters(addr) ==
  IF addr \in DOMAIN pendingAccount THEN Voters(pendingAccount[addr].approvals) ELSE {}

RevokeVoters(addr) ==
  IF addr \in DOMAIN pendingAccountRevocation
  THEN Voters(pendingAccountRevocation[addr]) ELSE {}

\* The step adds an account only with the votes of as many different
\* addresses as the roles of the account require, the last of them being a
\* Trustee; it removes one only with the votes that a revocation requires,
\* and keeps it among the revoked; it changes no account otherwise.
QuorumStep ==
  /\ \A a \in DOMAIN account' \ DOMAIN account :
       \E t \in AccountsWithRole("Trustee") :
         Cardinality(AddVoters(a) \cup {t})
           >= AccountApprovalsCount(ApprovalsPercent(account'[a].roles))
  /\ \A a \in DOMAIN account \ DOMAIN account' :
       /\ a \in DOMAIN revokedAccount' /\ revokedAccount'[a] = account[a]
       /\ \E t \in AccountsWithRole("Trustee") :
            Cardinality(RevokeVoters(a) \cup {t})
              >= AccountApprovalsCount(AccountApprovalsPercent)
  /\ \A a \in DOMAIN account \cap DOMAIN account' : account'[a] = account[a]

\* Accounts come and go by a quorum of different voters only: the handlers
\* count list entries, and this says that the entries are different people.
AccountsChangeByQuorum == [][QuorumStep]_vars

\* An account that the step adds or replaces carries a number it gives out.
FreshNumberStep ==
  /\ accountStat' >= accountStat
  /\ \A a \in DOMAIN account' :
       \/ a \in DOMAIN account /\ account'[a] = account[a]
       \/ account'[a].number >= accountStat /\ account'[a].number < accountStat'

\* A number that has been given out is never given out again, not even to
\* the address that had it before it was revoked (GetNextAccountNumber).
NumbersAreFresh == [][FreshNumberStep]_vars
=============================================================================
