-------------------------------- MODULE Pool ---------------------------------
(***************************************************************************)
(* x/dclauth and x/validator on one ledger.  The roles that x/validator    *)
(* asks for are those of the accounts of x/dclauth, and the evidence of    *)
(* double signing revokes an account past the votes of x/dclauth.          *)
(***************************************************************************)
EXTENDS Dclauth

CONSTANTS ConsKey, MaxNodes

ASSUME MaxNodesAssumption == MaxNodes \in Nat

VARIABLES
  validator, validatorByConsAddr, lastValidatorPower, proposedDisableValidator,
  disabledValidator, rejectedNode, tmValidators, signers, phase

authVars == <<account, pendingAccount, pendingAccountRevocation,
              revokedAccount, rejectedAccount, accountStat>>
nodeVars == <<validator, validatorByConsAddr, lastValidatorPower, proposedDisableValidator,
              disabledValidator, rejectedNode, tmValidators, signers>>
poolVars == <<authVars, nodeVars, phase>>

GenesisWith(role) == {a \in DOMAIN Genesis : role \in Genesis[a].roles}

V == INSTANCE Validator WITH
  Trustees <- GenesisWith("Trustee"), NodeAdmins <- GenesisWith("NodeAdmin"),
  trustees <- AccountsWithRole("Trustee"), nodeAdmins <- AccountsWithRole("NodeAdmin")

-----------------------------------------------------------------------------
\* A transaction of x/dclauth.
AccountTx == Next /\ phase' = "deliver" /\ UNCHANGED nodeVars

\* A transaction of x/validator.
NodeTx == UNCHANGED authVars /\ V!NodeTx

\* The account is removed without a record of its revocation.
RevokeOwner_Forgotten(owner) ==
  /\ account' = Delete(account, owner)
  /\ UNCHANGED <<pendingAccount, pendingAccountRevocation, revokedAccount, rejectedAccount,
                 accountStat>>

\* The account stays when its node double signs.
RevokeOwner_Not(owner) == UNCHANGED authVars

\* HandleDoubleSign moves the account of the owner to the revoked ones; that
\* the account is gone already is only logged.  Open votes about the account
\* are left as they are.
RevokeOwner(owner) ==
  /\ \/ MoveToRevoked(owner)
     \/ owner \notin DOMAIN account /\ UNCHANGED <<account, revokedAccount>>
  /\ UNCHANGED <<pendingAccount, pendingAccountRevocation, rejectedAccount, accountStat>>

DoubleSign(key, old, farBack) ==
  /\ phase # "deliver"
  /\ key \in signers
  /\ V!EvidenceAccepted(key, old, farBack)
  /\ V!JailDoubleSigner(key)
  /\ RevokeOwner(validatorByConsAddr[key])
  /\ phase' = "begin"
  /\ UNCHANGED <<validatorByConsAddr, lastValidatorPower, proposedDisableValidator,
                 disabledValidator, rejectedNode, tmValidators, signers>>

Evidence ==
  \E key \in ConsKey, old, farBack \in BOOLEAN : DoubleSign(key, old, farBack)

EndBlock == UNCHANGED authVars /\ V!EndBlock

PoolInit == Init /\ V!Init

PoolNext == AccountTx \/ NodeTx \/ Evidence \/ EndBlock

PoolSpec == PoolInit /\ [][PoolNext]_poolVars /\ WF_poolVars(EndBlock)

-----------------------------------------------------------------------------
(* Properties. *)

\* On the whole ledger x/validator behaves as its own module says, where
\* accounts come and go: every transaction of x/dclauth, and the revocation
\* that HandleDoubleSign makes itself, is a change of accounts that module
\* has been checked for.
ImplementsValidator == V!Safety

\* A disabled node is jailed, whatever evidence, votes on its owner's account
\* and on the node, and transactions of its admin come in between; otherwise
\* a disabled node would go on signing.
DisabledIsJailed == V!DisabledIsJailed

\* A node is jailed on evidence, by its admin or by a quorum of different
\* Trustees, counted among the Trustees there are when the vote is settled;
\* it comes back only by its admin and only after it was disabled.
JailedForAReason == V!JailedForAReason

\* An account that leaves without a quorum of the Trustees is the account of
\* the owner of a node that has just been jailed for double signing, or that
\* was jailed already, and it is kept among the revoked.
EvidenceStep ==
  QuorumStep \/
    \E k \in DOMAIN validatorByConsAddr :
      LET owner == validatorByConsAddr[k] IN
      /\ DOMAIN account' = DOMAIN account \ {owner}
      /\ \A a \in DOMAIN account' : account'[a] = account[a]
      /\ owner \in DOMAIN revokedAccount' /\ revokedAccount'[owner] = account[owner]
      /\ phase' = "begin" /\ k \in signers /\ validator'[owner].jailed

\* Nothing but a quorum or evidence takes an account off the ledger.
AccountsLeaveByQuorumOrEvidence == [][EvidenceStep]_poolVars
=============================================================================
