------------------------------ MODULE Validator ------------------------------
(***************************************************************************)
(* x/validator: the nodes of the pool.  A NodeAdmin adds one node and may  *)
(* disable and enable it; the Trustees disable a node by vote; evidence of *)
(* double signing jails a node and revokes the account of its owner.  The  *)
(* end of a block tells Tendermint how the validator set has changed.      *)
(*                                                                         *)
(* The accounts with the two roles are variables: x/dclauth adds and       *)
(* revokes them between the steps of this module.                          *)
(***************************************************************************)
EXTENDS FiniteSets, KVStore, TrusteeVoting

CONSTANTS
  Address,      \* account addresses; a node has the address of its owner
  ConsKey,      \* consensus keys of nodes
  Trustees,     \* the Trustees and the
  NodeAdmins,   \* NodeAdmins of the genesis file
  MaxNodes      \* how many nodes the pool may have

ASSUME AddressAssumption ==
  /\ IsFiniteSet(Address)
  /\ Trustees \subseteq Address /\ NodeAdmins \subseteq Address
ASSUME MaxNodesAssumption == MaxNodes \in Nat

VARIABLES
  trustees, nodeAdmins,      \* the accounts with these roles
  validator,                 \* the nodes: owner |-> key, power, jailed
  validatorByConsAddr,       \* index: consensus key |-> owner
  lastValidatorPower,        \* owners of the active nodes, as of the last block
  proposedDisableValidator,  \* open proposals to disable a node, with the votes
  disabledValidator,         \* disabled nodes: who approved it; none for its admin
  rejectedNode,              \* rejected proposals
  tmValidators,              \* keys in the validator set of Tendermint
  signers,                   \* keys that have ever been in it
  phase                      \* how far the execution of the block has come

accounts == <<trustees, nodeAdmins>>
nodes == <<validator, validatorByConsAddr>>
disabling == <<proposedDisableValidator, disabledValidator, rejectedNode>>
consensus == <<lastValidatorPower, tmValidators, signers>>
vars == <<accounts, nodes, disabling, consensus, phase>>

-----------------------------------------------------------------------------
(* The keeper. *)

Power == 10

NewValidator(key) == [key |-> key, power |-> Power, jailed |-> FALSE]

\* The node is flagged but keeps its power.
Jailed_KeepsPower(node) == [node EXCEPT !.jailed = TRUE]

Jailed(node) == [key |-> node.key, power |-> 0, jailed |-> TRUE]

Jail(owner) == validator' = [validator EXCEPT ![owner] = Jailed(@)]

Unjailed(node) == [key |-> node.key, power |-> Power, jailed |-> FALSE]

Unjail(owner) == validator' = [validator EXCEPT ![owner] = Unjailed(@)]

CountLastValidators == Cardinality(lastValidatorPower)

DisableValidatorPercent == 66

DisableValidatorApprovalsCount ==
  RoundedShare(DisableValidatorPercent, Cardinality(trustees))

DisableValidatorRejectApprovalsCount ==
  Cardinality(trustees) - DisableValidatorApprovalsCount + 1

-----------------------------------------------------------------------------
(* The transactions. *)

Deliver == phase' = "deliver"

\* The key may be the key of another node.
CanCreate_AnyKey(signer, key) ==
  /\ signer \in nodeAdmins
  /\ CountLastValidators # MaxNodes
  /\ signer \notin DOMAIN validator

CanCreate(signer, key) ==
  /\ signer \in nodeAdmins
  /\ CountLastValidators # MaxNodes
  /\ signer \notin DOMAIN validator
  /\ key \notin DOMAIN validatorByConsAddr

CreateValidator(signer, key) ==
  /\ CanCreate(signer, key)
  /\ validator' = Put(validator, signer, NewValidator(key))
  /\ validatorByConsAddr' = Put(validatorByConsAddr, key, signer)
  /\ Deliver
  /\ UNCHANGED <<accounts, disabling, consensus>>

\* The admin disables the node; an open proposal of the Trustees stays.
DisableValidator(creator) ==
  /\ creator \in nodeAdmins
  /\ creator \in DOMAIN validator
  /\ creator \notin DOMAIN disabledValidator
  /\ Jail(creator)
  /\ disabledValidator' = Put(disabledValidator, creator, {})
  /\ Deliver
  /\ UNCHANGED <<accounts, validatorByConsAddr, proposedDisableValidator, rejectedNode,
                 consensus>>

\* The record of who disabled the node stays.
EnableValidator_KeepsRecord(creator) ==
  /\ creator \in nodeAdmins
  /\ creator \in DOMAIN disabledValidator
  /\ Unjail(creator)
  /\ Deliver
  /\ UNCHANGED <<accounts, validatorByConsAddr, disabling, consensus>>

\* Whoever disabled the node, its admin enables it again.
EnableValidator(creator) ==
  /\ creator \in nodeAdmins
  /\ creator \in DOMAIN disabledValidator
  /\ Unjail(creator)
  /\ disabledValidator' = Delete(disabledValidator, creator)
  /\ Deliver
  /\ UNCHANGED <<accounts, validatorByConsAddr, proposedDisableValidator, rejectedNode,
                 consensus>>

ProposeDisableValidator(creator, owner) ==
  /\ creator \in trustees
  /\ owner \in DOMAIN validator
  /\ owner \notin DOMAIN disabledValidator
  /\ owner \notin DOMAIN proposedDisableValidator
  /\ \/ /\ DisableValidatorApprovalsCount > 1
        /\ proposedDisableValidator' =
             Put(proposedDisableValidator, owner, [approvals |-> <<creator>>, rejects |-> <<>>])
        /\ UNCHANGED <<validator, disabledValidator>>
     \/ /\ DisableValidatorApprovalsCount <= 1
        /\ Jail(owner)
        /\ disabledValidator' = Put(disabledValidator, owner, {creator})
        /\ UNCHANGED proposedDisableValidator
  /\ rejectedNode' = Delete(rejectedNode, owner)
  /\ Deliver
  /\ UNCHANGED <<accounts, validatorByConsAddr, consensus>>

\* A Trustee may approve again.
CanVote_Again(creator, owner) ==
  /\ creator \in trustees
  /\ owner \in DOMAIN proposedDisableValidator

CanVote(creator, owner) ==
  /\ creator \in trustees
  /\ owner \in DOMAIN proposedDisableValidator
  /\ ~HasVoted(proposedDisableValidator[owner], creator)

ApproveDisableValidator(creator, owner) ==
  /\ CanVote(creator, owner)
  /\ LET proposal == [proposedDisableValidator[owner] EXCEPT !.approvals = Append(@, creator)]
     IN  \/ /\ Len(proposal.approvals) >= DisableValidatorApprovalsCount
            /\ proposedDisableValidator' = Delete(proposedDisableValidator, owner)
            /\ Jail(owner)
            /\ disabledValidator' =
                 Put(disabledValidator, owner, Voters(proposal.approvals))
         \/ /\ Len(proposal.approvals) < DisableValidatorApprovalsCount
            /\ proposedDisableValidator' = Put(proposedDisableValidator, owner, proposal)
            /\ UNCHANGED <<validator, disabledValidator>>
  /\ Deliver
  /\ UNCHANGED <<accounts, validatorByConsAddr, rejectedNode, consensus>>

RejectDisableValidator(creator, owner) ==
  /\ CanVote(creator, owner)
  /\ LET proposal == [proposedDisableValidator[owner] EXCEPT !.rejects = Append(@, creator)]
     IN  \/ /\ Len(proposal.rejects) >= DisableValidatorRejectApprovalsCount
            /\ proposedDisableValidator' = Delete(proposedDisableValidator, owner)
            /\ rejectedNode' = Put(rejectedNode, owner, proposal)
         \/ /\ Len(proposal.rejects) < DisableValidatorRejectApprovalsCount
            /\ proposedDisableValidator' = Put(proposedDisableValidator, owner, proposal)
            /\ UNCHANGED rejectedNode
  /\ Deliver
  /\ UNCHANGED <<accounts, nodes, disabledValidator, consensus>>

-----------------------------------------------------------------------------
(* The block. *)

\* Evidence that is both old and many blocks back is ignored, and so is
\* evidence on a key that no node has.
EvidenceAccepted(key, old, farBack) ==
  /\ key \in DOMAIN validatorByConsAddr
  /\ ~(old /\ farBack)

\* The node of the key leaves the pool at the end of the block.
JailDoubleSigner(key) ==
  LET owner == validatorByConsAddr[key]
  IN  \/ ~validator[owner].jailed /\ Jail(owner)
      \/ validator[owner].jailed /\ UNCHANGED validator

\* Evidence comes with the beginning of a block, on keys that have been in
\* the validator set.  The account of the owner is revoked, if there is one.
HandleDoubleSign(key, old, farBack) ==
  /\ phase # "deliver"
  /\ key \in signers
  /\ EvidenceAccepted(key, old, farBack)
  /\ JailDoubleSigner(key)
  /\ trustees' = trustees \ {validatorByConsAddr[key]}
  /\ nodeAdmins' = nodeAdmins \ {validatorByConsAddr[key]}
  /\ phase' = "begin"
  /\ UNCHANGED <<validatorByConsAddr, disabling, consensus>>

\* Only nodes that were disabled leave, not those jailed on evidence.
Leaving_Disabled ==
  {o \in DOMAIN disabledValidator : o \in lastValidatorPower /\ validator[o].power = 0}

Leaving == {o \in DOMAIN validator : o \in lastValidatorPower /\ validator[o].power = 0}

\* Jailed nodes join as well.
Joining_AnyPower == DOMAIN validator \ lastValidatorPower

Joining == {o \in DOMAIN validator : o \notin lastValidatorPower /\ validator[o].power > 0}

KeysOf(owners) == {validator[o].key : o \in owners}

\* ApplyAndReturnValidatorSetUpdates, and what Tendermint does with the
\* updates.
EndBlock ==
  /\ lastValidatorPower' = (lastValidatorPower \ Leaving) \cup Joining
  /\ tmValidators' = (tmValidators \ KeysOf(Leaving)) \cup KeysOf(Joining)
  /\ signers' = signers \cup KeysOf(Joining)
  /\ phase' = "committed"
  /\ UNCHANGED <<accounts, nodes, disabling>>

\* A transaction of x/dclauth adds or revokes an account.
ChangeAccounts ==
  /\ \E a \in Address :
       /\ trustees' \in {trustees, trustees \cup {a}, trustees \ {a}}
       /\ nodeAdmins' \in {nodeAdmins, nodeAdmins \cup {a}, nodeAdmins \ {a}}
  /\ Deliver
  /\ UNCHANGED <<nodes, disabling, consensus>>

-----------------------------------------------------------------------------
Init ==
  /\ trustees = Trustees
  /\ nodeAdmins = NodeAdmins
  /\ validator = EmptyStore
  /\ validatorByConsAddr = EmptyStore
  /\ lastValidatorPower = {}
  /\ proposedDisableValidator = EmptyStore
  /\ disabledValidator = EmptyStore
  /\ rejectedNode = EmptyStore
  /\ tmValidators = {}
  /\ signers = {}
  /\ phase = "deliver"

NodeTx ==
  \E signer \in Address :
    \/ \E key \in ConsKey : CreateValidator(signer, key)
    \/ DisableValidator(signer)
    \/ EnableValidator(signer)
    \/ \E owner \in Address : \/ ProposeDisableValidator(signer, owner)
                              \/ ApproveDisableValidator(signer, owner)
                              \/ RejectDisableValidator(signer, owner)

Evidence ==
  \E key \in ConsKey, old, farBack \in BOOLEAN : HandleDoubleSign(key, old, farBack)

Next == NodeTx \/ Evidence \/ EndBlock \/ ChangeAccounts

Safety == Init /\ [][Next]_vars

\* Consensus goes on to the end of every block; nobody has to do anything.
Spec == Safety /\ WF_vars(EndBlock)

-----------------------------------------------------------------------------
(* Properties. *)

\* A node that is jailed has no power.
NodeType ==
  {n \in [key : ConsKey, power : Nat, jailed : BOOLEAN] :
     n.power = IF n.jailed THEN 0 ELSE Power}

VoteType == [approvals : Seq(Address), rejects : Seq(Address)]

\* Every record is well formed, and a jailed node has no power: Jail and
\* Unjail set both fields.
TypeOK ==
  /\ trustees \subseteq Address
  /\ nodeAdmins \subseteq Address
  /\ IsStore(validator, Address, NodeType)
  /\ IsStore(validatorByConsAddr, ConsKey, Address)
  /\ lastValidatorPower \subseteq Address
  /\ IsStore(proposedDisableValidator, Address, VoteType)
  /\ IsStore(disabledValidator, Address, SUBSET Address)
  /\ IsStore(rejectedNode, Address, VoteType)
  /\ tmValidators \subseteq signers
  /\ signers \subseteq ConsKey
  /\ phase \in {"committed", "begin", "deliver"}

\* The index by consensus key and the nodes tell the same story, so that
\* evidence on a key always finds the node that signed with it
\* (GetValidatorByConsAddr), and no two nodes share a key.
ConsIndexAgrees ==
  /\ \A o \in DOMAIN validator :
       /\ validator[o].key \in DOMAIN validatorByConsAddr
       /\ validatorByConsAddr[validator[o].key] = o
  /\ \A k \in DOMAIN validatorByConsAddr :
       /\ validatorByConsAddr[k] \in DOMAIN validator
       /\ validator[validatorByConsAddr[k]].key = k

\* A disabled node is jailed, whatever evidence, votes and transactions of
\* its admin come in between; otherwise a disabled node would go on signing.
DisabledIsJailed ==
  \A o \in DOMAIN disabledValidator : o \in DOMAIN validator /\ validator[o].jailed

\* The application and Tendermint agree on the validator set after every
\* block, and it is the set of the nodes with power: the updates that
\* ApplyAndReturnValidatorSetUpdates returns are neither lost nor repeated.
ValidatorSetAgrees ==
  /\ lastValidatorPower \subseteq DOMAIN validator
  /\ tmValidators = KeysOf(lastValidatorPower)
  /\ phase = "committed" =>
       lastValidatorPower = {o \in DOMAIN validator : validator[o].power > 0}

\* The step jails a node only for evidence, for its admin, or with the votes
\* of as many different Trustees as are required now, all of them recorded
\* with the node; and it returns a node to the pool only when the node was
\* disabled and its owner is a NodeAdmin.
JailStep ==
  \A o \in DOMAIN validator :
    /\ ~validator[o].jailed /\ validator'[o].jailed =>
         \/ phase' = "begin" /\ o \notin nodeAdmins' \cup trustees'
         \/ /\ o \in DOMAIN disabledValidator' \ DOMAIN disabledValidator
            /\ \/ disabledValidator'[o] = {} /\ o \in nodeAdmins
               \/ Cardinality(disabledValidator'[o]) >= DisableValidatorApprovalsCount
    /\ validator[o].jailed /\ ~validator'[o].jailed =>
         o \in DOMAIN disabledValidator /\ o \in nodeAdmins

\* Nodes are jailed and return for one of the reasons the code has for it.
JailedForAReason == [][JailStep]_vars

IsJailed(o) == o \in DOMAIN validator /\ validator[o].jailed

\* A node that is jailed leaves the validator set of Tendermint, unless it
\* is enabled before the block ends (EndBlocker runs after every block).
JailedLeavesSet ==
  \A o \in Address :
    IsJailed(o) ~> (~IsJailed(o) \/ validator[o].key \notin tmValidators)
=============================================================================
