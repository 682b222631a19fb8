--------------------------- MODULE ValidatorProofs ---------------------------
(***************************************************************************)
(* The invariants of Validator, for any set of addresses and consensus     *)
(* keys, any genesis file and any maximum of nodes.                        *)
(***************************************************************************)
EXTENDS Validator, LedgerLemmas

-----------------------------------------------------------------------------
(* Nodes. *)

\* The fields of a node.
LEMMA NodeFields ==
  ASSUME NEW n \in NodeType
  PROVE  /\ n.key \in ConsKey /\ n.jailed \in BOOLEAN
         /\ n.power = IF n.jailed THEN 0 ELSE Power
         /\ n = [key |-> n.key, power |-> n.power, jailed |-> n.jailed]
BY DEF NodeType

\* A new node is well formed, and so is a node that is jailed or returned.
LEMMA NodeRecords ==
  ASSUME NEW k \in ConsKey
  PROVE  /\ [key |-> k, power |-> Power, jailed |-> FALSE] \in NodeType
         /\ [key |-> k, power |-> 0, jailed |-> TRUE] \in NodeType
BY DEF NodeType, Power

\* A node that is jailed or returned keeps its key.
LEMMA NodeChanges ==
  ASSUME NEW n \in NodeType
  PROVE  /\ Jailed(n) \in NodeType /\ Jailed(n).key = n.key
         /\ Jailed(n).jailed = TRUE
         /\ Unjailed(n) \in NodeType /\ Unjailed(n).key = n.key
BY NodeFields, NodeRecords DEF Jailed, Unjailed

\* The nodes are the same ones, with the same keys.
SameNodes ==
  /\ DOMAIN validator' = DOMAIN validator
  /\ \A o \in DOMAIN validator : validator'[o].key = validator[o].key

\* Only this node has changed.
OthersSame(owner) ==
  /\ IsStore(validator', Address, NodeType)
  /\ SameNodes
  /\ \A o \in DOMAIN validator : o # owner => validator'[o] = validator[o]

\* Jailing changes the jailed node and no other.
LEMMA JailFacts ==
  ASSUME TypeOK, NEW owner \in DOMAIN validator, Jail(owner)
  PROVE  OthersSame(owner) /\ validator'[owner].jailed
<1>1. IsStore(validator, Address, NodeType)
  BY DEF TypeOK
<1>2. QED
  BY <1>1, NodeChanges, Zenon DEF Jail, IsStore, SameNodes, OthersSame

\* Returning a node to the pool changes this node and no other.
LEMMA UnjailFacts ==
  ASSUME TypeOK, NEW owner, Unjail(owner)
  PROVE  OthersSame(owner)
<1>1. IsStore(validator, Address, NodeType)
  BY DEF TypeOK
<1>2. QED
  BY <1>1, NodeChanges, Zenon DEF Unjail, IsStore, SameNodes, OthersSame

-----------------------------------------------------------------------------
(* The index by key, and what is disabled. *)

\* What makes DisabledIsJailed inductive: a proposal is about a node, so the
\* vote that settles it jails one; and evidence finds the node of its key.
NodeInv ==
  /\ TypeOK
  /\ ConsIndexAgrees
  /\ DOMAIN proposedDisableValidator \subseteq DOMAIN validator
  /\ DisabledIsJailed

\* The index stays right when no node changes its key.
LEMMA SameNodesKeep ==
  ASSUME ConsIndexAgrees, SameNodes, UNCHANGED validatorByConsAddr
  PROVE  ConsIndexAgrees'
BY DEF ConsIndexAgrees, SameNodes

\* There is nothing in the stores at first.
LEMMA NodeInvInit == Init => NodeInv
<1> SUFFICES ASSUME Init PROVE NodeInv
  OBVIOUS
<1>1. TypeOK
  BY EmptyIsStore, AddressAssumption DEF Init, TypeOK
<1>2. QED
  BY <1>1, EmptyIsStore DEF Init, NodeInv, ConsIndexAgrees, DisabledIsJailed

\* A new node has a key of its own.
LEMMA CreateKeeps ==
  ASSUME NodeInv, NEW signer \in Address, NEW key \in ConsKey, CreateValidator(signer, key)
  PROVE  NodeInv'
<1>1. /\ signer \notin DOMAIN validator /\ key \notin DOMAIN validatorByConsAddr
      /\ validator' = Put(validator, signer, NewValidator(key))
      /\ validatorByConsAddr' = Put(validatorByConsAddr, key, signer)
  BY DEF CreateValidator, CanCreate
<1>2. NewValidator(key) \in NodeType /\ NewValidator(key).key = key
  BY NodeRecords, Zenon DEF NewValidator
<1>3. TypeOK'
  <2>1. IsStore(validator', Address, NodeType)
    BY <1>1, <1>2, PutIsStore DEF NodeInv, TypeOK
  <2>2. IsStore(validatorByConsAddr', ConsKey, Address)
    BY <1>1, PutIsStore DEF NodeInv, TypeOK
  <2>3. QED
    BY <2>1, <2>2
       DEF NodeInv, TypeOK, CreateValidator, Deliver, accounts, disabling, consensus
<1>4. ConsIndexAgrees'
  BY <1>1, <1>2 DEF NodeInv, ConsIndexAgrees, Put
<1>5. /\ DOMAIN proposedDisableValidator' \subseteq DOMAIN validator'
      /\ DisabledIsJailed'
  BY <1>1 DEF NodeInv, DisabledIsJailed, CreateValidator, disabling, Put
<1>6. QED
  BY <1>3, <1>4, <1>5 DEF NodeInv

\* The admin's two transactions change the node and its record together.
LEMMA AdminKeeps ==
  ASSUME NodeInv, NEW creator \in Address, DisableValidator(creator) \/ EnableValidator(creator)
  PROVE  NodeInv'
<1>1. CASE DisableValidator(creator)
  <2>1. OthersSame(creator) /\ validator'[creator].jailed
    BY <1>1, JailFacts DEF NodeInv, DisableValidator
  <2>2. IsStore(disabledValidator', Address, SUBSET Address)
    <3>1. {} \in SUBSET Address
      OBVIOUS
    <3>2. IsStore(disabledValidator, Address, SUBSET Address)
      BY DEF NodeInv, TypeOK
    <3>3. QED
      BY <1>1, <3>1, <3>2, PutIsStore, Zenon DEF DisableValidator
  <2>3. TypeOK'
    BY <1>1, <2>1, <2>2 DEF NodeInv, TypeOK, OthersSame, DisableValidator, Deliver, accounts, consensus
  <2>4. ConsIndexAgrees'
    BY <1>1, <2>1, SameNodesKeep DEF NodeInv, OthersSame, DisableValidator
  <2>5. /\ DOMAIN proposedDisableValidator' \subseteq DOMAIN validator'
        /\ DisabledIsJailed'
    BY <1>1, <2>1 DEF NodeInv, DisabledIsJailed, DisableValidator, OthersSame, SameNodes, Put
  <2>6. QED
    BY <2>3, <2>4, <2>5 DEF NodeInv
<1>2. CASE EnableValidator(creator)
  <2>1. OthersSame(creator)
    BY <1>2, UnjailFacts DEF NodeInv, EnableValidator
  <2>2. IsStore(disabledValidator', Address, SUBSET Address)
    BY <1>2, DeleteIsStore DEF NodeInv, TypeOK, EnableValidator
  <2>3. TypeOK'
    BY <1>2, <2>1, <2>2 DEF NodeInv, TypeOK, OthersSame, EnableValidator, Deliver, accounts, consensus
  <2>4. ConsIndexAgrees'
    BY <1>2, <2>1, SameNodesKeep DEF NodeInv, OthersSame, EnableValidator
  <2>5. /\ DOMAIN proposedDisableValidator' \subseteq DOMAIN validator'
        /\ DisabledIsJailed'
    BY <1>2, <2>1 DEF NodeInv, DisabledIsJailed, EnableValidator, OthersSame, SameNodes, Delete
  <2>6. QED
    BY <2>3, <2>4, <2>5 DEF NodeInv
<1>3. QED
  BY <1>1, <1>2

\* A vote is added to one list and leaves the other alone.
LEMMA VoteRecords ==
  ASSUME NEW p \in VoteType, NEW a \in Address
  PROVE  /\ p.approvals \in Seq(Address) /\ p.rejects \in Seq(Address)
         /\ [p EXCEPT !.approvals = Append(@, a)] \in VoteType
         /\ [p EXCEPT !.approvals = Append(@, a)].approvals = Append(p.approvals, a)
         /\ [p EXCEPT !.approvals = Append(@, a)].rejects = p.rejects
         /\ [p EXCEPT !.rejects = Append(@, a)] \in VoteType
         /\ [p EXCEPT !.rejects = Append(@, a)].rejects = Append(p.rejects, a)
         /\ [p EXCEPT !.rejects = Append(@, a)].approvals = p.approvals
<1>1. /\ p.approvals \in Seq(Address) /\ p.rejects \in Seq(Address)
      /\ p = [approvals |-> p.approvals, rejects |-> p.rejects]
  BY DEF VoteType
<1>2. Append(p.approvals, a) \in Seq(Address) /\ Append(p.rejects, a) \in Seq(Address)
  BY <1>1, AppendVoters, Zenon
<1>3. /\ [p EXCEPT !.approvals = Append(@, a)] \in VoteType
      /\ [p EXCEPT !.approvals = Append(@, a)].approvals = Append(p.approvals, a)
      /\ [p EXCEPT !.approvals = Append(@, a)].rejects = p.rejects
  BY <1>1, <1>2, Zenon DEF VoteType
<1>4. /\ [p EXCEPT !.rejects = Append(@, a)] \in VoteType
      /\ [p EXCEPT !.rejects = Append(@, a)].rejects = Append(p.rejects, a)
      /\ [p EXCEPT !.rejects = Append(@, a)].approvals = p.approvals
  BY <1>1, <1>2, Zenon DEF VoteType
<1>5. QED
  BY <1>1, <1>3, <1>4

\* A proposal is made for a node that there is; where one vote is enough, it
\* jails the node.
LEMMA ProposeKeeps ==
  ASSUME NodeInv, NEW creator \in Address, NEW owner \in Address,
         ProposeDisableValidator(creator, owner)
  PROVE  NodeInv'
<1> USE DEF ProposeDisableValidator
<1>1. IsStore(rejectedNode', Address, VoteType)
  BY DeleteIsStore DEF NodeInv, TypeOK
<1>2. CASE UNCHANGED <<validator, disabledValidator>>
           /\ proposedDisableValidator' = Put(proposedDisableValidator, owner,
                [approvals |-> <<creator>>, rejects |-> <<>>])
  <2>1. IsStore(proposedDisableValidator', Address, VoteType)
    <3>1. [approvals |-> <<creator>>, rejects |-> <<>>] \in VoteType
      BY DEF VoteType
    <3>2. QED
      BY <1>2, <3>1, PutIsStore, Zenon DEF NodeInv, TypeOK
  <2>2. TypeOK'
    BY <1>1, <1>2, <2>1 DEF NodeInv, TypeOK, OthersSame, Deliver, accounts, consensus
  <2>3. ConsIndexAgrees'
    BY <1>2 DEF NodeInv, ConsIndexAgrees
  <2>4. DOMAIN proposedDisableValidator' \subseteq DOMAIN validator' /\ DisabledIsJailed'
    BY <1>2 DEF NodeInv, DisabledIsJailed, Put
  <2>5. QED
    BY <2>2, <2>3, <2>4 DEF NodeInv
<1>3. CASE /\ Jail(owner)
           /\ disabledValidator' = Put(disabledValidator, owner, {creator})
           /\ UNCHANGED proposedDisableValidator
  <2>1. OthersSame(owner) /\ validator'[owner].jailed
    BY <1>3, JailFacts DEF NodeInv
  <2>2. IsStore(disabledValidator', Address, SUBSET Address)
    <3>1. {creator} \in SUBSET Address
      OBVIOUS
    <3>2. IsStore(disabledValidator, Address, SUBSET Address)
      BY DEF NodeInv, TypeOK
    <3>3. QED
      BY <1>3, <3>1, <3>2, PutIsStore, Zenon
  <2>3. TypeOK'
    BY <1>1, <1>3, <2>1, <2>2 DEF NodeInv, TypeOK, OthersSame, Deliver, accounts, consensus
  <2>4. ConsIndexAgrees'
    BY <2>1, SameNodesKeep DEF NodeInv, OthersSame
  <2>5. DOMAIN proposedDisableValidator' \subseteq DOMAIN validator' /\ DisabledIsJailed'
    BY <1>3, <2>1 DEF NodeInv, DisabledIsJailed, OthersSame, SameNodes, Put
  <2>6. QED
    BY <2>3, <2>4, <2>5 DEF NodeInv
<1>4. QED
  BY <1>2, <1>3

\* The vote that settles a proposal jails its node; the others leave the
\* nodes alone.
LEMMA ApproveKeeps ==
  ASSUME NodeInv, NEW creator \in Address, NEW owner \in Address,
         ApproveDisableValidator(creator, owner)
  PROVE  NodeInv'
<1> DEFINE proposal == [proposedDisableValidator[owner] EXCEPT !.approvals = Append(@, creator)]
<1>1. /\ owner \in DOMAIN proposedDisableValidator /\ owner \in DOMAIN validator
      /\ proposedDisableValidator[owner] \in VoteType
  BY DEF NodeInv, TypeOK, IsStore, ApproveDisableValidator, CanVote
<1>2. proposal \in VoteType
  BY <1>1, VoteRecords, Zenon
<1> HIDE DEF proposal
<1>3. Voters(proposal.approvals) \in SUBSET Address
  <2>1. proposal.approvals \in Seq(Address)
    BY <1>2 DEF VoteType
  <2>2. QED
    BY <2>1 DEF Voters, Range
<1>4. CASE /\ proposedDisableValidator' = Delete(proposedDisableValidator, owner)
           /\ Jail(owner)
           /\ disabledValidator' =
                Put(disabledValidator, owner, Voters(proposal.approvals))
  <2>1. OthersSame(owner) /\ validator'[owner].jailed
    <3>1. Jail(owner) /\ TypeOK
      BY <1>4 DEF NodeInv
    <3>2. QED
      BY <1>1, <3>1, JailFacts
  <2>2. IsStore(disabledValidator', Address, SUBSET Address)
    BY <1>3, <1>4, PutIsStore, Zenon DEF NodeInv, TypeOK
  <2>3. IsStore(proposedDisableValidator', Address, VoteType)
    BY <1>4, DeleteIsStore DEF NodeInv, TypeOK
  <2>4. TypeOK'
    BY <2>1, <2>2, <2>3
       DEF NodeInv, TypeOK, OthersSame, ApproveDisableValidator, Deliver, accounts, consensus
  <2>5. ConsIndexAgrees'
    BY <2>1, SameNodesKeep DEF NodeInv, OthersSame, ApproveDisableValidator
  <2>6. DOMAIN proposedDisableValidator' \subseteq DOMAIN validator' /\ DisabledIsJailed'
    BY <1>1, <1>4, <2>1 DEF NodeInv, DisabledIsJailed, OthersSame, SameNodes, Put, Delete
  <2>7. QED
    BY <2>4, <2>5, <2>6 DEF NodeInv
<1>5. CASE /\ proposedDisableValidator' = Put(proposedDisableValidator, owner, proposal)
           /\ UNCHANGED <<validator, disabledValidator>>
  <2>1. IsStore(proposedDisableValidator', Address, VoteType)
    BY <1>2, <1>5, PutIsStore, Zenon DEF NodeInv, TypeOK
  <2>2. TypeOK'
    BY <1>5, <2>1 DEF NodeInv, TypeOK, OthersSame, ApproveDisableValidator, Deliver, accounts, consensus
  <2>3. ConsIndexAgrees'
    BY <1>5 DEF NodeInv, ConsIndexAgrees, ApproveDisableValidator
  <2>4. DOMAIN proposedDisableValidator' \subseteq DOMAIN validator' /\ DisabledIsJailed'
    BY <1>1, <1>5 DEF NodeInv, DisabledIsJailed, Put
  <2>5. QED
    BY <2>2, <2>3, <2>4 DEF NodeInv
<1>6. QED
  BY <1>4, <1>5, Zenon DEF ApproveDisableValidator, proposal

\* A rejection leaves the nodes alone.
LEMMA RejectKeeps ==
  ASSUME NodeInv, NEW creator \in Address, NEW owner \in Address,
         RejectDisableValidator(creator, owner)
  PROVE  NodeInv'
<1> DEFINE proposal == [proposedDisableValidator[owner] EXCEPT !.rejects = Append(@, creator)]
<1>1. /\ owner \in DOMAIN proposedDisableValidator
      /\ proposedDisableValidator[owner] \in VoteType
  BY DEF NodeInv, TypeOK, IsStore, RejectDisableValidator, CanVote
<1>2. proposal \in VoteType
  BY <1>1, VoteRecords, Zenon
<1> HIDE DEF proposal
<1>3. \/ /\ proposedDisableValidator' = Delete(proposedDisableValidator, owner)
         /\ rejectedNode' = Put(rejectedNode, owner, proposal)
      \/ /\ proposedDisableValidator' = Put(proposedDisableValidator, owner, proposal)
         /\ UNCHANGED rejectedNode
  BY Zenon DEF RejectDisableValidator, proposal
<1>4. IsStore(proposedDisableValidator', Address, VoteType)
  BY <1>2, <1>3, PutIsStore, DeleteIsStore, Zenon DEF NodeInv, TypeOK
<1>5. IsStore(rejectedNode', Address, VoteType)
  BY <1>2, <1>3, PutIsStore, Zenon DEF NodeInv, TypeOK
<1>6. TypeOK'
  BY <1>4, <1>5
     DEF NodeInv, TypeOK, RejectDisableValidator, Deliver, accounts, nodes, consensus
<1>7. DOMAIN proposedDisableValidator' \subseteq DOMAIN proposedDisableValidator
  BY <1>1, <1>3 DEF Put, Delete
<1>8. QED
  BY <1>6, <1>7
     DEF NodeInv, ConsIndexAgrees, DisabledIsJailed, RejectDisableValidator, nodes

\* Evidence jails the node of its key, which the index names.
LEMMA EvidenceKeeps ==
  ASSUME NodeInv, NEW key \in ConsKey, NEW old, NEW farBack,
         HandleDoubleSign(key, old, farBack)
  PROVE  NodeInv'
<1> DEFINE owner == validatorByConsAddr[key]
<1>1. owner \in DOMAIN validator
  BY DEF NodeInv, ConsIndexAgrees, HandleDoubleSign, EvidenceAccepted
<1>2. Jail(owner) \/ (UNCHANGED validator /\ validator[owner].jailed)
  BY DEF HandleDoubleSign, JailDoubleSigner
<1> HIDE DEF owner
<1>3. OthersSame(owner) /\ validator'[owner].jailed
  <2>1. CASE Jail(owner)
    BY <1>1, <2>1, JailFacts DEF NodeInv
  <2>2. CASE UNCHANGED validator /\ validator[owner].jailed
    BY <1>1, <2>2 DEF OthersSame, SameNodes, NodeInv, TypeOK
  <2>3. QED
    BY <1>2, <2>1, <2>2
<1>4. TypeOK'
  BY <1>3 DEF NodeInv, TypeOK, OthersSame, HandleDoubleSign, disabling, consensus
<1>5. ConsIndexAgrees'
  BY <1>3, SameNodesKeep DEF NodeInv, OthersSame, HandleDoubleSign
<1>6. DOMAIN proposedDisableValidator' \subseteq DOMAIN validator' /\ DisabledIsJailed'
  BY <1>3 DEF NodeInv, DisabledIsJailed, OthersSame, SameNodes, HandleDoubleSign, disabling
<1>7. QED
  BY <1>4, <1>5, <1>6 DEF NodeInv

\* The end of a block changes what Tendermint knows, and no node.
LEMMA EndBlockKeeps ==
  ASSUME NodeInv, EndBlock
  PROVE  NodeInv'
<1>1. KeysOf(Joining) \subseteq ConsKey /\ Joining \subseteq Address
  <2>1. \A o \in DOMAIN validator : o \in Address /\ validator[o] \in NodeType
    BY DEF NodeInv, TypeOK, IsStore
  <2>2. QED
    BY <2>1, NodeFields DEF KeysOf, Joining
<1>2. TypeOK'
  BY <1>1 DEF NodeInv, TypeOK, EndBlock, accounts, nodes, disabling
<1>3. QED
  BY <1>2 DEF NodeInv, ConsIndexAgrees, DisabledIsJailed, EndBlock, nodes, disabling

\* The inductive step: one step of the proof for every action.
LEMMA NodeInvStep == NodeInv /\ [Next]_vars => NodeInv'
<1> SUFFICES ASSUME NodeInv, [Next]_vars PROVE NodeInv'
  OBVIOUS
<1>1. CASE NodeTx
  <2>1. PICK signer \in Address :
          \/ \E key \in ConsKey : CreateValidator(signer, key)
          \/ DisableValidator(signer) \/ EnableValidator(signer)
          \/ \E owner \in Address : \/ ProposeDisableValidator(signer, owner)
                                    \/ ApproveDisableValidator(signer, owner)
                                    \/ RejectDisableValidator(signer, owner)
    BY <1>1, Zenon DEF NodeTx
  <2>2. QED
    BY <2>1, CreateKeeps, AdminKeeps, ProposeKeeps, ApproveKeeps, RejectKeeps, Zenon
<1>2. CASE Evidence
  BY <1>2, EvidenceKeeps, Zenon DEF Evidence
<1>3. CASE EndBlock
  BY <1>3, EndBlockKeeps
<1>4. CASE ChangeAccounts
  <2>1. TypeOK'
    BY <1>4 DEF NodeInv, TypeOK, ChangeAccounts, Deliver, nodes, disabling, consensus
  <2>2. QED
    BY <1>4, <2>1 DEF NodeInv, ConsIndexAgrees, DisabledIsJailed, ChangeAccounts, nodes, disabling
<1>5. CASE UNCHANGED vars
  BY <1>5 DEF NodeInv, TypeOK, ConsIndexAgrees, DisabledIsJailed, vars, accounts, nodes,
              disabling, consensus
<1>6. QED
  BY <1>1, <1>2, <1>3, <1>4, <1>5 DEF Next

\* The inductive invariant holds.
LEMMA NodeInvHolds == Safety => []NodeInv
BY NodeInvInit, NodeInvStep, PTL DEF Safety

\* The records of the nodes are well formed, whoever creates, disables and
\* enables nodes (x/validator).
THEOREM NodesTyped == Safety => []TypeOK
<1>1. NodeInv => TypeOK
  BY DEF NodeInv
<1>2. QED
  BY <1>1, NodeInvHolds, PTL

\* The index by consensus key names the node of every key and nothing else
\* (SetValidatorByConsAddr is called by CreateValidator alone).
THEOREM ConsIndexCorrect == Safety => []ConsIndexAgrees
<1>1. NodeInv => ConsIndexAgrees
  BY DEF NodeInv
<1>2. QED
  BY <1>1, NodeInvHolds, PTL

\* A disabled node is jailed: the record of x/validator and the node change
\* together, in whatever order votes, evidence and the admin come.
THEOREM DisabledCorrect == Safety => []DisabledIsJailed
<1>1. NodeInv => DisabledIsJailed
  BY DEF NodeInv
<1>2. QED
  BY <1>1, NodeInvHolds, PTL

-----------------------------------------------------------------------------
(* The validator set. *)

\* A step before the end of the block: the nodes there were keep their keys.
LEMMA KeysStay ==
  ASSUME ValidatorSetAgrees, UNCHANGED consensus, phase' # "committed",
         DOMAIN validator \subseteq DOMAIN validator',
         \A o \in DOMAIN validator : validator'[o].key = validator[o].key
  PROVE  ValidatorSetAgrees'
<1>1. /\ lastValidatorPower' = lastValidatorPower /\ tmValidators' = tmValidators
      /\ lastValidatorPower \subseteq DOMAIN validator
      /\ tmValidators = {validator[o].key : o \in lastValidatorPower}
  BY DEF ValidatorSetAgrees, consensus, KeysOf
<1>2. tmValidators' = {validator'[o].key : o \in lastValidatorPower'}
  BY <1>1
<1>3. lastValidatorPower' \subseteq DOMAIN validator'
  BY <1>1
<1>4. QED
  BY <1>2, <1>3 DEF ValidatorSetAgrees, KeysOf

\* The end of the block takes the keys of the nodes without power away and
\* adds those of the nodes that have power again; as no two nodes share a
\* key, no key that is taken away belongs to a node that stays.
LEMMA SetStep == NodeInv /\ ValidatorSetAgrees /\ [Next]_vars => ValidatorSetAgrees'
<1> SUFFICES ASSUME NodeInv, ValidatorSetAgrees, [Next]_vars
             PROVE  ValidatorSetAgrees'
  OBVIOUS
<1>1. CASE EndBlock
  <2>1. \A o \in DOMAIN validator : validator[o].power = 0 \/ validator[o].power > 0
    <3>1. \A o \in DOMAIN validator : validator[o] \in NodeType
      BY DEF NodeInv, TypeOK, IsStore
    <3>2. QED
      BY <3>1, NodeFields DEF Power
  <2>2. \A o, p \in DOMAIN validator : validator[o].key = validator[p].key => o = p
    BY DEF NodeInv, ConsIndexAgrees
  <2>3. /\ lastValidatorPower \subseteq DOMAIN validator
        /\ tmValidators = {validator[o].key : o \in lastValidatorPower}
    BY DEF ValidatorSetAgrees, KeysOf
  <2>4. /\ Leaving \subseteq lastValidatorPower
        /\ Joining \subseteq DOMAIN validator
    BY DEF Leaving, Joining
  <2>5. /\ lastValidatorPower' = (lastValidatorPower \ Leaving) \cup Joining
        /\ tmValidators' = (tmValidators \ {validator[o].key : o \in Leaving})
                             \cup {validator[o].key : o \in Joining}
        /\ validator' = validator
    BY <1>1 DEF EndBlock, KeysOf, nodes
  <2>6. lastValidatorPower' = {o \in DOMAIN validator : validator[o].power > 0}
    BY <2>1, <2>3, <2>5 DEF Leaving, Joining
  <2>7. tmValidators' = {validator[o].key : o \in lastValidatorPower'}
    BY <2>2, <2>3, <2>4, <2>5
  <2>8. lastValidatorPower' \subseteq DOMAIN validator'
    BY <2>5, <2>6
  <2>9. QED
    BY <2>5, <2>6, <2>7, <2>8 DEF ValidatorSetAgrees, KeysOf
<1>2. CASE UNCHANGED vars
  BY <1>2 DEF vars, nodes, consensus, ValidatorSetAgrees, KeysOf
<1>3. CASE NodeTx \/ Evidence \/ ChangeAccounts
  <2>1. UNCHANGED consensus /\ phase' # "committed"
    <3>1. CASE NodeTx
      <4>1. UNCHANGED consensus /\ Deliver
        BY <3>1, Zenon
           DEF NodeTx, CreateValidator, DisableValidator, EnableValidator,
               ProposeDisableValidator, ApproveDisableValidator, RejectDisableValidator
      <4>2. QED
        BY <4>1 DEF Deliver
    <3>2. CASE Evidence
      BY <3>2 DEF Evidence, HandleDoubleSign
    <3>3. CASE ChangeAccounts
      BY <3>3 DEF ChangeAccounts, Deliver
    <3>4. QED
      BY <1>3, <3>1, <3>2, <3>3
  <2>2. \/ SameNodes
        \/ \E o \in Address, k \in ConsKey : CreateValidator(o, k)
    <3> USE DEF NodeInv
    <3>1. CASE NodeTx
      <4>1. ASSUME NEW o \in DOMAIN validator, Jail(o) \/ Unjail(o)
            PROVE  SameNodes
        BY <4>1, JailFacts, UnjailFacts, Zenon DEF OthersSame
      <4>2. ASSUME UNCHANGED validator
            PROVE  SameNodes
        BY <4>2 DEF SameNodes
      <4>3. DOMAIN disabledValidator \subseteq DOMAIN validator
        BY DEF DisabledIsJailed
      <4>4. ASSUME NEW a \in Address, DisableValidator(a) \/ EnableValidator(a)
            PROVE  SameNodes
        BY <4>1, <4>3, <4>4 DEF DisableValidator, EnableValidator
      <4>5. ASSUME NEW a \in Address, NEW o \in Address,
                   ProposeDisableValidator(a, o) \/ ApproveDisableValidator(a, o)
            PROVE  SameNodes
        BY <4>1, <4>2, <4>5 DEF ProposeDisableValidator, ApproveDisableValidator, CanVote
      <4>6. ASSUME NEW a \in Address, NEW o \in Address, RejectDisableValidator(a, o)
            PROVE  SameNodes
        BY <4>2, <4>6 DEF RejectDisableValidator, nodes
      <4>7. QED
        BY <3>1, <4>4, <4>5, <4>6, Zenon DEF NodeTx
    <3>2. CASE Evidence
      BY <3>2, JailFacts
         DEF Evidence, HandleDoubleSign, EvidenceAccepted, JailDoubleSigner, ConsIndexAgrees,
             OthersSame, SameNodes
    <3>3. CASE ChangeAccounts
      BY <3>3 DEF ChangeAccounts, nodes, SameNodes
    <3>4. QED
      BY <1>3, <3>1, <3>2, <3>3
  <2>3. CASE SameNodes
    BY <2>1, <2>3, KeysStay DEF SameNodes
  <2>4. CASE \E o \in Address, k \in ConsKey : CreateValidator(o, k)
    <3>1. PICK o \in Address, k \in ConsKey :
            o \notin DOMAIN validator /\ validator' = Put(validator, o, NewValidator(k))
      BY <2>4 DEF CreateValidator, CanCreate
    <3>2. /\ DOMAIN validator \subseteq DOMAIN validator'
          /\ \A p \in DOMAIN validator : validator'[p] = validator[p]
      BY <3>1 DEF Put
    <3>3. QED
      BY <2>1, <3>2, KeysStay
  <2>5. QED
    BY <2>2, <2>3, <2>4
<1>4. QED
  BY <1>1, <1>2, <1>3 DEF Next

\* Application and Tendermint agree on the validator set after every block
\* (ApplyAndReturnValidatorSetUpdates).
THEOREM ValidatorSetCorrect == Safety => []ValidatorSetAgrees
<1>1. Init => ValidatorSetAgrees
  BY DEF Init, ValidatorSetAgrees, KeysOf
<1>2. QED
  BY <1>1, SetStep, NodeInvHolds, PTL DEF Safety

-----------------------------------------------------------------------------
(* The reasons a node is jailed for. *)

\* Nobody approves the disabling of a node twice.
ApprovalsCountOnce ==
  \A o \in DOMAIN proposedDisableValidator :
    NoRepeats(proposedDisableValidator[o].approvals)

\* The threshold is a number, as there are finitely many Trustees.
LEMMA ThresholdIsNumber ==
  ASSUME TypeOK
  PROVE  DisableValidatorApprovalsCount \in Nat
<1>1. IsFiniteSet(trustees)
  BY FS_Subset, AddressAssumption, Zenon DEF TypeOK
<1>2. Cardinality(trustees) \in Nat
  BY <1>1, FS_CardinalityType
<1>3. QED
  BY <1>2, ApprovalShares DEF DisableValidatorApprovalsCount, DisableValidatorPercent

\* An approval of somebody who has not voted makes one more approver.
LEMMA OneMoreApproval ==
  ASSUME NodeInv, ApprovalsCountOnce, NEW creator \in Address, NEW owner,
         CanVote(creator, owner)
  PROVE  LET s == Append(proposedDisableValidator[owner].approvals, creator)
         IN  NoRepeats(s) /\ Cardinality(Voters(s)) = Len(s) /\ s \in Seq(Address)
<1> DEFINE s == proposedDisableValidator[owner].approvals
<1>1. /\ s \in Seq(Address) /\ NoRepeats(s) /\ creator \notin Voters(s)
  <2>1. /\ owner \in DOMAIN proposedDisableValidator
        /\ proposedDisableValidator[owner] \in VoteType
    BY DEF NodeInv, TypeOK, IsStore, CanVote
  <2>2. s \in Seq(Address)
    BY <2>1 DEF VoteType
  <2>3. NoRepeats(s) /\ creator \notin Voters(s)
    BY <2>1 DEF ApprovalsCountOnce, CanVote, HasVoted
  <2>4. QED
    BY <2>2, <2>3
<1> HIDE DEF s
<1>2. NoRepeats(Append(s, creator)) /\ Append(s, creator) \in Seq(Address)
  BY <1>1, AppendNoRepeats, AppendVoters, Zenon
<1>3. Cardinality(Voters(Append(s, creator))) = Len(Append(s, creator))
  BY <1>2, CountVoters, Zenon
<1>4. QED
  BY <1>2, <1>3, Zenon DEF s

\* CanVote keeps a Trustee from approving again.
LEMMA ApprovalsStep ==
  NodeInv /\ ApprovalsCountOnce /\ [Next]_vars => ApprovalsCountOnce'
<1> SUFFICES ASSUME NodeInv, ApprovalsCountOnce, [Next]_vars
             PROVE  ApprovalsCountOnce'
  OBVIOUS
<1>1. ASSUME UNCHANGED proposedDisableValidator
      PROVE  ApprovalsCountOnce'
  BY <1>1 DEF ApprovalsCountOnce
<1>2. ASSUME NEW o \in Address, NEW p, NoRepeats(p.approvals),
             proposedDisableValidator' = Put(proposedDisableValidator, o, p)
      PROVE  ApprovalsCountOnce'
  BY <1>2 DEF ApprovalsCountOnce, Put
<1>3. ASSUME NEW o, proposedDisableValidator' = Delete(proposedDisableValidator, o)
      PROVE  ApprovalsCountOnce'
  BY <1>3 DEF ApprovalsCountOnce, Delete
<1>4. ASSUME NEW a \in Address, NEW o \in Address, ProposeDisableValidator(a, o)
      PROVE  ApprovalsCountOnce'
  <2>1. NoRepeats([approvals |-> <<a>>, rejects |-> <<>>].approvals)
    BY FirstVote
  <2>2. QED
    BY <1>1, <1>2, <1>4, <2>1, Zenon DEF ProposeDisableValidator
<1>5. ASSUME NEW a \in Address, NEW o \in Address, ApproveDisableValidator(a, o)
      PROVE  ApprovalsCountOnce'
  <2> DEFINE proposal == [proposedDisableValidator[o] EXCEPT !.approvals = Append(@, a)]
  <2>1. proposedDisableValidator[o] \in VoteType /\ CanVote(a, o)
    BY <1>5 DEF NodeInv, TypeOK, IsStore, ApproveDisableValidator, CanVote
  <2>2. proposal.approvals = Append(proposedDisableValidator[o].approvals, a)
    BY <2>1, VoteRecords, Zenon
  <2>3. NoRepeats(proposal.approvals)
    BY <2>1, <2>2, OneMoreApproval, Zenon
  <2> HIDE DEF proposal
  <2>4. \/ proposedDisableValidator' = Delete(proposedDisableValidator, o)
        \/ proposedDisableValidator' = Put(proposedDisableValidator, o, proposal)
    BY <1>5, Zenon DEF ApproveDisableValidator, proposal
  <2>5. QED
    BY <1>2, <1>3, <2>3, <2>4
<1>6. ASSUME NEW a \in Address, NEW o \in Address, RejectDisableValidator(a, o)
      PROVE  ApprovalsCountOnce'
  <2> DEFINE proposal == [proposedDisableValidator[o] EXCEPT !.rejects = Append(@, a)]
  <2>1. /\ proposedDisableValidator[o] \in VoteType
        /\ NoRepeats(proposedDisableValidator[o].approvals)
    BY <1>6 DEF NodeInv, TypeOK, IsStore, RejectDisableValidator, CanVote, ApprovalsCountOnce
  <2>2. proposal.approvals = proposedDisableValidator[o].approvals
    BY <2>1, VoteRecords, Zenon
  <2>3. NoRepeats(proposal.approvals)
    BY <2>1, <2>2, Zenon
  <2> HIDE DEF proposal
  <2>4. \/ proposedDisableValidator' = Delete(proposedDisableValidator, o)
        \/ proposedDisableValidator' = Put(proposedDisableValidator, o, proposal)
    BY <1>6, Zenon DEF RejectDisableValidator, proposal
  <2>5. QED
    BY <1>2, <1>3, <2>3, <2>4
<1>7. CASE NodeTx
  <2>1. ASSUME NEW a \in Address,
               \/ \E k \in ConsKey : CreateValidator(a, k)
               \/ DisableValidator(a) \/ EnableValidator(a)
        PROVE  ApprovalsCountOnce'
    BY <1>1, <2>1 DEF CreateValidator, DisableValidator, EnableValidator, disabling
  <2>2. QED
    BY <1>4, <1>5, <1>6, <1>7, <2>1, Zenon DEF NodeTx
<1>8. CASE Evidence \/ EndBlock \/ ChangeAccounts \/ UNCHANGED vars
  BY <1>1, <1>8
     DEF Evidence, HandleDoubleSign, EndBlock, ChangeAccounts, disabling, vars
<1>9. QED
  BY <1>7, <1>8 DEF Next

\* Why a node may be jailed in a step.
JailReason(o) ==
  \/ phase' = "begin" /\ o \notin nodeAdmins' \cup trustees'
  \/ /\ o \in DOMAIN disabledValidator' \ DOMAIN disabledValidator
     /\ \/ disabledValidator'[o] = {} /\ o \in nodeAdmins
        \/ Cardinality(disabledValidator'[o]) >= DisableValidatorApprovalsCount

\* A step that jails one node, for a reason, and changes no other.
LEMMA OneJailed ==
  ASSUME NEW owner \in DOMAIN validator, OthersSame(owner), validator'[owner].jailed,
         ~validator[owner].jailed => JailReason(owner)
  PROVE  JailStep
BY Zenon DEF JailStep, OthersSame, JailReason

\* A step that leaves the nodes there were alone.
LEMMA NoneJailed ==
  ASSUME \A o \in DOMAIN validator : validator'[o] = validator[o]
  PROVE  JailStep
BY DEF JailStep

\* A node that is not jailed is not disabled, so the record of why it is
\* jailed is a new one.
LEMMA DisablingIsReason ==
  ASSUME NodeInv, NEW owner \in DOMAIN validator, Jail(owner), NEW approvers,
         disabledValidator' = Put(disabledValidator, owner, approvers),
         \/ approvers = {} /\ owner \in nodeAdmins
         \/ Cardinality(approvers) >= DisableValidatorApprovalsCount
  PROVE  JailStep
<1>1. OthersSame(owner) /\ validator'[owner].jailed
  BY JailFacts DEF NodeInv
<1>2. disabledValidator'[owner] = approvers /\ owner \in DOMAIN disabledValidator'
  BY DEF Put
<1>3. ~validator[owner].jailed => owner \notin DOMAIN disabledValidator
  BY DEF NodeInv, DisabledIsJailed
<1>4. ~validator[owner].jailed => JailReason(owner)
  BY <1>2, <1>3, Zenon DEF JailReason
<1>5. QED
  BY <1>1, <1>4, OneJailed

\* The admin of a node disables it, or returns it to the pool when it is
\* disabled.
LEMMA AdminReason ==
  ASSUME NodeInv, NEW a \in Address, DisableValidator(a) \/ EnableValidator(a)
  PROVE  JailStep
<1>1. CASE DisableValidator(a)
  BY <1>1, DisablingIsReason DEF DisableValidator
<1>2. CASE EnableValidator(a)
  <2>1. a \in DOMAIN disabledValidator /\ a \in nodeAdmins /\ validator[a].jailed
    BY <1>2 DEF EnableValidator, NodeInv, DisabledIsJailed
  <2>2. OthersSame(a)
    BY <1>2, UnjailFacts DEF EnableValidator, NodeInv
  <2>3. QED
    BY <2>1, <2>2, Zenon DEF JailStep, OthersSame
<1>3. QED
  BY <1>1, <1>2

\* A proposal disables a node at once only where one vote is enough.
LEMMA ProposeReason ==
  ASSUME NodeInv, NEW a \in Address, NEW o \in Address, ProposeDisableValidator(a, o)
  PROVE  JailStep
<1>1. CASE /\ DisableValidatorApprovalsCount <= 1 /\ Jail(o)
           /\ disabledValidator' = Put(disabledValidator, o, {a})
  <2>1. Cardinality({a}) = 1
    BY FS_Singleton, Zenon
  <2>2. Cardinality({a}) >= DisableValidatorApprovalsCount
    BY <1>1, <2>1, ThresholdIsNumber DEF NodeInv
  <2>3. QED
    BY <1>1, <2>2, DisablingIsReason, Zenon DEF ProposeDisableValidator
<1>2. CASE UNCHANGED validator
  BY <1>2, NoneJailed
<1>3. QED
  BY <1>1, <1>2 DEF ProposeDisableValidator

\* The last approval disables a node with the votes of different Trustees,
\* as many as are required when it is given.
LEMMA ApproveReason ==
  ASSUME NodeInv, ApprovalsCountOnce, NEW a \in Address, NEW o \in Address,
         ApproveDisableValidator(a, o)
  PROVE  JailStep
<1> DEFINE proposal == [proposedDisableValidator[o] EXCEPT !.approvals = Append(@, a)]
<1>1. /\ proposedDisableValidator[o] \in VoteType /\ CanVote(a, o)
      /\ o \in DOMAIN validator
  BY DEF NodeInv, TypeOK, IsStore, ApproveDisableValidator, CanVote
<1>2. proposal.approvals = Append(proposedDisableValidator[o].approvals, a)
  BY <1>1, VoteRecords, Zenon
<1>3. Cardinality(Voters(proposal.approvals)) = Len(proposal.approvals)
  BY <1>1, <1>2, OneMoreApproval, Zenon
<1> HIDE DEF proposal
<1>4. \/ /\ Len(proposal.approvals) >= DisableValidatorApprovalsCount /\ Jail(o)
         /\ disabledValidator' = Put(disabledValidator, o, Voters(proposal.approvals))
      \/ UNCHANGED validator
  BY Zenon DEF ApproveDisableValidator, proposal
<1>5. QED
  BY <1>1, <1>3, <1>4, DisablingIsReason, NoneJailed, Zenon

\* Evidence jails the owner's node and revokes the owner's roles.
LEMMA EvidenceReason ==
  ASSUME NodeInv, NEW key \in ConsKey, NEW old, NEW farBack,
         HandleDoubleSign(key, old, farBack)
  PROVE  JailStep
<1> DEFINE owner == validatorByConsAddr[key]
<1>1. owner \in DOMAIN validator
  BY DEF NodeInv, ConsIndexAgrees, HandleDoubleSign, EvidenceAccepted
<1>2. Jail(owner) \/ UNCHANGED validator
  BY DEF HandleDoubleSign, JailDoubleSigner
<1>3. JailReason(owner)
  BY DEF HandleDoubleSign, JailReason
<1> HIDE DEF owner
<1>4. CASE Jail(owner)
  <2>1. OthersSame(owner) /\ validator'[owner].jailed
    BY <1>1, <1>4, JailFacts DEF NodeInv
  <2>2. QED
    BY <1>1, <1>3, <2>1, OneJailed
<1>5. QED
  BY <1>2, <1>4, NoneJailed

\* Every step jails and returns nodes for a reason.
LEMMA ReasonStep ==
  NodeInv /\ ApprovalsCountOnce /\ [Next]_vars => JailStep \/ UNCHANGED vars
<1> SUFFICES ASSUME NodeInv, ApprovalsCountOnce, Next
             PROVE  JailStep
  OBVIOUS
<1>1. CASE NodeTx
  <2>1. ASSUME NEW a \in Address, NEW k \in ConsKey, CreateValidator(a, k)
        PROVE  JailStep
    BY <2>1, NoneJailed DEF CreateValidator, CanCreate, Put
  <2>2. ASSUME NEW a \in Address, NEW o \in Address, RejectDisableValidator(a, o)
        PROVE  JailStep
    BY <2>2, NoneJailed DEF RejectDisableValidator, nodes
  <2>3. QED
    BY <1>1, <2>1, <2>2, AdminReason, ProposeReason, ApproveReason, Zenon DEF NodeTx
<1>2. CASE Evidence
  BY <1>2, EvidenceReason, Zenon DEF Evidence
<1>3. CASE EndBlock \/ ChangeAccounts
  BY <1>3, NoneJailed DEF EndBlock, ChangeAccounts, nodes
<1>4. QED
  BY <1>1, <1>2, <1>3 DEF Next

\* Nodes are jailed for evidence, for their admin or with the votes of as
\* many different Trustees as are required at that moment, and only a
\* disabled node returns, for its admin (x/validator).
THEOREM ReasonCorrect == Safety => JailedForAReason
<1>1. Init => ApprovalsCountOnce
  BY EmptyIsStore DEF Init, ApprovalsCountOnce
<1>2. QED
  BY <1>1, ApprovalsStep, ReasonStep, NodeInvHolds, PTL DEF Safety, JailedForAReason
=============================================================================
