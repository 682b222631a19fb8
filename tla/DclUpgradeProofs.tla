--------------------------- MODULE DclUpgradeProofs --------------------------
(***************************************************************************)
(* The votes on upgrades and the slot of the upgrade keeper, for any set   *)
(* of addresses, names and heights.                                        *)
(***************************************************************************)
EXTENDS DclUpgrade, LedgerLemmas

\* The record a vote leaves.
ApprovedBy(n, a) == [proposedUpgrade[n] EXCEPT !.approvals = Append(@, a)]
RejectedBy(n, a) == [proposedUpgrade[n] EXCEPT !.rejects = Append(@, a)]

-----------------------------------------------------------------------------
(* Types. *)

\* The fields of an upgrade.
LEMMA UpgradeFields ==
  ASSUME NEW u \in UpgradeType
  PROVE  /\ u.height \in PlanHeight /\ u.approvals \in Seq(Address)
         /\ u.rejects \in Seq(Address)
         /\ u = [height |-> u.height, approvals |-> u.approvals, rejects |-> u.rejects]
BY DEF UpgradeType

\* A vote is added to one list; the plan and the other list stay.
LEMMA VoteAdded ==
  ASSUME NEW u \in UpgradeType, NEW a \in Address
  PROVE  /\ [u EXCEPT !.approvals = Append(@, a)] \in UpgradeType
         /\ [u EXCEPT !.approvals = Append(@, a)].approvals = Append(u.approvals, a)
         /\ [u EXCEPT !.approvals = Append(@, a)].height = u.height
         /\ [u EXCEPT !.rejects = Append(@, a)] \in UpgradeType
         /\ [u EXCEPT !.rejects = Append(@, a)].approvals = u.approvals
         /\ [u EXCEPT !.rejects = Append(@, a)].height = u.height
<1>1. Append(u.approvals, a) \in Seq(Address) /\ Append(u.rejects, a) \in Seq(Address)
  BY UpgradeFields, AppendVoters, Zenon
<1>2. /\ [u EXCEPT !.approvals = Append(@, a)] \in UpgradeType
      /\ [u EXCEPT !.approvals = Append(@, a)].approvals = Append(u.approvals, a)
      /\ [u EXCEPT !.approvals = Append(@, a)].height = u.height
  BY <1>1, UpgradeFields, Zenon DEF UpgradeType
<1>3. /\ [u EXCEPT !.rejects = Append(@, a)] \in UpgradeType
      /\ [u EXCEPT !.rejects = Append(@, a)].approvals = u.approvals
      /\ [u EXCEPT !.rejects = Append(@, a)].height = u.height
  BY <1>1, UpgradeFields, Zenon DEF UpgradeType
<1>4. QED
  BY <1>2, <1>3

\* The two records that votes leave are well formed, with the same plan.
LEMMA VoteRecords ==
  ASSUME TypeOK, NEW n \in DOMAIN proposedUpgrade, NEW a \in Address
  PROVE  /\ proposedUpgrade[n] \in UpgradeType /\ n \in Name
         /\ ApprovedBy(n, a) \in UpgradeType
         /\ ApprovedBy(n, a).approvals = Append(proposedUpgrade[n].approvals, a)
         /\ ApprovedBy(n, a).height = proposedUpgrade[n].height
         /\ RejectedBy(n, a) \in UpgradeType
         /\ RejectedBy(n, a).approvals = proposedUpgrade[n].approvals
         /\ RejectedBy(n, a).height = proposedUpgrade[n].height
<1>1. proposedUpgrade[n] \in UpgradeType /\ n \in Name
  BY DEF TypeOK, IsStore
<1>2. QED
  BY <1>1, VoteAdded, Zenon DEF ApprovedBy, RejectedBy

\* A new proposal is well formed.
LEMMA NewRecord ==
  ASSUME NEW p \in Plan, NEW a \in Address
  PROVE  /\ NewUpgrade(p, a) \in UpgradeType
         /\ NewUpgrade(p, a).approvals = <<a>>
         /\ NewUpgrade(p, a).height = p.height
         /\ p.name \in Name /\ p = PlanOf(p.name, NewUpgrade(p, a))
BY DEF NewUpgrade, UpgradeType, Plan, PlanOf

\* The plan of a record can be put into the slot.
LEMMA PlanType ==
  ASSUME NEW n \in Name, NEW u \in UpgradeType
  PROVE  PlanOf(n, u) \in Plan
BY UpgradeFields DEF PlanOf, Plan

\* What the two votes do to the stores and the slot.
VoteStep(n, record, store) ==
  \/ /\ plan' = PlanOf(n, record)
     /\ PlanOf(n, record).name \notin done
     /\ proposedUpgrade' = Delete(proposedUpgrade, n)
     /\ store' = Put(store, n, record)
  \/ /\ proposedUpgrade' = Put(proposedUpgrade, n, record)
     /\ UNCHANGED <<store, plan>>

\* The cases of a vote.
LEMMA VoteCases ==
  ASSUME NEW a \in Address, NEW n \in Name
  PROVE  /\ ApproveUpgrade(a, n) =>
              /\ n \in DOMAIN proposedUpgrade
              /\ VoteStep(n, ApprovedBy(n, a), approvedUpgrade)
              /\ UNCHANGED <<trustees, rejectedUpgrade, done, height>>
         /\ RejectUpgrade(a, n) =>
              /\ n \in DOMAIN proposedUpgrade
              /\ VoteStep(n, RejectedBy(n, a), rejectedUpgrade)
              /\ UNCHANGED <<trustees, approvedUpgrade, done, height>>
<1>1. ASSUME ApproveUpgrade(a, n)
      PROVE  /\ n \in DOMAIN proposedUpgrade
             /\ VoteStep(n, ApprovedBy(n, a), approvedUpgrade)
             /\ UNCHANGED <<trustees, rejectedUpgrade, done, height>>
  BY <1>1, Zenon
     DEF ApproveUpgrade, CanVote, ApprovedBy, VoteStep, ScheduleUpgrade, CanSchedule
<1>2. ASSUME RejectUpgrade(a, n)
      PROVE  /\ n \in DOMAIN proposedUpgrade
             /\ VoteStep(n, RejectedBy(n, a), rejectedUpgrade)
             /\ UNCHANGED <<trustees, approvedUpgrade, done, height>>
  BY <1>2, Zenon
     DEF RejectUpgrade, CanVote, RejectedBy, VoteStep, ScheduleUpgrade, CanSchedule
<1>3. QED
  BY <1>1, <1>2

\* A vote keeps the types of the stores and of the slot.
LEMMA VoteTyped ==
  ASSUME NEW n \in Name, NEW record \in UpgradeType, NEW store, NEW store1,
         IsStore(store, Name, UpgradeType), IsStore(proposedUpgrade, Name, UpgradeType),
         plan \in Plan \cup {NoPlan},
         \/ /\ plan' = PlanOf(n, record)
            /\ proposedUpgrade' = Delete(proposedUpgrade, n)
            /\ store1 = Put(store, n, record)
         \/ /\ proposedUpgrade' = Put(proposedUpgrade, n, record)
            /\ store1 = store /\ plan' = plan
  PROVE  /\ IsStore(store1, Name, UpgradeType)
         /\ IsStore(proposedUpgrade', Name, UpgradeType)
         /\ plan' \in Plan \cup {NoPlan}
<1>1. PlanOf(n, record) \in Plan
  BY PlanType
<1>2. /\ IsStore(Put(store, n, record), Name, UpgradeType)
      /\ IsStore(Put(proposedUpgrade, n, record), Name, UpgradeType)
      /\ IsStore(Delete(proposedUpgrade, n), Name, UpgradeType)
  BY PutIsStore, DeleteIsStore, Zenon
<1>3. QED
  BY <1>1, <1>2

\* Types are kept: one step of the proof for every action.
LEMMA TypeStep == TypeOK /\ [Next]_vars => TypeOK'
<1> SUFFICES ASSUME TypeOK, [Next]_vars PROVE TypeOK'
  OBVIOUS
<1>0. /\ IsStore(proposedUpgrade, Name, UpgradeType)
      /\ IsStore(approvedUpgrade, Name, UpgradeType)
      /\ IsStore(rejectedUpgrade, Name, UpgradeType)
      /\ plan \in Plan \cup {NoPlan}
  BY DEF TypeOK
<1>1. CASE BeginBlock
  <2>1. Due(height') => plan.name \in Name
    BY <1>0 DEF Due, Plan
  <2>2. height' \in 1..MaxHeight
    BY <1>1, BoundAssumption DEF BeginBlock, TypeOK
  <2>3. QED
    BY <1>1, <2>1, <2>2 DEF BeginBlock, TypeOK, records
<1>2. CASE ChangeTrustees
  BY <1>2 DEF ChangeTrustees, TypeOK, records
<1>3. ASSUME NEW a \in Address, NEW p \in Plan, ProposeUpgrade(a, p)
      PROVE  TypeOK'
  <2>1. NewUpgrade(p, a) \in UpgradeType /\ p.name \in Name
    BY NewRecord
  <2>2. /\ IsStore(Put(proposedUpgrade, p.name, NewUpgrade(p, a)), Name, UpgradeType)
        /\ IsStore(Put(approvedUpgrade, p.name, NewUpgrade(p, a)), Name, UpgradeType)
        /\ IsStore(Delete(proposedUpgrade, p.name), Name, UpgradeType)
        /\ IsStore(Delete(rejectedUpgrade, p.name), Name, UpgradeType)
    BY <1>0, <2>1, PutIsStore, DeleteIsStore, Zenon
  <2>3. QED
    BY <1>3, <2>2 DEF ProposeUpgrade, ScheduleUpgrade, TypeOK
<1>4. ASSUME NEW a \in Address, NEW n \in Name, ApproveUpgrade(a, n)
      PROVE  TypeOK'
  <2>1. /\ n \in DOMAIN proposedUpgrade
        /\ VoteStep(n, ApprovedBy(n, a), approvedUpgrade)
        /\ UNCHANGED <<trustees, rejectedUpgrade, done, height>>
    BY <1>4, VoteCases
  <2>2. ApprovedBy(n, a) \in UpgradeType
    BY <2>1, VoteRecords
  <2>3. /\ IsStore(approvedUpgrade', Name, UpgradeType)
        /\ IsStore(proposedUpgrade', Name, UpgradeType)
        /\ plan' \in Plan \cup {NoPlan}
    BY <1>0, <2>1, <2>2, VoteTyped, Zenon DEF VoteStep
  <2>4. QED
    BY <2>1, <2>3 DEF TypeOK
<1>5. ASSUME NEW a \in Address, NEW n \in Name, RejectUpgrade(a, n)
      PROVE  TypeOK'
  <2>1. /\ n \in DOMAIN proposedUpgrade
        /\ VoteStep(n, RejectedBy(n, a), rejectedUpgrade)
        /\ UNCHANGED <<trustees, approvedUpgrade, done, height>>
    BY <1>5, VoteCases
  <2>2. RejectedBy(n, a) \in UpgradeType
    BY <2>1, VoteRecords
  <2>3. /\ IsStore(rejectedUpgrade', Name, UpgradeType)
        /\ IsStore(proposedUpgrade', Name, UpgradeType)
        /\ plan' \in Plan \cup {NoPlan}
    BY <1>0, <2>1, <2>2, VoteTyped, Zenon DEF VoteStep
  <2>4. QED
    BY <2>1, <2>3 DEF TypeOK
<1>6. CASE UNCHANGED vars
  BY <1>6 DEF vars, records, TypeOK
<1>7. QED
  BY <1>1, <1>2, <1>3, <1>4, <1>5, <1>6, Zenon DEF Next

\* There is nothing in the stores at first.
LEMMA TypeInit == Init => TypeOK
<1> SUFFICES ASSUME Init PROVE TypeOK
  OBVIOUS
<1>1. 1 \in 1..MaxHeight
  BY BoundAssumption
<1>2. QED
  BY <1>1, EmptyIsStore, AddressAssumption DEF Init, TypeOK

\* Every record of x/dclupgrade is well formed, in every reachable state.
THEOREM UpgradesTyped == Spec => []TypeOK
BY TypeInit, TypeStep, PTL DEF Spec

-----------------------------------------------------------------------------
(* The slot of the upgrade keeper. *)

\* A plan that was run does not come back into the slot: ScheduleUpgrade
\* refuses it, and BeginBlock empties the slot when it runs a plan.
THEOREM DoneCorrect == Spec => []DoneIsFinal
<1>1. Init => DoneIsFinal
  BY DEF Init, DoneIsFinal
<1>2. DoneIsFinal /\ [Next]_vars => DoneIsFinal'
  <2> SUFFICES ASSUME DoneIsFinal, [Next]_vars PROVE DoneIsFinal'
    OBVIOUS
  <2>1. CASE BeginBlock
    BY <2>1 DEF BeginBlock, DoneIsFinal
  <2>2. CASE ChangeTrustees \/ UNCHANGED vars
    BY <2>2 DEF ChangeTrustees, vars, DoneIsFinal
  <2>3. ASSUME NEW a \in Address, NEW p \in Plan, ProposeUpgrade(a, p)
        PROVE  DoneIsFinal'
    BY <2>3 DEF ProposeUpgrade, ScheduleUpgrade, CanSchedule, DoneIsFinal
  <2>4. ASSUME NEW a \in Address, NEW n \in Name, ApproveUpgrade(a, n) \/ RejectUpgrade(a, n)
        PROVE  DoneIsFinal'
    <3>1. /\ UNCHANGED done
          /\ \/ UNCHANGED plan
             \/ \E u : plan' = PlanOf(n, u) /\ PlanOf(n, u).name \notin done
      BY <2>4, VoteCases, Zenon DEF VoteStep
    <3>2. QED
      BY <3>1 DEF DoneIsFinal
  <2>5. QED
    BY <2>1, <2>2, <2>3, <2>4, Zenon DEF Next
<1>3. QED
  BY <1>1, <1>2, PTL DEF Spec

-----------------------------------------------------------------------------
(* Votes. *)

\* A name that is proposed is neither approved nor rejected, and nobody has
\* approved it twice.
VoteInv ==
  /\ TypeOK
  /\ DOMAIN proposedUpgrade \cap DOMAIN approvedUpgrade = {}
  /\ DOMAIN proposedUpgrade \cap DOMAIN rejectedUpgrade = {}
  /\ \A n \in DOMAIN proposedUpgrade : NoRepeats(proposedUpgrade[n].approvals)

\* An approval of somebody who has not voted makes one more approver.
LEMMA OneMoreApproval ==
  ASSUME VoteInv, NEW a \in Address, NEW n, CanVote(a, n)
  PROVE  /\ NoRepeats(ApprovedBy(n, a).approvals)
         /\ Cardinality(Voters(ApprovedBy(n, a).approvals)) = Len(ApprovedBy(n, a).approvals)
<1> DEFINE s == proposedUpgrade[n].approvals
<1>1. /\ n \in DOMAIN proposedUpgrade /\ proposedUpgrade[n] \in UpgradeType
      /\ ApprovedBy(n, a).approvals = Append(s, a)
  BY VoteRecords DEF VoteInv, CanVote
<1>2. s \in Seq(Address) /\ NoRepeats(s) /\ a \notin Voters(s)
  BY <1>1, UpgradeFields DEF VoteInv, CanVote, HasVoted
<1> HIDE DEF s
<1>3. NoRepeats(Append(s, a)) /\ Append(s, a) \in Seq(Address)
  BY <1>2, AppendNoRepeats, AppendVoters, Zenon
<1>4. Cardinality(Voters(Append(s, a))) = Len(Append(s, a))
  BY <1>3, CountVoters, Zenon
<1>5. QED
  BY <1>1, <1>3, <1>4, Zenon

\* A vote on n moves n out of the open proposals or leaves it there.
LEMMA VoteKeepsApart ==
  ASSUME NEW n \in DOMAIN proposedUpgrade, NEW record, NoRepeats(record.approvals),
         NEW store, NEW store1,
         \A m \in DOMAIN proposedUpgrade : NoRepeats(proposedUpgrade[m].approvals),
         DOMAIN proposedUpgrade \cap DOMAIN store = {},
         \/ /\ proposedUpgrade' = Delete(proposedUpgrade, n)
            /\ store1 = Put(store, n, record)
         \/ /\ proposedUpgrade' = Put(proposedUpgrade, n, record)
            /\ store1 = store
  PROVE  /\ DOMAIN proposedUpgrade' \cap DOMAIN store1 = {}
         /\ DOMAIN proposedUpgrade' \subseteq DOMAIN proposedUpgrade
         /\ \A m \in DOMAIN proposedUpgrade' : NoRepeats(proposedUpgrade'[m].approvals)
<1>1. CASE /\ proposedUpgrade' = Delete(proposedUpgrade, n)
           /\ store1 = Put(store, n, record)
  BY <1>1 DEF Put, Delete
<1>2. CASE /\ proposedUpgrade' = Put(proposedUpgrade, n, record)
           /\ store1 = store
  BY <1>2 DEF Put
<1>3. QED
  BY <1>1, <1>2

\* The inductive step: a proposal is made only for a name that is not
\* approved, and takes a rejected one of its name away.
LEMMA VoteInvStep == VoteInv /\ [Next]_vars => VoteInv'
<1> SUFFICES ASSUME VoteInv, [Next]_vars PROVE VoteInv'
  OBVIOUS
<1>0. TypeOK /\ TypeOK'
  BY TypeStep DEF VoteInv
<1>1. CASE BeginBlock \/ ChangeTrustees \/ UNCHANGED vars
  BY <1>0, <1>1 DEF BeginBlock, ChangeTrustees, vars, records, VoteInv
<1>2. ASSUME NEW a \in Address, NEW p \in Plan, ProposeUpgrade(a, p)
      PROVE  VoteInv'
  <2>1. NoRepeats(NewUpgrade(p, a).approvals)
    BY NewRecord, FirstVote, Zenon
  <2>2. CASE /\ proposedUpgrade' = Put(proposedUpgrade, p.name, NewUpgrade(p, a))
             /\ UNCHANGED approvedUpgrade
    <3>1. /\ DOMAIN proposedUpgrade' = DOMAIN proposedUpgrade \cup {p.name}
          /\ DOMAIN rejectedUpgrade' = DOMAIN rejectedUpgrade \ {p.name}
          /\ p.name \notin DOMAIN approvedUpgrade
      BY <1>2, <2>2 DEF ProposeUpgrade, CanPropose, Put, Delete
    <3>2. \A m \in DOMAIN proposedUpgrade' : NoRepeats(proposedUpgrade'[m].approvals)
      BY <2>1, <2>2 DEF VoteInv, Put
    <3>3. QED
      BY <1>0, <2>2, <3>1, <3>2 DEF VoteInv
  <2>3. CASE /\ proposedUpgrade' = Delete(proposedUpgrade, p.name)
             /\ approvedUpgrade' = Put(approvedUpgrade, p.name, NewUpgrade(p, a))
    BY <1>0, <1>2, <2>3 DEF VoteInv, ProposeUpgrade, Put, Delete
  <2>4. QED
    BY <1>2, <2>2, <2>3 DEF ProposeUpgrade
<1>3. ASSUME NEW a \in Address, NEW n \in Name, ApproveUpgrade(a, n)
      PROVE  VoteInv'
  <2>1. /\ n \in DOMAIN proposedUpgrade
        /\ VoteStep(n, ApprovedBy(n, a), approvedUpgrade)
        /\ UNCHANGED rejectedUpgrade
    BY <1>3, VoteCases
  <2>2. NoRepeats(ApprovedBy(n, a).approvals)
    BY <1>3, OneMoreApproval DEF ApproveUpgrade
  <2>3. /\ DOMAIN proposedUpgrade' \cap DOMAIN approvedUpgrade' = {}
        /\ DOMAIN proposedUpgrade' \subseteq DOMAIN proposedUpgrade
        /\ \A m \in DOMAIN proposedUpgrade' : NoRepeats(proposedUpgrade'[m].approvals)
    BY <2>1, <2>2, VoteKeepsApart, Zenon DEF VoteStep, VoteInv
  <2>4. QED
    BY <1>0, <2>1, <2>3 DEF VoteInv
<1>4. ASSUME NEW a \in Address, NEW n \in Name, RejectUpgrade(a, n)
      PROVE  VoteInv'
  <2>1. /\ n \in DOMAIN proposedUpgrade
        /\ VoteStep(n, RejectedBy(n, a), rejectedUpgrade)
        /\ UNCHANGED approvedUpgrade
    BY <1>4, VoteCases
  <2>2. NoRepeats(RejectedBy(n, a).approvals)
    BY <1>0, <2>1, VoteRecords DEF VoteInv
  <2>3. /\ DOMAIN proposedUpgrade' \cap DOMAIN rejectedUpgrade' = {}
        /\ DOMAIN proposedUpgrade' \subseteq DOMAIN proposedUpgrade
        /\ \A m \in DOMAIN proposedUpgrade' : NoRepeats(proposedUpgrade'[m].approvals)
    BY <2>1, <2>2, VoteKeepsApart, Zenon DEF VoteStep, VoteInv
  <2>4. QED
    BY <1>0, <2>1, <2>3 DEF VoteInv
<1>5. QED
  BY <1>1, <1>2, <1>3, <1>4, Zenon DEF Next

\* The inductive invariant holds.
LEMMA VoteInvHolds == Spec => []VoteInv
<1>1. Init => VoteInv
  BY TypeInit, EmptyIsStore DEF Init, VoteInv
<1>2. QED
  BY <1>1, VoteInvStep, PTL DEF Spec

\* The threshold is a number, as there are finitely many Trustees.
LEMMA ThresholdIsNumber ==
  ASSUME TypeOK
  PROVE  UpgradeApprovalsCount \in Nat
<1>1. IsFiniteSet(trustees)
  BY FS_Subset, AddressAssumption, Zenon DEF TypeOK
<1>2. Cardinality(trustees) \in Nat
  BY <1>1, FS_CardinalityType
<1>3. QED
  BY <1>2, ApprovalShares DEF UpgradeApprovalsCount, UpgradeApprovalsPercent

\* A step changes the slot by a settled vote or by running the plan.
LEMMA SlotHolds == VoteInv /\ [Next]_vars => SlotStep \/ UNCHANGED vars
<1> SUFFICES ASSUME VoteInv, Next PROVE SlotStep
  OBVIOUS
<1>0. TypeOK
  BY DEF VoteInv
<1>1. CASE BeginBlock
  BY <1>1 DEF BeginBlock, Due, SlotStep
<1>2. CASE ChangeTrustees
  BY <1>2 DEF ChangeTrustees, SlotStep
<1>3. ASSUME NEW n \in Name, NEW record, n \notin DOMAIN approvedUpgrade,
             approvedUpgrade' = Put(approvedUpgrade, n, record), plan' = PlanOf(n, record),
             Cardinality(Voters(record.approvals)) >= UpgradeApprovalsCount
      PROVE  SlotStep
  <2>1. /\ n \in DOMAIN approvedUpgrade' \ DOMAIN approvedUpgrade
        /\ approvedUpgrade'[n] = record
    BY <1>3 DEF Put
  <2>2. QED
    BY <1>3, <2>1, Zenon DEF SlotStep, Settles
<1>4. ASSUME NEW a \in Address, NEW p \in Plan, ProposeUpgrade(a, p)
      PROVE  SlotStep
  <2>1. CASE UNCHANGED plan
    BY <2>1 DEF SlotStep
  <2>2. CASE /\ UpgradeApprovalsCount <= 1 /\ plan' = p
             /\ approvedUpgrade' = Put(approvedUpgrade, p.name, NewUpgrade(p, a))
    <3>1. /\ NewUpgrade(p, a).approvals = <<a>> /\ p.name \in Name
          /\ p = PlanOf(p.name, NewUpgrade(p, a))
      BY NewRecord
    <3>2. Voters(<<a>>) = {a} /\ Cardinality({a}) = 1
      BY FirstVote, FS_Singleton, Zenon
    <3>3. Cardinality(Voters(NewUpgrade(p, a).approvals)) >= UpgradeApprovalsCount
      BY <1>0, <2>2, <3>1, <3>2, ThresholdIsNumber
    <3>4. p.name \notin DOMAIN approvedUpgrade
      BY <1>4 DEF ProposeUpgrade, CanPropose
    <3>5. QED
      BY <1>3, <2>2, <3>1, <3>3, <3>4, Zenon
  <2>3. QED
    BY <1>4, <2>1, <2>2 DEF ProposeUpgrade, ScheduleUpgrade
<1>5. ASSUME NEW a \in Address, NEW n \in Name, ApproveUpgrade(a, n)
      PROVE  SlotStep
  <2>1. CASE UNCHANGED plan
    BY <2>1 DEF SlotStep
  <2>2. CASE /\ Len(ApprovedBy(n, a).approvals) >= UpgradeApprovalsCount
             /\ plan' = PlanOf(n, ApprovedBy(n, a))
             /\ approvedUpgrade' = Put(approvedUpgrade, n, ApprovedBy(n, a))
    <3>1. CanVote(a, n) /\ n \notin DOMAIN approvedUpgrade
      BY <1>5 DEF ApproveUpgrade, CanVote, VoteInv
    <3>2. Cardinality(Voters(ApprovedBy(n, a).approvals)) >= UpgradeApprovalsCount
      BY <2>2, <3>1, OneMoreApproval
    <3>3. QED
      BY <1>3, <2>2, <3>1, <3>2, Zenon
  <2>3. QED
    BY <1>5, <2>1, <2>2, Zenon DEF ApproveUpgrade, ScheduleUpgrade, ApprovedBy
<1>6. ASSUME NEW a \in Address, NEW n \in Name, RejectUpgrade(a, n)
      PROVE  SlotStep
  <2>1. /\ n \in DOMAIN proposedUpgrade
        /\ VoteStep(n, RejectedBy(n, a), rejectedUpgrade)
    BY <1>6, VoteCases
  <2>2. CASE UNCHANGED plan
    BY <2>2 DEF SlotStep
  <2>3. CASE /\ plan' = PlanOf(n, RejectedBy(n, a))
             /\ rejectedUpgrade' = Put(rejectedUpgrade, n, RejectedBy(n, a))
    <3>1. n \in DOMAIN rejectedUpgrade' /\ rejectedUpgrade'[n] = RejectedBy(n, a)
      BY <2>3 DEF Put
    <3>2. n \notin DOMAIN rejectedUpgrade
      BY <2>1 DEF VoteInv
    <3>3. QED
      BY <2>3, <3>1, <3>2, Zenon DEF SlotStep, Settles
  <2>4. QED
    BY <2>1, <2>2, <2>3, Zenon DEF VoteStep
<1>7. QED
  BY <1>1, <1>2, <1>4, <1>5, <1>6, Zenon DEF Next

\* The slot of the upgrade keeper is filled by settled votes, with as many
\* different approvers as are required, and emptied by running the plan.
THEOREM SlotCorrect == Spec => SlotChangesByVote
BY VoteInvHolds, SlotHolds, PTL DEF Spec, SlotChangesByVote

\* A step keeps the plans of the open proposals with their votes.
LEMMA PlanHolds == VoteInv /\ [Next]_vars => PlanStep \/ UNCHANGED vars
<1> SUFFICES ASSUME VoteInv, Next PROVE PlanStep
  OBVIOUS
<1>0. /\ TypeOK
      /\ DOMAIN proposedUpgrade \cap DOMAIN approvedUpgrade = {}
      /\ DOMAIN proposedUpgrade \cap DOMAIN rejectedUpgrade = {}
  BY DEF VoteInv
<1>1. CASE BeginBlock \/ ChangeTrustees
  BY <1>0, <1>1 DEF BeginBlock, ChangeTrustees, records, PlanStep
<1>2. ASSUME NEW a \in Address, NEW p \in Plan, ProposeUpgrade(a, p)
      PROVE  PlanStep
  <2>1. /\ Len(NewUpgrade(p, a).approvals) = 1
        /\ rejectedUpgrade' = Delete(rejectedUpgrade, p.name)
        /\ p.name \in DOMAIN proposedUpgrade => Expired(proposedUpgrade[p.name])
    BY <1>2, NewRecord, FirstVote, Zenon DEF ProposeUpgrade, CanPropose
  <2>2. CASE /\ proposedUpgrade' = Put(proposedUpgrade, p.name, NewUpgrade(p, a))
             /\ UNCHANGED approvedUpgrade
    BY <1>0, <2>1, <2>2 DEF PlanStep, Put, Delete
  <2>3. CASE /\ proposedUpgrade' = Delete(proposedUpgrade, p.name)
             /\ approvedUpgrade' = Put(approvedUpgrade, p.name, NewUpgrade(p, a))
    BY <1>0, <2>1, <2>3 DEF PlanStep, Put, Delete
  <2>4. QED
    BY <1>2, <2>2, <2>3 DEF ProposeUpgrade
<1>3. ASSUME NEW a \in Address, NEW n \in Name, ApproveUpgrade(a, n)
      PROVE  PlanStep
  <2>1. /\ n \in DOMAIN proposedUpgrade
        /\ VoteStep(n, ApprovedBy(n, a), approvedUpgrade)
        /\ UNCHANGED rejectedUpgrade
    BY <1>3, VoteCases
  <2>2. ApprovedBy(n, a).height = proposedUpgrade[n].height
    BY <1>0, <2>1, VoteRecords
  <2>3. QED
    BY <1>0, <2>1, <2>2 DEF VoteStep, PlanStep, Put, Delete
<1>4. ASSUME NEW a \in Address, NEW n \in Name, RejectUpgrade(a, n)
      PROVE  PlanStep
  <2>1. /\ n \in DOMAIN proposedUpgrade
        /\ VoteStep(n, RejectedBy(n, a), rejectedUpgrade)
        /\ UNCHANGED approvedUpgrade
    BY <1>4, VoteCases
  <2>2. RejectedBy(n, a).height = proposedUpgrade[n].height
    BY <1>0, <2>1, VoteRecords
  <2>3. QED
    BY <1>0, <2>1, <2>2 DEF VoteStep, PlanStep, Put, Delete
<1>5. QED
  BY <1>1, <1>2, <1>3, <1>4, Zenon DEF Next

\* Votes given for a plan never count for another plan of its name.
THEOREM PlanCorrect == Spec => VotesStayWithPlan
BY VoteInvHolds, PlanHolds, PTL DEF Spec, VotesStayWithPlan
=============================================================================
