------------------------------ MODULE DclUpgrade -----------------------------
(***************************************************************************)
(* x/dclupgrade: the Trustees vote on software upgrades.  A settled        *)
(* proposal is handed to the upgrade keeper of the Cosmos SDK, which has   *)
(* one slot for the next plan and runs the plan at its height.  The        *)
(* Trustees are a variable: x/dclauth adds and revokes them while          *)
(* proposals are open.                                                     *)
(***************************************************************************)
EXTENDS FiniteSets, KVStore, TrusteeVoting

CONSTANTS
  Address,      \* account addresses
  Name,         \* names of upgrade plans
  Genesis,      \* the Trustees of the genesis file
  MaxHeight,    \* bound on the height of the chain
  NoPlan        \* nothing is scheduled

ASSUME AddressAssumption == IsFiniteSet(Address) /\ Genesis \subseteq Address
ASSUME BoundAssumption == MaxHeight \in Nat \ {0}
ASSUME NameAssumption == NoPlan \notin [name : Name, height : 1..MaxHeight]

VARIABLES
  trustees,          \* the accounts with the Trustee role
  proposedUpgrade,   \* open proposals: name |-> height of the plan and votes
  approvedUpgrade,
  rejectedUpgrade,
  plan,              \* the slot of the upgrade keeper
  done,              \* names of the upgrades that were run
  height             \* height of the block that is being executed

records == <<proposedUpgrade, approvedUpgrade, rejectedUpgrade>>
vars == <<trustees, records, plan, done, height>>

\* A plan is only proposed when it can still be run within the bound.
PlanHeight == 1..MaxHeight - 1

Plan == [name : Name, height : PlanHeight]

-----------------------------------------------------------------------------
(* The upgrade keeper. *)

\* A plan that was run can be scheduled again.
CanSchedule_Done(p) == p.height >= height

\* ScheduleUpgrade refuses a plan of the past and one that was run, and
\* replaces the plan in the slot.
CanSchedule(p) == p.height >= height /\ p.name \notin done

ScheduleUpgrade(p) == CanSchedule(p) /\ plan' = p

\* A plan that was scheduled for the block that schedules it is never run.
Due_Exact(h) == plan # NoPlan /\ plan.height = h

\* The plan in the slot is to be run by the block of height h.
Due(h) == plan # NoPlan /\ plan.height <= h

\* The next block begins: the plan that is due is run and leaves the slot.
BeginBlock ==
  /\ height < MaxHeight
  /\ height' = height + 1
  /\ \/ /\ Due(height')
        /\ done' = done \cup {plan.name}
        /\ plan' = NoPlan
     \/ /\ ~Due(height')
        /\ UNCHANGED <<done, plan>>
  /\ UNCHANGED <<trustees, records>>

-----------------------------------------------------------------------------
(* The keeper and the handlers of x/dclupgrade. *)

UpgradeApprovalsPercent == 66

UpgradeApprovalsCount == RoundedShare(UpgradeApprovalsPercent, Cardinality(trustees))

UpgradeRejectsCount == Cardinality(trustees) - UpgradeApprovalsCount + 1

\* The plan is put off by a block.
PlanOf_Late(name, upgrade) == [name |-> name, height |-> upgrade.height + 1]

PlanOf(name, upgrade) == [name |-> name, height |-> upgrade.height]

NewUpgrade(p, creator) == [height |-> p.height, approvals |-> <<creator>>, rejects |-> <<>>]

\* The block is past the plan of the open proposal.
Expired(upgrade) == height > upgrade.height

\* A proposal of the same name that is still open is replaced.
CanPropose_Open(creator, p) ==
  /\ creator \in trustees
  /\ CanSchedule(p)
  /\ p.name \notin DOMAIN approvedUpgrade

\* The plan can be scheduled; a proposal of the same name has expired, and
\* none was approved.
CanPropose(creator, p) ==
  /\ creator \in trustees
  /\ CanSchedule(p)
  /\ p.name \in DOMAIN proposedUpgrade => Expired(proposedUpgrade[p.name])
  /\ p.name \notin DOMAIN approvedUpgrade

ProposeUpgrade(creator, p) ==
  /\ CanPropose(creator, p)
  /\ \/ /\ UpgradeApprovalsCount > 1
        /\ proposedUpgrade' = Put(proposedUpgrade, p.name, NewUpgrade(p, creator))
        /\ UNCHANGED <<approvedUpgrade, plan>>
     \/ /\ UpgradeApprovalsCount <= 1
        /\ ScheduleUpgrade(p)
        /\ proposedUpgrade' = Delete(proposedUpgrade, p.name)
        /\ approvedUpgrade' = Put(approvedUpgrade, p.name, NewUpgrade(p, creator))
  /\ rejectedUpgrade' = Delete(rejectedUpgrade, p.name)
  /\ UNCHANGED <<trustees, done, height>>

\* One who has approved can approve again.
CanVote_Again(creator, name) ==
  /\ creator \in trustees
  /\ name \in DOMAIN proposedUpgrade
  /\ creator \notin Voters(proposedUpgrade[name].rejects)

CanVote(creator, name) ==
  /\ creator \in trustees
  /\ name \in DOMAIN proposedUpgrade
  /\ ~HasVoted(proposedUpgrade[name], creator)

\* Even an approval that settles nothing is refused when the plan could not
\* be scheduled now.
ApproveUpgrade(creator, name) ==
  /\ CanVote(creator, name)
  /\ LET upgrade == [proposedUpgrade[name] EXCEPT !.approvals = Append(@, creator)]
     IN  \/ /\ Len(upgrade.approvals) >= UpgradeApprovalsCount
            /\ ScheduleUpgrade(PlanOf(name, upgrade))
            /\ proposedUpgrade' = Delete(proposedUpgrade, name)
            /\ approvedUpgrade' = Put(approvedUpgrade, name, upgrade)
         \/ /\ Len(upgrade.approvals) < UpgradeApprovalsCount
            /\ CanSchedule(PlanOf(name, upgrade))
            /\ proposedUpgrade' = Put(proposedUpgrade, name, upgrade)
            /\ UNCHANGED <<approvedUpgrade, plan>>
  /\ UNCHANGED <<trustees, rejectedUpgrade, done, height>>

\* The rejection that settles the vote schedules the plan, as an approval does.
RejectUpgrade(creator, name) ==
  /\ CanVote(creator, name)
  /\ LET upgrade == [proposedUpgrade[name] EXCEPT !.rejects = Append(@, creator)]
     IN  \/ /\ Len(upgrade.rejects) >= UpgradeRejectsCount
            /\ ScheduleUpgrade(PlanOf(name, upgrade))
            /\ proposedUpgrade' = Delete(proposedUpgrade, name)
            /\ rejectedUpgrade' = Put(rejectedUpgrade, name, upgrade)
         \/ /\ Len(upgrade.rejects) < UpgradeRejectsCount
            /\ proposedUpgrade' = Put(proposedUpgrade, name, upgrade)
            /\ UNCHANGED <<rejectedUpgrade, plan>>
  /\ UNCHANGED <<trustees, approvedUpgrade, done, height>>

\* x/dclauth adds or revokes a Trustee.
ChangeTrustees ==
  /\ \E a \in Address : trustees' \in {trustees \cup {a}, trustees \ {a}} \ {trustees}
  /\ UNCHANGED <<records, plan, done, height>>

-----------------------------------------------------------------------------
Init ==
  /\ trustees = Genesis
  /\ proposedUpgrade = EmptyStore
  /\ approvedUpgrade = EmptyStore
  /\ rejectedUpgrade = EmptyStore
  /\ plan = NoPlan
  /\ done = {}
  /\ height = 1

Next ==
  \/ BeginBlock
  \/ ChangeTrustees
  \/ \E creator \in Address :
       \/ \E p \in Plan : ProposeUpgrade(creator, p)
       \/ \E name \in Name : ApproveUpgrade(creator, name) \/ RejectUpgrade(creator, name)

\* Consensus keeps producing blocks; nobody has to vote.
Spec == Init /\ [][Next]_vars /\ WF_vars(BeginBlock)

-----------------------------------------------------------------------------
(* Properties. *)

UpgradeType == [height : PlanHeight, approvals : Seq(Address), rejects : Seq(Address)]

\* Every record is a plan that could be scheduled when it was proposed, with
\* its votes.
TypeOK ==
  /\ trustees \subseteq Address
  /\ IsStore(proposedUpgrade, Name, UpgradeType)
  /\ IsStore(approvedUpgrade, Name, UpgradeType)
  /\ IsStore(rejectedUpgrade, Name, UpgradeType)
  /\ plan \in Plan \cup {NoPlan}
  /\ done \subseteq Name
  /\ height \in 1..MaxHeight

\* An upgrade that was run is never scheduled again, whether it was approved,
\* or rejected and then proposed again (ScheduleUpgrade, BeginBlock).
DoneIsFinal == plan # NoPlan => plan.name \notin done

\* The plan of the new record n is the one the step puts into the slot.
Settles(n, upgrade) == plan' = PlanOf(n, upgrade)

\* The slot is filled only by the vote that settles a proposal, with the
\* plan of the record this vote leaves; an approved one carries the votes of
\* as many different addresses as are required now.  It is emptied only by
\* the block that runs the plan.
SlotStep ==
  plan' # plan =>
    \/ plan' = NoPlan /\ plan.name \in done' /\ plan.height <= height'
    \/ \E n \in Name :
         \/ /\ n \in DOMAIN approvedUpgrade' \ DOMAIN approvedUpgrade
            /\ Settles(n, approvedUpgrade'[n])
            /\ Cardinality(Voters(approvedUpgrade'[n].approvals)) >= UpgradeApprovalsCount
         \/ /\ n \in DOMAIN rejectedUpgrade' \ DOMAIN rejectedUpgrade
            /\ Settles(n, rejectedUpgrade'[n])

\* No plan gets into the slot, or out of it, past the voters.
SlotChangesByVote == [][SlotStep]_vars

\* A vote stays with the plan it was given for: while a name is proposed its
\* height does not change, unless the proposal has expired and starts again
\* with one vote; and what is approved or rejected is the plan that was open.
PlanStep ==
  \A n \in DOMAIN proposedUpgrade :
    LET old == proposedUpgrade[n] IN
    /\ n \in DOMAIN proposedUpgrade' =>
         \/ proposedUpgrade'[n].height = old.height
         \/ Expired(old) /\ Len(proposedUpgrade'[n].approvals) = 1
    /\ n \in DOMAIN rejectedUpgrade' => rejectedUpgrade'[n].height = old.height
    /\ n \in DOMAIN approvedUpgrade' =>
         \/ approvedUpgrade'[n].height = old.height
         \/ Expired(old) /\ Len(approvedUpgrade'[n].approvals) = 1

\* Votes for one plan never count for another of the same name.
VotesStayWithPlan == [][PlanStep]_vars

\* Every plan in the slot is run or gives way to another: the slot does not
\* hold a plan whose height is past for ever, even one that was scheduled
\* for the very block that scheduled it.
ScheduledIsRun ==
  \A p \in Plan : plan = p ~> (p.name \in done \/ plan # p)

\* What docs/transactions.md says of REJECT_UPGRADE, "Rejects the proposed
\* upgrade plan with the given name": a rejected plan is not scheduled.
RejectedIsNotScheduled ==
  \A n \in DOMAIN rejectedUpgrade : plan # PlanOf(n, rejectedUpgrade[n])
=============================================================================
