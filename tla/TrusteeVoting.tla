---------------------------- MODULE TrusteeVoting ----------------------------
(***************************************************************************)
(* What the voting of the ledger's modules has in common: thresholds are a *)
(* percentage of the number of Trustees, rounded, and the votes on a       *)
(* proposal are two lists of grants, of which the address matters here.    *)
(***************************************************************************)
EXTENDS Integers, Sequences, Functions

\* int(math.Round(percent * float64(n))), the percentage being a whole
\* number of hundredths: 66 for 0.66.  A half is rounded up.
RoundedShare(percent, n) == (percent * n + 50) \div 100

\* The addresses that granted their vote in the list s.
Voters(s) == Range(s)

\* HasApprovalFrom / HasRejectApprovalFrom, for both lists of a proposal.
HasVoted(proposal, voter) ==
  \/ voter \in Voters(proposal.rejects)
  \/ voter \in Voters(proposal.approvals)

\* No address is twice in the list s.
NoRepeats(s) == \A i, j \in DOMAIN s : s[i] = s[j] => i = j

\* Everybody votes at most once on a proposal, for it or against it.
OneVoteEach(proposal) ==
  /\ NoRepeats(proposal.approvals)
  /\ NoRepeats(proposal.rejects)
  /\ Voters(proposal.approvals) \cap Voters(proposal.rejects) = {}
=============================================================================
