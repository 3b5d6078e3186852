---------------------------- MODULE MCBackground ----------------------------
(***************************************************************************)
(* The background work: the Graph job queue, the licensing and document    *)
(* queues, and the deadline engine they run.  They share no state, so one  *)
(* behaviour is about one of them, the focus; the initial states with the  *)
(* focus "milestones" enumerate the lead times of a policy.                *)
(***************************************************************************)
EXTENDS GraphJobQueue, LeasedJobs, Deadlines, TLC

CONSTANTS j1, j2, folder, other, w1, w2, p1

VARIABLES focus, lead

\* One key for each of two folders.
Distinct == j1 :> folder @@ j2 :> other

\* A bond's expiry date on a weekend, and a date the regulator gave whose more specific rule
\* takes effect later.
BondRule ==
  [rule |-> "r1", recurs |-> "BOND_EXPIRATION", anchor |-> 125, adjust |-> "NEXT_BUSINESS_DAY",
   lead |-> 0, milestones |-> {}, from |-> 0, to |-> 999, specificity |-> 0, priority |-> 100]
RegulatorRule ==
  [rule |-> "r2", recurs |-> "REGULATOR_SUPPLIED", anchor |-> 124, adjust |-> "NONE", lead |-> 30,
   milestones |-> {"SUBMISSION_DUE"}, from |-> 100, to |-> 999, specificity |-> 1, priority |-> 100]
BothRules == {BondRule, RegulatorRule}

\* Longer than every offset a policy scales.
MaxLead == 90

BackgroundInit ==
  /\ focus \in {"graph", "leased", "deadlines", "milestones"}
  /\ lead \in IF focus = "milestones" THEN 1..MaxLead ELSE {1}
  /\ Init /\ LeasedInit /\ DeadlineInit

BackgroundNext ==
  \/ focus = "graph" /\ Next /\ UNCHANGED <<focus, lead, leasedVars, deadlineVars>>
  \/ focus = "leased" /\ LeasedNext /\ UNCHANGED <<focus, lead, vars, deadlineVars>>
  \/ focus = "deadlines" /\ DeadlineNext /\ UNCHANGED <<focus, lead, vars, leasedVars>>

\* Nothing is enabled before a first job or obligation, so that the fairness of each part holds
\* of the behaviours that are about another.
BackgroundSpec ==
  /\ BackgroundInit /\ [][BackgroundNext]_<<focus, lead, vars, leasedVars, deadlineVars>>
  /\ Fairness /\ LeasedFairness /\ DeadlineFairness

\* What the licensing queues and the deadline engine keep in every state.
BackgroundInv == LeasedTypeOK /\ DeadlineTypeOK /\ NoRepage

\* Every queued job of either kind of queue is completed or parked for review in the end, although
\* workers die and leases are recovered.
EveryJobEnds == PendingIsServed /\ JobsEnd

\* Scaling "keeps the sequence ordered and actionable" (rules.py): for every lead time the
\* milestones keep their order, none is before the lead or on the statutory date itself.
MilestonesKeepOrder == OrderedWithin(lead)
=============================================================================
