----------------------------- MODULE EmailState -----------------------------
(***************************************************************************)
(* The processing states of an email and their transitions                 *)
(* (app/domain/transitions.py, app/services/email_state.py).  A row is     *)
(* [state, resume, retries]; resume is "NONE" where the column is NULL.    *)
(***************************************************************************)
EXTENDS Naturals

Failures == {"FAILED_RETRYABLE", "FAILED_REVIEW"}
Pipeline == <<"DISCOVERED", "FETCHED", "ATTACHMENTS_SAVED", "CLASSIFIED",
              "TASK_CREATED", "MOVED", "COMPLETED">>
PipelineStates == {Pipeline[i] : i \in 1..7}
EmailStates == PipelineStates \cup Failures
EmailRows == [state : EmailStates, resume : PipelineStates \cup {"NONE"}, retries : Nat]

\* ALLOWED_TRANSITIONS: one step along the pipeline, a reclassification, or a failure.
AllowedForward(cur, target) ==
  \/ \E i \in 1..6 : cur = Pipeline[i] /\ target = Pipeline[i + 1]
  \/ cur = "CLASSIFIED" /\ target = "CLASSIFIED"
  \/ cur \in PipelineStates \ {"COMPLETED"} /\ target \in Failures

\* validate_transition.  No caller asks for a manual reset, so nothing leaves FAILED_REVIEW.
ValidTransition(row, target) ==
  CASE row.state = "COMPLETED" -> FALSE
    [] row.state = "FAILED_RETRYABLE" ->
         target = "FAILED_REVIEW" \/ (row.resume # "NONE" /\ target = row.resume)
    [] row.state = "FAILED_REVIEW" -> FALSE
    [] OTHER -> AllowedForward(row.state, target)

\* What _transition_locked leaves in the row; the caller has checked ValidTransition.
Transitioned(row, target) ==
  [state   |-> target,
   resume  |-> CASE target \notin Failures -> "NONE"
                 [] target \in Failures /\ row.state \notin Failures -> row.state
                 [] OTHER -> row.resume,
   retries |-> row.retries + IF target = "FAILED_RETRYABLE" THEN 1 ELSE 0]
=============================================================================
