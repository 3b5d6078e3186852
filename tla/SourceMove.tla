----------------------------- MODULE SourceMove -----------------------------
(***************************************************************************)
(* Moving one email out of the inbox and completing its workflow:          *)
(* app/services/source_move_service.py, workflow_completion_service.py,    *)
(* the plan and move endpoints of api/v1/communications.py and the part of *)
(* workers/communication_jobs.py that runs them.  The send of the response *)
(* is OutboundSend; here it is one bit, the verified Sent Items copy.      *)
(*                                                                         *)
(* A handler that raises with a transaction open ends its worker with      *)
(* nothing recorded (OutboundSend!Dies); one that raises right after its   *)
(* commit has its failure recorded.                                        *)
(***************************************************************************)
EXTENDS EmailState, Sequences, FiniteSets

CONSTANTS
  Movers,          \* worker processes
  Folders,         \* destination folders
  Overrides,       \* the folders a Manager may choose instead
  MoveMax,         \* communication_move_job_max_attempts
  VerifyMax,       \* communication_move_reconciliation_max_attempts
  MaxMoves,        \* bound: move attempts
  MaxUpsets        \* bound: crashes, overrides and moves by hand

ASSUME MoveAssumption ==
  /\ MoveMax \in Nat \ {0} /\ VerifyMax \in Nat \ {0} /\ MaxMoves \in Nat
  /\ MaxUpsets \in Nat /\ "inbox" \notin Folders /\ Overrides \subseteq Folders

VARIABLES
  moves,      \* rows of message_move_attempts, by attempt_number
  mjobs,      \* rows of communication_jobs, by idempotency key
  email,      \* the row of emails
  plan,       \* [required, dest]: response_plans joined with the task's folder
  sentCopy,   \* the draft is SENT_COPY_VERIFIED, and so is its last attempt
  record,     \* destination of the workflow_completion_records row, or "NONE"
  folder,     \* where Graph has the message
  wire,       \* destinations of requests Graph may still apply
  mw,         \* worker sessions
  upsets      \* crashes, overrides and moves by hand so far

moveVars == <<moves, mjobs, email, plan, sentCopy, record, folder, wire, mw, upsets>>

MoveStatuses == {"STARTED", "VERIFIED", "AMBIGUOUS", "FAILED_RETRYABLE", "FAILED_REVIEW"}
MoveRows == [status : MoveStatuses, dest : Folders]
CompletionRecords == Folders \cup {"NONE"}
BaseKeys == {<<"after-send", 0>>, <<"no-response", 0>>, <<"manual", 0>>}
MoveKeys == BaseKeys \cup ({"retry", "verify", "complete"} \X (1..MaxMoves))
MoveJobRows == [status : {"absent", "PENDING", "RUNNING", "COMPLETED", "FAILED_RETRYABLE",
                          "FAILED_REVIEW"}, attempts : Nat, leased : BOOLEAN]
MoveOutcomes == {"moved", "unsent", "ambiguous", "refused"}
IdleMover == [pc |-> "idle", job |-> <<"manual", 0>>, n |-> 0, at |-> 0, was |-> "NONE"]
MoverStates ==
  [pc : {"idle", "claimed", "clear", "intent", "posted", "inspect", "found", "missing",
         "done", "failed"},
   job : MoveKeys, n : Nat, at : 0..MaxMoves, was : {"NONE"} \cup MoveStatuses \cup MoveOutcomes]

\* Rows and sessions keep their types; a session refers to attempts that exist.
MoveTypeOK ==
  /\ moves \in Seq(MoveRows) /\ Len(moves) <= MaxMoves
  /\ mjobs \in [MoveKeys -> MoveJobRows]
  /\ email \in EmailRows
  /\ plan \in [required : BOOLEAN, dest : Folders]
  /\ sentCopy \in BOOLEAN /\ record \in CompletionRecords
  /\ folder \in Folders \cup {"inbox"} /\ wire \subseteq Folders
  /\ mw \in [Movers -> MoverStates] /\ \A w \in Movers : mw[w].at <= Len(moves)
  /\ upsets \in 0..MaxUpsets

NoMoveJob == [status |-> "absent", attempts |-> 0, leased |-> FALSE]
NewMoveJob == [status |-> "PENDING", attempts |-> 0, leased |-> FALSE]

\* create_plan has run for a task of an email in TASK_CREATED: a plan that needs no
\* response queues the move with it, the others wait for the Sent Items copy.
MoveInit ==
  /\ plan \in [required : BOOLEAN, dest : Folders \ Overrides]
  /\ mjobs = [k \in MoveKeys |->
                IF k = <<"no-response", 0>> /\ ~plan.required THEN NewMoveJob ELSE NoMoveJob]
  /\ moves = <<>> /\ sentCopy = FALSE /\ record = "NONE" /\ folder = "inbox" /\ wire = {}
  /\ email = [state |-> "TASK_CREATED", resume |-> "NONE", retries |-> 0]
  /\ mw = [w \in Movers |-> IdleMover] /\ upsets = 0

\* CommunicationJobRepository.enqueue: an existing key is returned as it is.
WithMoveJob(js, k) == IF js[k].status = "absent" THEN [js EXCEPT ![k] = NewMoveJob] ELSE js

MoveMaxOf(k) == CASE k \in BaseKeys -> MoveMax
                  [] k[1] = "verify" -> VerifyMax
                  [] OTHER -> 1

LastMove == Len(moves)

(***************************************************************************)
(* Requests                                                                *)
(***************************************************************************)

\* SentReconciliationService verifies the copy and queues the move.
SentCopyVerified ==
  /\ plan.required /\ ~sentCopy
  /\ sentCopy' = TRUE
  /\ mjobs' = WithMoveJob(mjobs, <<"after-send", 0>>)
  /\ UNCHANGED <<moves, email, plan, record, folder, wire, mw, upsets>>

\* enqueue_move: a Manager queues the move by hand, once.
ManualMove ==
  /\ mjobs[<<"manual", 0>>].status = "absent"
  /\ upsets < MaxUpsets /\ upsets' = upsets + 1
  /\ mjobs' = WithMoveJob(mjobs, <<"manual", 0>>)
  /\ UNCHANGED <<moves, email, plan, sentCopy, record, folder, wire, mw>>

\* patch_plan: a Manager overrides the folder; a draft whose send has begun forbids it,
\* a plan without a draft never does.
OverrideDestination(f) ==
  /\ f # plan.dest
  /\ ~sentCopy
  /\ upsets < MaxUpsets /\ upsets' = upsets + 1
  /\ plan' = [plan EXCEPT !.dest = f]
  /\ UNCHANGED <<moves, mjobs, email, sentCopy, record, folder, wire, mw>>

(***************************************************************************)
(* Workers                                                                 *)
(***************************************************************************)

MoveGoTo(w, pc) == mw' = [mw EXCEPT ![w].pc = pc]

MoveClaim(w, k) ==
  /\ mw[w].pc = "idle"
  /\ \/ mjobs[k].status \in {"PENDING", "FAILED_RETRYABLE"}
     \/ mjobs[k].status = "RUNNING" /\ ~mjobs[k].leased
  /\ mjobs[k].attempts < MoveMaxOf(k)
  /\ mjobs' = [mjobs EXCEPT ![k] = [status |-> "RUNNING", attempts |-> @.attempts + 1,
                                    leased |-> TRUE]]
  /\ mw' = [mw EXCEPT ![w] = [IdleMover EXCEPT !.pc = "claimed", !.job = k,
                                               !.n = mjobs[k].attempts + 1]]
  /\ UNCHANGED <<moves, email, plan, sentCopy, record, folder, wire, upsets>>

\* The process ends; the lease of its job lapses and the supervisor restarts it.
MoverDies(w) ==
  /\ mw' = [mw EXCEPT ![w] = IdleMover]
  /\ mjobs' = [mjobs EXCEPT ![mw[w].job].leased = FALSE]
  /\ UNCHANGED <<moves, email, plan, sentCopy, record, folder, wire>>

\* A crash at any point, or a Graph read that fails inside the transaction.
MoverCrash(w) ==
  /\ mw[w].pc # "idle"
  /\ upsets < MaxUpsets /\ upsets' = upsets + 1
  /\ MoverDies(w)

MoveJobDone(w) ==
  /\ mw[w].pc = "done"
  /\ mjobs' = [mjobs EXCEPT ![mw[w].job] = [@ EXCEPT !.status = "COMPLETED",
                                                     !.leased = FALSE]]
  /\ mw' = [mw EXCEPT ![w] = IdleMover]
  /\ UNCHANGED <<moves, email, plan, sentCopy, record, folder, wire, upsets>>

\* The latest attempt as this session sees it: its own copy of an attempt it has loaded.
SeenLatest(w) == IF mw[w].at = LastMove THEN "AMBIGUOUS" ELSE moves[LastMove].status

\* The handler of a reconciliation raised after its commit.  At the limit the
\* latest attempt, if this session sees it AMBIGUOUS, is closed for review.
MoveJobFails(w) ==
  LET last == mw[w].n >= MoveMaxOf(mw[w].job) IN
  /\ mw[w].pc = "failed"
  /\ mjobs' = [mjobs EXCEPT ![mw[w].job] =
                 [@ EXCEPT !.status = IF last THEN "FAILED_REVIEW" ELSE "FAILED_RETRYABLE",
                           !.leased = FALSE]]
  /\ moves' = IF last /\ SeenLatest(w) = "AMBIGUOUS"
              THEN [moves EXCEPT ![LastMove].status = "FAILED_REVIEW"] ELSE moves
  /\ mw' = [mw EXCEPT ![w] = IdleMover]
  /\ UNCHANGED <<email, plan, sentCopy, record, folder, wire, upsets>>

(***************************************************************************)
(* SourceMoveService.execute                                               *)
(***************************************************************************)

MoveJob(w) == mw[w].pc = "claimed" /\ mw[w].job[1] \notin {"verify", "complete"}
LatestIs(statuses) == moves # <<>> /\ moves[LastMove].status \in statuses

MoveAlreadyVerified(w) ==
  /\ MoveJob(w) /\ LatestIs({"VERIFIED"})
  /\ MoveGoTo(w, "done")
  /\ UNCHANGED <<moves, mjobs, email, plan, sentCopy, record, folder, wire, upsets>>

\* An attempt without a known outcome is never repeated: it is reconciled.
MoveUnresolved(w) ==
  /\ MoveJob(w) /\ LatestIs({"STARTED", "AMBIGUOUS"})
  /\ moves' = [moves EXCEPT ![LastMove].status = "AMBIGUOUS"]
  /\ mjobs' = WithMoveJob(mjobs, <<"verify", LastMove>>)
  /\ MoveGoTo(w, "done")
  /\ UNCHANGED <<email, plan, sentCopy, record, folder, wire, upsets>>

ResponseSettled == plan.required => sentCopy

MoveBlocked(w) ==
  /\ MoveJob(w) /\ ~LatestIs({"VERIFIED", "STARTED", "AMBIGUOUS"}) /\ ~ResponseSettled
  /\ MoverDies(w)
  /\ UNCHANGED upsets

\* Mutant: a STARTED attempt of another worker is taken for a failed one.
MoveClearsStarted(w) ==
  /\ MoveJob(w) /\ ~LatestIs({"VERIFIED", "AMBIGUOUS"}) /\ ResponseSettled
  /\ mw' = [mw EXCEPT ![w].pc = "clear", ![w].at = LastMove]
  /\ UNCHANGED <<moves, mjobs, email, plan, sentCopy, record, folder, wire, upsets>>

\* Nothing stands against a new attempt; the insert follows in a later statement.
MoveClears(w) ==
  /\ MoveJob(w) /\ ~LatestIs({"VERIFIED", "STARTED", "AMBIGUOUS"}) /\ ResponseSettled
  /\ mw' = [mw EXCEPT ![w].pc = "clear", ![w].at = LastMove]
  /\ UNCHANGED <<moves, mjobs, email, plan, sentCopy, record, folder, wire, upsets>>

\* The intent: number count + 1, committed before the request.
MoveIntent(w) ==
  /\ mw[w].pc = "clear" /\ LastMove < MaxMoves
  /\ moves' = Append(moves, [status |-> "STARTED", dest |-> plan.dest])
  /\ mw' = [mw EXCEPT ![w].pc = "intent", ![w].at = LastMove + 1]
  /\ UNCHANGED <<mjobs, email, plan, sentCopy, record, folder, wire, upsets>>

\* uq_move_attempt_number: another worker took the number between count and insert.
MoveIntentCollides(w) ==
  /\ mw[w].pc = "clear" /\ LastMove > mw[w].at
  /\ MoverDies(w)
  /\ UNCHANGED upsets

\* The one POST of an attempt.  A request whose answer is lost may have been
\* applied, may be applied later, or may never be.
MovePost(w, out) ==
  LET d == moves[mw[w].at].dest IN
  /\ mw[w].pc = "intent"
  /\ \/ out = "moved" /\ folder' = d /\ UNCHANGED wire
     \/ out = "unsent" /\ UNCHANGED <<folder, wire>>
     \/ out \in {"ambiguous", "refused"} /\ folder' \in {folder, d} /\ UNCHANGED wire
     \/ out = "ambiguous" /\ wire' = wire \cup {d} /\ UNCHANGED folder
  /\ mw' = [mw EXCEPT ![w].pc = "posted", ![w].was = out]
  /\ UNCHANGED <<moves, mjobs, email, plan, sentCopy, record, upsets>>

LateMove(d) ==
  /\ d \in wire
  /\ folder' = d /\ wire' = wire \ {d}
  /\ UNCHANGED <<moves, mjobs, email, plan, sentCopy, record, mw, upsets>>

OutcomeStatus(out, n) ==
  CASE out = "moved" -> "VERIFIED"
    [] out = "ambiguous" -> "AMBIGUOUS"
    [] out = "unsent" /\ n < MoveMax -> "FAILED_RETRYABLE"
    [] OTHER -> "FAILED_REVIEW"

\* Mutant: an unknown outcome is stored, nothing is queued to resolve it.
FollowUpForgetsVerify(st, n) ==
  CASE st = "VERIFIED" -> WithMoveJob(mjobs, <<"complete", n>>)
    [] st = "FAILED_RETRYABLE" -> WithMoveJob(mjobs, <<"retry", n>>)
    [] OTHER -> mjobs

FollowUp(st, n) ==
  CASE st = "VERIFIED" -> WithMoveJob(mjobs, <<"complete", n>>)
    [] st = "AMBIGUOUS" -> WithMoveJob(mjobs, <<"verify", n>>)
    [] st = "FAILED_RETRYABLE" -> WithMoveJob(mjobs, <<"retry", n>>)
    [] OTHER -> mjobs

\* The outcome and the job that follows from it, in one commit.
MoveOutcome(w) ==
  LET n == mw[w].at  st == OutcomeStatus(mw[w].was, n) IN
  /\ mw[w].pc = "posted"
  /\ moves' = [moves EXCEPT ![n].status = st]
  /\ mjobs' = FollowUp(st, n)
  /\ MoveGoTo(w, "done")
  /\ UNCHANGED <<email, plan, sentCopy, record, folder, wire, upsets>>

(***************************************************************************)
(* SourceMoveService.reconcile                                             *)
(***************************************************************************)

VerifyJob(w) == mw[w].pc = "claimed" /\ mw[w].job[1] = "verify"

VerifyLoads(w) ==
  /\ VerifyJob(w)
  /\ mw' = IF LatestIs({"VERIFIED"}) THEN [mw EXCEPT ![w].pc = "done"]
           ELSE [mw EXCEPT ![w].pc = "inspect", ![w].at = LastMove,
                           ![w].was = moves[LastMove].status]
  /\ UNCHANGED <<moves, mjobs, email, plan, sentCopy, record, folder, wire, upsets>>

\* Mutant: the reconciliation believes an attempt that it cannot confirm.
VerifyBelieves(w) ==
  /\ mw[w].pc = "inspect"
  /\ MoveGoTo(w, "found")
  /\ UNCHANGED <<moves, mjobs, email, plan, sentCopy, record, folder, wire, upsets>>

\* The Graph read of the immutable id.
VerifyInspects(w) ==
  /\ mw[w].pc = "inspect"
  /\ MoveGoTo(w, IF folder = moves[mw[w].at].dest THEN "found" ELSE "missing")
  /\ UNCHANGED <<moves, mjobs, email, plan, sentCopy, record, folder, wire, upsets>>

VerifyFound(w) ==
  /\ mw[w].pc = "found"
  /\ moves' = [moves EXCEPT ![mw[w].at].status = "VERIFIED"]
  /\ mjobs' = WithMoveJob(mjobs, <<"complete", mw[w].at>>)
  /\ MoveGoTo(w, "done")
  /\ UNCHANGED <<email, plan, sentCopy, record, folder, wire, upsets>>

\* AMBIGUOUS is written only if the session had loaded another status.
VerifyMissing(w) ==
  /\ mw[w].pc = "missing"
  /\ moves' = IF mw[w].was = "AMBIGUOUS" THEN moves
              ELSE [moves EXCEPT ![mw[w].at].status = "AMBIGUOUS"]
  /\ MoveGoTo(w, "failed")
  /\ UNCHANGED <<mjobs, email, plan, sentCopy, record, folder, wire, upsets>>

(***************************************************************************)
(* WorkflowCompletionService.complete                                      *)
(***************************************************************************)

VerifiedMoves == {i \in DOMAIN moves : moves[i].status = "VERIFIED"}

\* Row locks on the email make the whole of it one step.
CanComplete ==
  /\ record = "NONE" /\ VerifiedMoves # {}
  /\ email.state = "TASK_CREATED" /\ ResponseSettled

\* TASK_CREATED -> MOVED -> COMPLETED and the record, in one transaction.
Complete ==
  LET n == CHOOSE i \in VerifiedMoves : \A j \in VerifiedMoves : j <= i
      moved == Transitioned(email, "MOVED") IN
  /\ CanComplete
  /\ ValidTransition(email, "MOVED") /\ ValidTransition(moved, "COMPLETED")
  /\ email' = Transitioned(moved, "COMPLETED")
  /\ record' = moves[n].dest
  /\ UNCHANGED <<moves, plan, sentCopy, folder, wire, upsets>>

CompletionJob(w) == mw[w].pc = "claimed" /\ mw[w].job[1] = "complete"

JobCompletes(w) ==
  /\ CompletionJob(w)
  /\ \/ Complete
     \/ record # "NONE" /\ UNCHANGED <<moves, email, plan, sentCopy, record, folder, wire,
                                       upsets>>
  /\ MoveGoTo(w, "done")
  /\ UNCHANGED mjobs

\* NotFoundError or StateConflictError inside the transaction.
JobCannotComplete(w) ==
  /\ CompletionJob(w) /\ record = "NONE" /\ ~CanComplete
  /\ MoverDies(w)
  /\ UNCHANGED upsets

\* complete_workflow: the Manager's request; a refused one changes nothing.
RequestCompletion ==
  /\ Complete
  /\ UNCHANGED <<mjobs, mw>>

(***************************************************************************)
(* Specification                                                           *)
(***************************************************************************)

MoverStep(w) ==
  \/ \E k \in MoveKeys : MoveClaim(w, k)
  \/ MoveJobDone(w) \/ MoveJobFails(w)
  \/ MoveAlreadyVerified(w) \/ MoveUnresolved(w) \/ MoveBlocked(w) \/ MoveClears(w)
  \/ MoveIntent(w) \/ MoveIntentCollides(w)
  \/ \E out \in MoveOutcomes : MovePost(w, out)
  \/ MoveOutcome(w)
  \/ VerifyLoads(w) \/ VerifyInspects(w) \/ VerifyFound(w) \/ VerifyMissing(w)
  \/ JobCompletes(w) \/ JobCannotComplete(w)

MoveNext ==
  \/ SentCopyVerified \/ ManualMove \/ RequestCompletion
  \/ \E f \in Overrides : OverrideDestination(f)
  \/ \E f \in Folders : LateMove(f)
  \/ \E w \in Movers : MoverStep(w) \/ MoverCrash(w)

\* Workers poll and their handlers go on; nothing else is promised.
MoveFairness == \A w \in Movers : WF_moveVars(MoverStep(w))

MoveSpec == MoveInit /\ [][MoveNext]_moveVars /\ MoveFairness

(***************************************************************************)
(* Properties                                                              *)
(***************************************************************************)

ByHand == mjobs[<<"manual", 0>>].status # "absent"

\* A completed workflow is true of the mailbox: the response it needed was verified, and
\* the message was moved to the folder the record names or can still be there only
\* because a request of an abandoned attempt was applied after it.
CompletionIsTrue ==
  record # "NONE" =>
    /\ email.state = "COMPLETED" /\ ResponseSettled
    /\ folder # "inbox"
    /\ Cardinality({moves[i].dest : i \in DOMAIN moves}) = 1 => folder = record

\* What the documentation promises: unless somebody moves by hand, "the worker never repeats the
\* move blindly", an attempt is started only when the ones before have a known outcome.
NeverRepeatsBlindly ==
  [][ (Len(moves') > Len(moves) /\ ~ByHand)
        => \A i \in DOMAIN moves : moves[i].status \in Failures ]_moveVars

\* One job stands for the move: none by hand, and no retry beside a job that a dead worker
\* left behind.
MoveRetried == \E n \in 1..MaxMoves : mjobs[<<"retry", n>>].status # "absent"
OneMoveJob == ~ByHand /\ (upsets = 0 \/ ~MoveRetried)

\* As long as one job stands for the move, a second attempt is started only when the one before
\* has a known outcome: a worker that dies around the request never leads to a repetition.
NoBlindRepeat ==
  [][ (Len(moves') > Len(moves) /\ OneMoveJob)
        => \A i \in DOMAIN moves : moves[i].status \in Failures ]_moveVars

\* Left alone, a settled response leads to a completed workflow
\* or to an attempt that an operator must look at.
MoveSettles ==
  [](upsets = 0)
    => ((ResponseSettled /\ email.state = "TASK_CREATED")
          ~> (record # "NONE" \/ \E i \in DOMAIN moves : moves[i].status = "FAILED_REVIEW"))

\* The invariant of a source move: what is recorded of it, and its completion, are true.
MoveInv == MoveTypeOK /\ CompletionIsTrue
=============================================================================
