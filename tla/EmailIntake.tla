---------------------------- MODULE EmailIntake ----------------------------
(***************************************************************************)
(* One email from discovery to its licensing task: evidence and attachment *)
(* ingestion (app/services/email_ingestion.py), classification             *)
(* (app/classification/orchestration.py), its mandatory human review       *)
(* (app/reviews/service.py) and task creation (app/tasks/creation.py).     *)
(*                                                                         *)
(* INGEST_EMAIL and CLASSIFY_EMAIL jobs are coalesced by email             *)
(* (GraphJobQueue): here one job of each kind, which a request finds       *)
(* active or creates anew.  A request that carries a stale review revision *)
(* is refused and changes nothing; the others act on the row as it is.     *)
(***************************************************************************)
EXTENDS EmailState, Sequences, FiniteSets

CONSTANTS
  Parts,          \* attachments of the message
  Intakers,       \* worker processes
  Reviewers,      \* reviewers
  IntakeMax,      \* graph_job_max_attempts, classification_job_max_attempts
  MaxVersions,    \* bound: classifications
  MaxIntakeFaults \* bound: failed requests, crashes, lapsed leases, expired claims

ASSUME IntakeAssumption ==
  /\ IntakeMax \in Nat \ {0} /\ MaxVersions \in Nat /\ MaxIntakeFaults \in Nat
  /\ "none" \notin Reviewers

VARIABLES
  mail,          \* the row of emails
  evidence,      \* message.json and message.eml are stored and named by the row
  saved,         \* attachments with a terminal status
  ijobs,         \* the INGEST_EMAIL and the CLASSIFY_EMAIL job
  versions,      \* classifications, each with its review; the last is current
  tasks,         \* versions a licensing task was created from
  iw,            \* worker sessions
  crashed,       \* a process died or outlived its lease (history)
  intakeFaults

intakeVars == <<mail, evidence, saved, ijobs, versions, tasks, iw, crashed, intakeFaults>>

JobKinds == {"ingest", "classify"}
IntakeJobs == [status : {"NONE", "PENDING", "RUNNING", "FAILED_REVIEW"},
               attempts : 0..IntakeMax, again : BOOLEAN]
Decisions == {"PENDING", "IN_REVIEW", "APPROVED", "CORRECTED", "REJECTED",
              "RECLASSIFICATION_REQUESTED"}
\* reviewer_principal and whether the claim is still leased.
ReviewRows == [decision : Decisions, by : Reviewers \cup {"none"}, held : BOOLEAN]
NoMail == [state |-> "NONE", resume |-> "NONE", retries |-> 0]
NoIntakeJob == [status |-> "NONE", attempts |-> 0, again |-> FALSE]
IdleIntaker == [pc |-> "idle", job |-> "ingest", again |-> FALSE]

\* Rows and sessions keep their types; a job that runs has an attempt.
IntakeTypeOK ==
  /\ mail \in EmailRows \cup {NoMail} /\ evidence \in BOOLEAN /\ saved \subseteq Parts
  /\ ijobs \in [JobKinds -> IntakeJobs]
  /\ \A k \in JobKinds : ijobs[k].status = "RUNNING" => ijobs[k].attempts > 0
  /\ versions \in Seq(ReviewRows) /\ Len(versions) <= MaxVersions
  /\ tasks \subseteq DOMAIN versions
  /\ iw \in [Intakers -> [pc : {"idle", "start", "store", "fetched", "parts", "saved", "queue",
                                "model", "merge", "done", "gone", "failed"},
                          job : JobKinds, again : BOOLEAN]]
  /\ crashed \in BOOLEAN /\ intakeFaults \in 0..MaxIntakeFaults


IntakeInit ==
  /\ mail = NoMail
  /\ evidence = FALSE /\ saved = {} /\ versions = <<>> /\ tasks = {}
  /\ ijobs = [k \in JobKinds |-> NoIntakeJob]
  /\ iw = [w \in Intakers |-> IdleIntaker] /\ crashed = FALSE /\ intakeFaults = 0

IntakeFault == intakeFaults < MaxIntakeFaults /\ intakeFaults' = intakeFaults + 1
IntakeGoTo(w, pc) == iw' = [iw EXCEPT ![w].pc = pc]

\* enqueue_classify_email: an active job keeps its own payload.
WithClassifyJob(again) ==
  [ijobs EXCEPT !["classify"] =
     IF @.status \in {"PENDING", "RUNNING"} THEN @
     ELSE [status |-> "PENDING", attempts |-> 0, again |-> again]]

\* _upsert_message inserts the email and its job.
DiscoverMessage ==
  /\ mail = NoMail /\ mail' = [NoMail EXCEPT !.state = "DISCOVERED"]
  /\ ijobs' = [ijobs EXCEPT !["ingest"].status = "PENDING"]
  /\ UNCHANGED <<evidence, saved, versions, tasks, iw, crashed, intakeFaults>>

\* The request that queues an ingestion by hand, unless one is active.
RequestIngest ==
  /\ mail # NoMail /\ ijobs["ingest"].status \in {"NONE", "FAILED_REVIEW"} /\ IntakeFault
  /\ ijobs' = [ijobs EXCEPT !["ingest"] = [NoIntakeJob EXCEPT !.status = "PENDING"]]
  /\ UNCHANGED <<mail, evidence, saved, versions, tasks, iw, crashed>>

(***************************************************************************)
(* Jobs                                                                    *)
(***************************************************************************)

IntakeClaim(w, k) ==
  /\ iw[w].pc = "idle" /\ ijobs[k].status = "PENDING"
  /\ ijobs' = [ijobs EXCEPT ![k].status = "RUNNING", ![k].attempts = @ + 1]
  /\ iw' = [iw EXCEPT ![w] = [pc |-> "start", job |-> k, again |-> ijobs[k].again]]
  /\ UNCHANGED <<mail, evidence, saved, versions, tasks, crashed, intakeFaults>>

IntakeDone(w) ==
  /\ iw[w].pc = "done"
  /\ ijobs' = [ijobs EXCEPT ![iw[w].job] = NoIntakeJob]
  /\ iw' = [iw EXCEPT ![w] = IdleIntaker]
  /\ UNCHANGED <<mail, evidence, saved, versions, tasks, crashed, intakeFaults>>

Requeued(j) == IF j.attempts < IntakeMax THEN [j EXCEPT !.status = "PENDING"]
               ELSE [j EXCEPT !.status = "FAILED_REVIEW"]

IntakeFailed(w) ==
  /\ iw[w].pc = "failed"
  /\ ijobs' = [ijobs EXCEPT ![iw[w].job] = IF @.status = "RUNNING" THEN Requeued(@) ELSE @]
  /\ iw' = [iw EXCEPT ![w] = IdleIntaker]
  /\ UNCHANGED <<mail, evidence, saved, versions, tasks, crashed, intakeFaults>>

\* A Graph request or the store fails before anything is committed.
IntakeRequestFails(w) ==
  /\ iw[w].pc \in {"store", "parts"} /\ IntakeFault
  /\ IntakeGoTo(w, "failed")
  /\ UNCHANGED <<mail, evidence, saved, ijobs, versions, tasks, crashed>>

\* The lease lapses, because the process died or although it lives on.
IntakerLapses(w) ==
  /\ iw[w].pc # "idle" /\ ijobs[iw[w].job].status = "RUNNING" /\ IntakeFault
  /\ ijobs' = [ijobs EXCEPT ![iw[w].job] = Requeued(@)]
  /\ iw' \in {iw, [iw EXCEPT ![w] = IdleIntaker]}
  /\ crashed' = TRUE
  /\ UNCHANGED <<mail, evidence, saved, versions, tasks>>

(***************************************************************************)
(* EmailIngestionService.ingest                                            *)
(***************************************************************************)

\* The state decides where ingestion resumes; an email past it is skipped.  (Nothing in
\* the application puts an email into FAILED_RETRYABLE, so no ingestion resumes from it.)
IngestStarts(w) ==
  /\ iw[w].pc = "start" /\ iw[w].job = "ingest"
  /\ IntakeGoTo(w, CASE mail.state = "DISCOVERED" -> "store"
                     [] mail.state = "FETCHED" -> "parts"
                     [] OTHER -> "done")
  /\ UNCHANGED <<mail, evidence, saved, ijobs, versions, tasks, crashed, intakeFaults>>

\* _fetch_evidence: stored and committed, then the transition in a transaction of its own.
StoreEvidence(w) ==
  /\ iw[w].pc = "store"
  /\ evidence' = TRUE
  /\ IntakeGoTo(w, "fetched")
  /\ UNCHANGED <<mail, saved, ijobs, versions, tasks, crashed, intakeFaults>>

\* transition_email_state: one that the table does not allow raises.
IntakeMoves(w, target, pc) ==
  IF ValidTransition(mail, target)
  THEN mail' = Transitioned(mail, target) /\ IntakeGoTo(w, pc)
  ELSE mail' = mail /\ IntakeGoTo(w, "failed")

Fetched(w) ==
  /\ iw[w].pc = "fetched"
  /\ IntakeMoves(w, "FETCHED", "parts")
  /\ UNCHANGED <<evidence, saved, ijobs, versions, tasks, crashed, intakeFaults>>

\* _ingest_attachments: those without a terminal status, committed together.
StoreParts(w) ==
  /\ iw[w].pc = "parts"
  /\ saved' = Parts
  /\ IntakeGoTo(w, "saved")
  /\ UNCHANGED <<mail, evidence, ijobs, versions, tasks, crashed, intakeFaults>>

\* More attachments than the policy allows.
TooManyParts(w) ==
  /\ iw[w].pc = "parts" /\ IntakeFault
  /\ IntakeMoves(w, "FAILED_REVIEW", "done")
  /\ UNCHANGED <<evidence, saved, ijobs, versions, tasks, crashed>>

PartsSaved(w) ==
  /\ iw[w].pc = "saved"
  /\ IntakeMoves(w, "ATTACHMENTS_SAVED", "queue")
  /\ UNCHANGED <<evidence, saved, ijobs, versions, tasks, crashed, intakeFaults>>

\* Mutant: the classification is not queued.
QueueClassificationNever(w) ==
  /\ iw[w].pc = "queue"
  /\ IntakeGoTo(w, "done")
  /\ UNCHANGED <<mail, evidence, saved, ijobs, versions, tasks, crashed, intakeFaults>>

\* The classification is queued in a transaction after the one that made it possible.
QueueClassification(w) ==
  /\ iw[w].pc = "queue"
  /\ ijobs' = WithClassifyJob(FALSE)
  /\ IntakeGoTo(w, "done")
  /\ UNCHANGED <<mail, evidence, saved, versions, tasks, crashed, intakeFaults>>

\* _handle_message_gone: 404, then FAILED_REVIEW in a second transaction.
MessageGone(w) ==
  /\ iw[w].pc \in {"store", "parts"} /\ IntakeFault
  /\ IntakeGoTo(w, "gone")
  /\ UNCHANGED <<mail, evidence, saved, ijobs, versions, tasks, crashed>>

GoneFails(w) ==
  /\ iw[w].pc = "gone"
  /\ IntakeMoves(w, "FAILED_REVIEW", "done")
  /\ UNCHANGED <<evidence, saved, ijobs, versions, tasks, crashed, intakeFaults>>

(***************************************************************************)
(* ClassificationOrchestrator.classify_email                               *)
(***************************************************************************)

Classifiable(w) ==
  mail.state \in {"ATTACHMENTS_SAVED"} \cup (IF iw[w].again THEN {"CLASSIFIED"} ELSE {})

\* The read transaction ends before the model is called.
ClassifyReads(w) ==
  /\ iw[w].pc = "start" /\ iw[w].job = "classify"
  /\ IntakeGoTo(w, IF Classifiable(w) THEN "model" ELSE "failed")
  /\ UNCHANGED <<mail, evidence, saved, ijobs, versions, tasks, crashed, intakeFaults>>

\* Under the row lock: the state is checked again, the current version is superseded and
\* the new one gets a PENDING review.  A failed model leaves the deterministic result.
ClassifyStores(w) ==
  /\ iw[w].pc = "model" /\ Len(versions) < MaxVersions
  /\ IF Classifiable(w)
     THEN /\ versions' = Append(versions, [decision |-> "PENDING", by |-> "none",
                                           held |-> FALSE])
          /\ ValidTransition(mail, "CLASSIFIED") /\ mail' = Transitioned(mail, "CLASSIFIED")
          /\ IntakeGoTo(w, "done")
     ELSE UNCHANGED <<versions, mail>> /\ IntakeGoTo(w, "failed")
  /\ UNCHANGED <<evidence, saved, ijobs, tasks, crashed, intakeFaults>>

(***************************************************************************)
(* Review and task                                                         *)
(***************************************************************************)

Others(v, r) == versions[v].by \notin {"none", r}

ClaimReview(v, r) ==
  /\ ~(Others(v, r) /\ versions[v].held)
  /\ versions' = [versions EXCEPT ![v] = [decision |-> "IN_REVIEW", by |-> r, held |-> TRUE]]
  /\ UNCHANGED <<mail, evidence, saved, ijobs, tasks, iw, crashed, intakeFaults>>

ReleaseReview(v, r) ==
  /\ ~Others(v, r)
  /\ versions' = [versions EXCEPT ![v] = [decision |-> "PENDING", by |-> "none", held |-> FALSE]]
  /\ UNCHANGED <<mail, evidence, saved, ijobs, tasks, iw, crashed, intakeFaults>>

\* claim_expires_at passes.
ClaimExpires(v) ==
  /\ versions[v].held /\ IntakeFault
  /\ versions' = [versions EXCEPT ![v].held = FALSE]
  /\ UNCHANGED <<mail, evidence, saved, ijobs, tasks, iw, crashed>>

\* Neither the version nor an earlier decision is looked at.
Decide(v, r, d) ==
  /\ ~Others(v, r)
  /\ versions' = [versions EXCEPT ![v].decision = d, ![v].by = r]
  /\ ijobs' = IF d = "RECLASSIFICATION_REQUESTED" THEN WithClassifyJob(TRUE) ELSE ijobs
  /\ UNCHANGED <<mail, evidence, saved, tasks, iw, crashed, intakeFaults>>

\* The request that queues a classification by hand.
RequestClassification ==
  /\ mail # NoMail /\ IntakeFault
  /\ ijobs' = WithClassifyJob(mail.state = "CLASSIFIED")
  /\ UNCHANGED <<mail, evidence, saved, versions, tasks, iw, crashed>>

\* Mutant: the state of the email is not checked under the lock.
CreateTaskAnyState(v) ==
  /\ v \notin tasks /\ versions[v].decision \in {"APPROVED", "CORRECTED"}
  /\ tasks' = tasks \cup {v}
  /\ mail' = Transitioned(mail, "TASK_CREATED")
  /\ UNCHANGED <<evidence, saved, ijobs, versions, iw, crashed, intakeFaults>>

\* TaskCreationService.create: keyed by the review, idempotent; the version need not be
\* the current one.
CreateTask(v) ==
  /\ v \notin tasks /\ versions[v].decision \in {"APPROVED", "CORRECTED"}
  /\ mail.state = "CLASSIFIED" /\ ValidTransition(mail, "TASK_CREATED")
  /\ tasks' = tasks \cup {v}
  /\ mail' = Transitioned(mail, "TASK_CREATED")
  /\ UNCHANGED <<evidence, saved, ijobs, versions, iw, crashed, intakeFaults>>

(***************************************************************************)
(* Specification                                                           *)
(***************************************************************************)

IntakeStep(w) ==
  \/ \E k \in JobKinds : IntakeClaim(w, k)
  \/ IntakeDone(w) \/ IntakeFailed(w) \/ IngestStarts(w) \/ StoreEvidence(w) \/ Fetched(w)
  \/ StoreParts(w) \/ PartsSaved(w) \/ QueueClassification(w) \/ GoneFails(w)
  \/ ClassifyReads(w) \/ ClassifyStores(w)

ReviewStep ==
  \E v \in DOMAIN versions, r \in Reviewers :
    \/ ClaimReview(v, r) \/ ReleaseReview(v, r)
    \/ \E d \in Decisions \ {"PENDING", "IN_REVIEW"} : Decide(v, r, d)

IntakeNext ==
  \/ \E w \in Intakers : \/ IntakeStep(w) \/ IntakeRequestFails(w) \/ IntakerLapses(w)
                         \/ TooManyParts(w) \/ MessageGone(w)
  \/ DiscoverMessage \/ RequestIngest \/ ReviewStep \/ RequestClassification
  \/ \E v \in DOMAIN versions : ClaimExpires(v) \/ CreateTask(v)

\* Workers poll and go on; reviewers owe nothing.
IntakeFairness == \A w \in Intakers : WF_intakeVars(IntakeStep(w))

IntakeSpec == IntakeInit /\ [][IntakeNext]_intakeVars /\ IntakeFairness

(***************************************************************************)
(* Properties                                                              *)
(***************************************************************************)

\* The state never runs ahead of the evidence, whatever fails or runs twice: what is
\* classified was fetched, with every attachment in a terminal status.
EvidenceIsBehindState ==
  /\ mail.state \in PipelineStates \ {"DISCOVERED"} => evidence
  /\ mail.state \in {"ATTACHMENTS_SAVED", "CLASSIFIED", "TASK_CREATED"} => saved = Parts

\* One email leads to one task, however many versions of its classification are approved
\* and by whom, the superseded ones included.
OneTask == Cardinality(tasks) <= 1

\* If no process dies, a discovered email is classified or left for review, although requests
\* fail: every retry resumes where the one before stopped.
MailIsClassified ==
  [](~crashed) =>
    (mail.state = "DISCOVERED"
       ~> (mail.state \in {"CLASSIFIED", "TASK_CREATED", "FAILED_REVIEW"}
             \/ \E k \in JobKinds : ijobs[k].status = "FAILED_REVIEW"))

\* The invariant of the intake: the state never ahead of the evidence, and one task per email.
IntakeInv == IntakeTypeOK /\ EvidenceIsBehindState /\ OneTask
=============================================================================
