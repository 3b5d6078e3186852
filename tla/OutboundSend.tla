---------------------------- MODULE OutboundSend ----------------------------
(***************************************************************************)
(* The life of one outbound draft from review to the verified Sent Items   *)
(* copy: review and send approval (app/services/draft_review_service.py,   *)
(* send_approval_service.py, communication_enqueue_service.py), Outlook    *)
(* synchronisation (graph_draft_service.py), the send saga                 *)
(* (outbound_send_service.py), its reconciliation                          *)
(* (sent_reconciliation_service.py) and the leased communication jobs that *)
(* drive them (repositories/communication_jobs.py,                         *)
(* workers/communication_jobs.py).                                         *)
(*                                                                         *)
(* Three kinds of actors run concurrently: worker processes, API requests  *)
(* and Outlook / Exchange.  What a session holds in its identity map is    *)
(* state of its own (seen): sessions keep objects over a commit, a locking *)
(* SELECT does not refresh them, and a flush writes the columns whose      *)
(* value differs from the one loaded.  A step of the model is what happens *)
(* between two points at which another actor can change what it reads.     *)
(***************************************************************************)
EXTENDS Naturals, Sequences, FiniteSets

CONSTANTS
  Workers,            \* processes of app.workers.communication_jobs
  Sessions,           \* concurrent API requests that synchronise first
  Reviewers, Senders, \* actors with Licensing.Reviewer and Licensing.Sender
  Author,             \* the draft's created_by_actor
  Contents, First,    \* subject, body and recipients; those of revision 1
  Ops,                \* requests users make in the instance
  NULL,
  SendMaxAttempts,    \* communication_send_job_max_attempts
  ReconMaxAttempts,   \* communication_send_reconciliation_max_attempts
  SeparateApprover,   \* communication_require_separate_send_approver
  TwoPerson,          \* communication_require_two_person_approval
  HeartbeatsReliable, \* TRUE: the lease of a live handler never lapses
  MaxRev, MaxKey, MaxApprovals, MaxSends, \* bounds: revisions, change keys, ...
  MaxOutlookEdits,    \* bound: edits made in Outlook
  MaxRequests,        \* bound: API requests
  MaxFaults           \* bound: crashes, Graph read errors, lapsed leases

Users == Reviewers \cup Senders

SyncOps == {"sync", "edit", "submit", "approve"}
OneShotOps == {"request_changes", "reject", "invalidate", "decline", "patch_plan",
               "cancel", "send", "reconcile"}

ASSUME SendAssumption ==
  /\ Author \in Reviewers /\ First \in Contents
  /\ Ops \subseteq SyncOps \cup OneShotOps
  /\ SendMaxAttempts \in Nat \ {0} /\ ReconMaxAttempts \in Nat \ {0}
  /\ {SeparateApprover, TwoPerson, HeartbeatsReliable} \subseteq BOOLEAN
  /\ MaxRev \in Nat \ {0} /\ MaxKey \in Nat \ {0}
  /\ {MaxApprovals, MaxSends, MaxOutlookEdits, MaxRequests,
      MaxFaults} \subseteq Nat
  /\ NULL \notin Workers \cup Contents \cup Users

VARIABLES
  draft,     \* row of outbound_drafts
  approvals, \* rows of send_approvals
  attempts,  \* rows of outbound_send_attempts, by attempt_number
  jobs,      \* rows of communication_jobs, by idempotency key
  moves,     \* attempts with a move-after-send job
  mail,      \* the immutable Graph message
  wk,        \* worker sessions
  us,        \* API sessions
  edits, faults, requests

vars == <<draft, approvals, attempts, jobs, moves, mail, wk, us, edits, faults,
          requests>>
dbVars == <<draft, approvals, attempts, jobs, moves>>
envVars == <<edits, faults>>

DraftStatuses ==
  {"GRAPH_DRAFT_CREATED", "REVIEW_IN_PROGRESS", "CHANGES_REQUESTED",
   "PENDING_SEND_APPROVAL", "APPROVED_TO_SEND", "SEND_QUEUED", "SENDING",
   "SEND_ACCEPTED", "SEND_AMBIGUOUS", "SENT_COPY_VERIFIED",
   "SEND_FAILED_RETRYABLE", "SEND_FAILED_REVIEW", "CANCELLED"}
Settled  == {"SEND_ACCEPTED", "SEND_AMBIGUOUS", "SENT_COPY_VERIFIED"}
Frozen   == {"SEND_QUEUED", "SENDING"} \cup Settled
Sendable == {"SEND_QUEUED", "APPROVED_TO_SEND", "SEND_FAILED_RETRYABLE"}
LiveDecisions == {"APPROVED", "PENDING_SECOND_APPROVAL"}
Decisions == LiveDecisions \cup {"INVALIDATED", "REJECTED", "CHANGES_REQUESTED"}
AttemptStatuses == {"STARTED", "ACCEPTED", "AMBIGUOUS", "SENT_COPY_VERIFIED",
                    "FAILED_RETRYABLE", "FAILED_REVIEW"}
SendKinds  == {"send", "safe-send-retry"}
ReconKinds == {"stale-send-reconcile", "ambiguous-reconcile", "accepted-reconcile",
               "preflight-no-longer-draft", "graph-draft-no-longer-draft",
               "reconcile-send"}
Outcomes == {"accepted", "ambiguous", "unsent", "refused"}

\* approval_snapshot_hash: collision free, so the hashed fields themselves.
Snapshot(d) == <<d.rev, d.body, d.key>>

IdleWorker == [pc |-> "idle", job |-> NULL, n |-> 0, at |-> 0, out |-> NULL,
               seen |-> NULL, was |-> NULL]
NoSession == [pc |-> "idle", op |-> NULL, user |-> NULL, seen |-> NULL]

Snaps == (1..MaxRev) \X Contents \X (1..MaxKey)
DraftRows == [status : DraftStatuses, rev : 1..MaxRev, body : Contents, key : 1..MaxKey,
              snap : {NULL} \cup Snaps, editor : Users]
ApprovalRows == [snap : Snaps, decision : Decisions, by : Users]
AttemptRows == [status : AttemptStatuses, approval : Nat, wire : {"no", "maybe", "never"}]
Keys == ({"send"} \X Snaps)
          \cup (((SendKinds \cup ReconKinds) \ {"send"}) \X Seq(Nat))
JobRows == [status : {"PENDING", "RUNNING", "COMPLETED", "FAILED_RETRYABLE",
                      "FAILED_REVIEW", "CANCELLED"},
            attempts : 0..(SendMaxAttempts + ReconMaxAttempts),
            owner : {NULL} \cup Workers, lease : {"none", "fresh", "expired"}]
WorkerStates == [pc : {"idle", "claimed", "intent", "posted", "inspect", "done", "failed"},
                 job : {NULL} \cup Keys, n : Nat, at : Nat, out : {NULL} \cup Outcomes,
                 seen : {NULL} \cup DraftRows, was : {NULL} \cup AttemptStatuses]
SessionStates == [pc : {"idle", "sync", "act", "push", "pushed", "cancel"},
                  op : {NULL} \cup SyncOps \cup OneShotOps, user : {NULL} \cup Users,
                  seen : {NULL} \cup DraftRows]

\* NULL stands for no row and no value.
ASSUME NullAssumption ==
  NULL \notin Outcomes /\ NULL \notin AttemptStatuses /\ NULL \notin DraftRows

MailStates == [state : {"draft", "submitted", "leaving", "sent", "gone"},
               body : Contents, key : 1..MaxKey]

ApprovalsOK == approvals \in Seq(ApprovalRows)

AttemptsOK ==
  /\ attempts \in Seq(AttemptRows)
  /\ \A i \in DOMAIN attempts : attempts[i].approval \in DOMAIN approvals
  /\ moves \subseteq DOMAIN attempts

JobsOK == DOMAIN jobs \subseteq Keys /\ jobs \in [DOMAIN jobs -> JobRows]

\* The rows a worker has loaded exist.
WorkerOK(w) ==
  /\ wk[w].pc # "idle" => wk[w].job \in DOMAIN jobs
  /\ wk[w].pc \in {"intent", "posted", "inspect"} => wk[w].at \in DOMAIN attempts
  /\ wk[w].pc = "posted" => wk[w].out # NULL
  /\ wk[w].pc = "inspect" => wk[w].seen # NULL /\ wk[w].was # NULL

SessionOK(s) == us[s].pc # "idle" => us[s].user # NULL /\ us[s].seen # NULL

WorkersOK == wk \in [Workers -> WorkerStates] /\ \A w \in Workers : WorkerOK(w)
SessionsOK == us \in [Sessions -> SessionStates] /\ \A s \in Sessions : SessionOK(s)

\* Rows, the Graph message and the sessions keep their types, and no session
\* refers to a row that does not exist.
TypeOK ==
  /\ draft \in DraftRows
  /\ ApprovalsOK /\ AttemptsOK /\ JobsOK
  /\ mail \in MailStates
  /\ WorkersOK /\ SessionsOK
  /\ edits \in Nat /\ faults \in Nat /\ requests \in Nat

\* The draft exists in Graph (GraphDraftService._finalize) and nobody has reviewed it.
Init ==
  /\ draft = [status |-> "GRAPH_DRAFT_CREATED", rev |-> 1, body |-> First, key |-> 1,
              snap |-> NULL, editor |-> Author]
  /\ approvals = <<>> /\ attempts = <<>> /\ moves = {}
  /\ jobs = [k \in {} |-> NULL]
  /\ mail = [state |-> "draft", body |-> First, key |-> 1]
  /\ wk = [w \in Workers |-> IdleWorker]
  /\ us = [s \in Sessions |-> NoSession]
  /\ edits = 0 /\ faults = 0 /\ requests = 0

(***************************************************************************)
(* Rows                                                                    *)
(***************************************************************************)

\* What a commit leaves in the row: the columns the session changed.
Flush(seen, new) == [f \in DOMAIN draft |-> IF new[f] # seen[f] THEN new[f] ELSE draft[f]]

SetStatus(st) == draft' = [draft EXCEPT !.status = st]

\* The live rows of send_approvals; at most one APPROVED (uq index).
Approved == {i \in DOMAIN approvals : approvals[i].decision = "APPROVED"}
Firsts == {i \in DOMAIN approvals : approvals[i].decision = "PENDING_SECOND_APPROVAL"}

\* invalidate_approval, without the draft columns its callers write.
Invalidated ==
  [i \in DOMAIN approvals |->
     IF approvals[i].decision \in LiveDecisions
     THEN [approvals[i] EXCEPT !.decision = "INVALIDATED"] ELSE approvals[i]]

ApprovalRow(d, user, decision) ==
  [snap |-> Snapshot(d), decision |-> decision, by |-> user]

IsSend(k) == k[1] \in SendKinds
MaxOf(k) == CASE k[1] = "send" -> SendMaxAttempts
              [] k[1] = "safe-send-retry" -> 1
              [] OTHER -> ReconMaxAttempts

NewJob == [status |-> "PENDING", attempts |-> 0, owner |-> NULL, lease |-> "none"]

\* CommunicationJobRepository.enqueue: an existing key is returned as it is.
Enqueue(kind, id) ==
  jobs' = [k \in DOMAIN jobs \cup {<<kind, id>>} |->
             IF k \in DOMAIN jobs THEN jobs[k] ELSE NewJob]

Last == Len(attempts)
IsDraft == mail.state \in {"draft", "submitted"}

(***************************************************************************)
(* Workers: claim, lease, and how a job ends                               *)
(***************************************************************************)

\* Mutant: the lease of a dead worker is never taken over.
ClaimableFresh(k) ==
  /\ jobs[k].status \in {"PENDING", "FAILED_RETRYABLE"}
  /\ jobs[k].attempts < MaxOf(k)

ClaimableJob(k) ==
  /\ \/ jobs[k].status \in {"PENDING", "FAILED_RETRYABLE"}
     \/ jobs[k].status = "RUNNING" /\ jobs[k].lease = "expired"
  /\ jobs[k].attempts < MaxOf(k)

\* CommunicationJobRepository.claim.  Priorities and delays only order the
\* claimable rows, so any of them may be next.
Claim(w, k) ==
  /\ wk[w].pc = "idle"
  /\ ClaimableJob(k)
  /\ jobs' = [jobs EXCEPT ![k] = [status |-> "RUNNING", attempts |-> @.attempts + 1,
                                  owner |-> w, lease |-> "fresh"]]
  /\ wk' = [wk EXCEPT ![w] = [IdleWorker EXCEPT !.pc = "claimed", !.job = k,
                                                !.n = jobs[k].attempts + 1]]
  /\ UNCHANGED <<draft, approvals, attempts, moves, mail, us, envVars>>

Held(k) == \E w \in Workers : wk[w].pc # "idle" /\ wk[w].job = k

\* A lease lapses when its owner is gone; under a live handler only if the
\* extensions are delayed, which counts as a fault.
LeaseExpires(k) ==
  /\ jobs[k].status = "RUNNING" /\ jobs[k].lease = "fresh"
  /\ \/ ~Held(k) /\ UNCHANGED faults
     \/ /\ Held(k) /\ ~HeartbeatsReliable
        /\ faults < MaxFaults /\ faults' = faults + 1
  /\ jobs' = [jobs EXCEPT ![k].lease = "expired"]
  /\ UNCHANGED <<draft, approvals, attempts, moves, mail, wk, us, edits>>

\* _extend_lease_loop of a handler that is still running.
ExtendLease(w) ==
  LET k == wk[w].job IN
  /\ wk[w].pc # "idle"
  /\ jobs[k].status = "RUNNING" /\ jobs[k].owner = w /\ jobs[k].lease = "expired"
  /\ jobs' = [jobs EXCEPT ![k].lease = "fresh"]
  /\ UNCHANGED <<draft, approvals, attempts, moves, mail, wk, us, envVars>>

GoTo(w, pc) == wk' = [wk EXCEPT ![w].pc = pc]

\* A handler that raises inside its transaction: rollback() expires the job
\* row, reading job.id raises again and the process ends with nothing
\* recorded.  A supervisor restarts it; while down it only idles.
Dies(w) ==
  /\ wk' = [wk EXCEPT ![w] = IdleWorker]
  /\ UNCHANGED <<dbVars, mail, us, edits>>

Crash(w) ==
  /\ wk[w].pc # "idle"
  /\ faults < MaxFaults
  /\ faults' = faults + 1
  /\ Dies(w)

\* A Graph read inside the handler's transaction fails.
GraphReadError(w) ==
  /\ \/ wk[w].pc = "claimed" /\ IsSend(wk[w].job) /\ draft.status \in Sendable
     \/ wk[w].pc = "inspect"
  /\ faults < MaxFaults
  /\ faults' = faults + 1
  /\ Dies(w)

Release(w, st) ==
  /\ jobs' = [jobs EXCEPT ![wk[w].job] = [@ EXCEPT !.status = st, !.owner = NULL,
                                                   !.lease = "none"]]
  /\ wk' = [wk EXCEPT ![w] = IdleWorker]

JobDone(w) ==
  /\ wk[w].pc = "done"
  /\ Release(w, "COMPLETED")
  /\ UNCHANGED <<draft, approvals, attempts, moves, mail, us, envVars>>

\* The handler raised after its last commit.  The attempts compared are those
\* of this worker's claim; an exhausted reconciliation also closes the draft,
\* which this session left SEND_AMBIGUOUS.
JobFails(w) ==
  /\ wk[w].pc = "failed"
  /\ IF wk[w].n < MaxOf(wk[w].job)
     THEN Release(w, "FAILED_RETRYABLE") /\ UNCHANGED draft
     ELSE /\ Release(w, "FAILED_REVIEW")
          /\ IF IsSend(wk[w].job) THEN UNCHANGED draft ELSE SetStatus("SEND_FAILED_REVIEW")
  /\ UNCHANGED <<approvals, attempts, moves, mail, us, envVars>>

(***************************************************************************)
(* OutboundSendService.execute                                             *)
(***************************************************************************)

Sending(w) == wk[w].pc = "claimed" /\ IsSend(wk[w].job)

\* The send was already settled by an attempt.
SendAlreadySettled(w) ==
  /\ Sending(w)
  /\ draft.status \in Settled /\ attempts # <<>>
  /\ GoTo(w, "done")
  /\ UNCHANGED <<dbVars, mail, us, envVars>>

StaleSend == draft.status = "SENDING" /\ attempts # <<>> /\ attempts[Last].status = "STARTED"

\* A worker stopped between the intent and its outcome.
SendStale(w) ==
  /\ Sending(w) /\ StaleSend
  /\ attempts' = [attempts EXCEPT ![Last].status = "AMBIGUOUS"]
  /\ SetStatus("SEND_AMBIGUOUS")
  /\ Enqueue("stale-send-reconcile", <<Last>>)
  /\ GoTo(w, "done")
  /\ UNCHANGED <<approvals, moves, mail, us, envVars>>

SendNotSafe(w) ==
  /\ Sending(w)
  /\ draft.status \notin Sendable
  /\ ~(draft.status \in Settled /\ attempts # <<>>) /\ ~StaleSend
  /\ Dies(w)
  /\ UNCHANGED faults

\* The approval the handler selects covers the row as it is now.
Covered(a) == a \in Approved /\ Snapshot(draft) = approvals[a].snap
MailMatches(a) == mail.body = approvals[a].snap[2] /\ mail.key = approvals[a].snap[3]

\* _preflight_failed.  Recipient policy, attachments and mailbox settings are
\* outside the model and may fail at any time.
SendPreflightFails(w) ==
  /\ Sending(w) /\ draft.status \in Sendable
  /\ \/ /\ SetStatus("SEND_FAILED_REVIEW")
        /\ UNCHANGED approvals
     \/ /\ \E a \in DOMAIN approvals : Covered(a) /\ ~MailMatches(a)
        /\ IsDraft
        /\ approvals' = Invalidated
        /\ draft' = [draft EXCEPT !.status = "SEND_FAILED_REVIEW", !.snap = NULL]
  /\ GoTo(w, "failed")
  /\ UNCHANGED <<attempts, jobs, moves, mail, us, envVars>>

SendNoLongerDraft(w) ==
  /\ Sending(w) /\ draft.status \in Sendable
  /\ \E a \in DOMAIN approvals : Covered(a)
  /\ mail.state \in {"leaving", "sent"}
  /\ SetStatus("SEND_AMBIGUOUS")
  /\ Enqueue("preflight-no-longer-draft", <<draft.rev>>)
  /\ GoTo(w, "failed")
  /\ UNCHANGED <<approvals, attempts, moves, mail, us, envVars>>

\* Mutant: attempt_number is the count of the earlier attempts.
SendIntentOffByOne(w) ==
  /\ Sending(w) /\ draft.status \in Sendable
  /\ Last < MaxSends
  /\ \E a \in DOMAIN approvals :
       /\ Covered(a) /\ IsDraft /\ MailMatches(a)
       /\ attempts' = Append(attempts, [status |-> "STARTED", approval |-> a, wire |-> "no"])
  /\ SetStatus("SENDING")
  /\ wk' = [wk EXCEPT ![w].pc = "intent", ![w].at = Last]
  /\ UNCHANGED <<approvals, jobs, moves, mail, us, envVars>>

\* The attempt is committed as STARTED before the POST.
SendIntent(w) ==
  /\ Sending(w) /\ draft.status \in Sendable
  /\ Last < MaxSends
  /\ \E a \in DOMAIN approvals :
       /\ Covered(a) /\ IsDraft /\ MailMatches(a)
       /\ attempts' = Append(attempts, [status |-> "STARTED", approval |-> a, wire |-> "no"])
  /\ SetStatus("SENDING")
  /\ wk' = [wk EXCEPT ![w].pc = "intent", ![w].at = Last + 1]
  /\ UNCHANGED <<approvals, jobs, moves, mail, us, envVars>>

\* send_existing_draft.  "accepted" is a 202; "ambiguous" a timeout, a lost
\* answer, 408 or 5xx; "unsent" a token or connection failure or 429;
\* "refused" any other status.  An accepted message may be a draft a while.
SendPost(w) ==
  /\ wk[w].pc = "intent"
  /\ \E out \in Outcomes, reached \in BOOLEAN :
       /\ out = "accepted" => reached
       /\ reached => out \in {"accepted", "ambiguous"} /\ mail.state = "draft"
       /\ mail' = IF reached THEN [mail EXCEPT !.state = "submitted"] ELSE mail
       /\ attempts' = [attempts EXCEPT ![wk[w].at] =
            [@ EXCEPT !.wire = IF out \in {"accepted", "ambiguous"} THEN "maybe" ELSE "never"]]
       /\ wk' = [wk EXCEPT ![w].pc = "posted", ![w].out = out]
  /\ UNCHANGED <<draft, approvals, jobs, moves, us, envVars>>

Record(w, att, st) ==
  /\ attempts' = [attempts EXCEPT ![wk[w].at].status = att]
  /\ SetStatus(st)

\* Mutant: an outcome that may have reached Graph is retried like an unsent one.
SendRecordRetriesAmbiguous(w) ==
  /\ wk[w].pc = "posted"
  /\ IF wk[w].out \in {"ambiguous", "unsent"}
     THEN /\ Record(w, "FAILED_RETRYABLE", "SEND_FAILED_RETRYABLE")
          /\ Enqueue("safe-send-retry", <<wk[w].at>>)
     ELSE Record(w, "FAILED_REVIEW", "SEND_FAILED_REVIEW") /\ UNCHANGED jobs
  /\ wk' = [wk EXCEPT ![w].pc = "done", ![w].out = NULL]
  /\ UNCHANGED <<approvals, moves, mail, us, envVars>>

\* The outcome is written over whatever the rows hold by now.
SendRecord(w) ==
  LET i == wk[w].at IN
  /\ wk[w].pc = "posted"
  /\ \/ wk[w].out = "accepted" /\ Record(w, "ACCEPTED", "SEND_ACCEPTED")
                               /\ Enqueue("accepted-reconcile", <<i>>)
     \/ wk[w].out = "ambiguous" /\ Record(w, "AMBIGUOUS", "SEND_AMBIGUOUS")
                                /\ Enqueue("ambiguous-reconcile", <<i>>)
     \/ /\ wk[w].out = "unsent" /\ i < SendMaxAttempts
        /\ Record(w, "FAILED_RETRYABLE", "SEND_FAILED_RETRYABLE")
        /\ Enqueue("safe-send-retry", <<i>>)
     \/ /\ wk[w].out = "refused" \/ (wk[w].out = "unsent" /\ i >= SendMaxAttempts)
        /\ Record(w, "FAILED_REVIEW", "SEND_FAILED_REVIEW")
        /\ UNCHANGED jobs
  /\ wk' = [wk EXCEPT ![w].pc = "done", ![w].out = NULL]
  /\ UNCHANGED <<approvals, moves, mail, us, envVars>>

(***************************************************************************)
(* SentReconciliationService.reconcile                                     *)
(***************************************************************************)

Reconciling(w) == wk[w].pc = "claimed" /\ ~IsSend(wk[w].job)

ReconNoAttempt(w) ==
  /\ Reconciling(w) /\ attempts = <<>>
  /\ Dies(w)
  /\ UNCHANGED faults

\* More than communication_send_reconciliation_max_seconds have passed since
\* the attempt started.  The clock is abstracted: they may have at any time.
ReconWindowExhausted(w) ==
  /\ Reconciling(w) /\ attempts # <<>>
  /\ attempts' = [attempts EXCEPT ![Last].status = "FAILED_REVIEW"]
  /\ SetStatus("SEND_FAILED_REVIEW")
  /\ GoTo(w, "done")
  /\ UNCHANGED <<approvals, jobs, moves, mail, us, envVars>>

ReconLoad(w) ==
  /\ Reconciling(w) /\ attempts # <<>>
  /\ wk' = [wk EXCEPT ![w].pc = "inspect", ![w].at = Last, ![w].seen = draft,
                      ![w].was = attempts[Last].status]
  /\ UNCHANGED <<dbVars, mail, us, envVars>>

\* Still a draft, and the attempt is ambiguous: commit, then raise.
ReconStillDraft(w) ==
  /\ wk[w].pc = "inspect" /\ IsDraft /\ wk[w].was = "AMBIGUOUS"
  /\ draft' = Flush(wk[w].seen, [wk[w].seen EXCEPT !.status = "SEND_AMBIGUOUS"])
  /\ wk' = [wk EXCEPT ![w].pc = "failed", ![w].seen = NULL, ![w].was = NULL]
  /\ UNCHANGED <<approvals, attempts, jobs, moves, mail, us, envVars>>

\* Still a draft, not filed in Sent Items yet, or missing: raise.
ReconUnverified(w) ==
  /\ wk[w].pc = "inspect"
  /\ IF IsDraft THEN wk[w].was # "AMBIGUOUS" ELSE mail.state \in {"leaving", "gone"}
  /\ Dies(w)
  /\ UNCHANGED faults

\* Mutant: a message that is no longer a draft counts as filed in Sent Items.
ReconSentCopyAnyFolder(w) ==
  LET i == wk[w].at IN
  /\ wk[w].pc = "inspect" /\ mail.state \in {"leaving", "sent"}
  /\ mail.body = wk[w].seen.body
  /\ attempts' = [attempts EXCEPT ![i].status = "SENT_COPY_VERIFIED"]
  /\ draft' = Flush(wk[w].seen, [wk[w].seen EXCEPT !.status = "SENT_COPY_VERIFIED"])
  /\ moves' = moves \cup {i}
  /\ wk' = [wk EXCEPT ![w].pc = "done", ![w].seen = NULL, ![w].was = NULL]
  /\ UNCHANGED <<approvals, jobs, mail, us, envVars>>

\* A copy in Sent Items is compared with the draft row loaded earlier.
ReconSentCopy(w) ==
  LET ok == mail.body = wk[w].seen.body
      att == IF ok THEN "SENT_COPY_VERIFIED" ELSE "FAILED_REVIEW"
      st == IF ok THEN "SENT_COPY_VERIFIED" ELSE "SEND_FAILED_REVIEW"
      i == wk[w].at IN
  /\ wk[w].pc = "inspect" /\ mail.state = "sent"
  /\ attempts' = [attempts EXCEPT ![i].status = IF att = wk[w].was THEN @ ELSE att]
  /\ draft' = Flush(wk[w].seen, [wk[w].seen EXCEPT !.status = st])
  /\ moves' = IF ok THEN moves \cup {i} ELSE moves
  /\ wk' = [wk EXCEPT ![w].pc = "done", ![w].seen = NULL, ![w].was = NULL]
  /\ UNCHANGED <<approvals, jobs, mail, us, envVars>>

(***************************************************************************)
(* API requests that synchronise with Outlook before they act              *)
(***************************************************************************)

Leave(s) == us' = [us EXCEPT ![s] = NoSession]

\* The session loads the draft.  The expected revision and Graph identity the
\* client sends are compared with this object, and agree with it from here on.
Open(s, op, u) ==
  /\ us[s].pc = "idle"
  /\ op \in Ops \cap SyncOps
  /\ IF op = "approve" THEN u \in Senders ELSE u \in Reviewers
  /\ us' = [us EXCEPT ![s] = [pc |-> "sync", op |-> op, user |-> u, seen |-> draft]]
  /\ UNCHANGED <<dbVars, mail, wk, envVars>>

\* Any request may be refused by a check outside the model (content findings,
\* readiness, policy, roles, a stale client) or by a database error.
Refused(s) ==
  /\ us[s].pc # "idle"
  /\ Leave(s)
  /\ UNCHANGED <<dbVars, mail, wk, envVars>>

\* _mark_no_longer_draft
MarkNoLongerDraft(seen) ==
  /\ draft' = Flush(seen, [seen EXCEPT !.status = "SEND_AMBIGUOUS"])
  /\ Enqueue("graph-draft-no-longer-draft", <<seen.rev>>)
  /\ UNCHANGED approvals

SyncMissing(seen) ==
  /\ mail.state = "gone"
  /\ draft' = Flush(seen, [seen EXCEPT !.status = "SEND_FAILED_REVIEW", !.snap = NULL])
  /\ approvals' = Invalidated
  /\ UNCHANGED jobs

\* An Outlook edit is imported as a new revision; a revision number that
\* already exists violates the unique constraint of the version rows.
SyncImport(seen, u) ==
  /\ IsDraft
  /\ mail.body # seen.body \/ mail.key # seen.key
  /\ draft.rev = seen.rev /\ seen.rev < MaxRev
  /\ draft' = Flush(seen, [seen EXCEPT !.status = "CHANGES_REQUESTED", !.rev = @ + 1,
                                       !.body = mail.body, !.key = mail.key,
                                       !.snap = NULL, !.editor = u])
  /\ approvals' = Invalidated
  /\ UNCHANGED jobs

\* The branches of GraphDraftService.sync that report a change.
SyncChanged(seen, u) ==
  \/ SyncMissing(seen)
  \/ mail.state \in {"leaving", "sent"} /\ MarkNoLongerDraft(seen)
  \/ SyncImport(seen, u)

Synchronize(s) ==
  LET seen == us[s].seen IN
  /\ us[s].pc = "sync"
  /\ \/ SyncChanged(seen, us[s].user) /\ Leave(s)
     \/ /\ IsDraft /\ mail.body = seen.body /\ mail.key = seen.key
        /\ IF us[s].op = "sync" THEN Leave(s) ELSE us' = [us EXCEPT ![s].pc = "act"]
        /\ UNCHANGED <<draft, approvals, jobs>>
  /\ UNCHANGED <<attempts, moves, mail, wk, envVars>>

\* DraftReviewService.submit: whatever the status was.
Submit(s) ==
  LET seen == us[s].seen IN
  /\ us[s].pc = "act" /\ us[s].op = "submit"
  /\ draft' = Flush(seen, [seen EXCEPT !.status = "PENDING_SEND_APPROVAL",
                                       !.editor = us[s].user])
  /\ Leave(s)
  /\ UNCHANGED <<approvals, attempts, jobs, moves, mail, wk, envVars>>

MayApprove(seen, u) == SeparateApprover => u \notin {Author, seen.editor}

\* In two-person mode: no first approval of exactly this snapshot yet.
NeedsFirst(seen) ==
  TwoPerson /\ \A i \in Firsts : approvals[i].snap # Snapshot(seen)

FirstDropped ==
  [i \in DOMAIN approvals |->
     IF i \in Firsts THEN [approvals[i] EXCEPT !.decision = "INVALIDATED"] ELSE approvals[i]]

\* Mutant: the second approval may come from the first approver.
ApproveTwice(s) ==
  LET seen == us[s].seen
      u == us[s].user IN
  /\ us[s].pc = "act" /\ us[s].op = "approve"
  /\ seen.status = "PENDING_SEND_APPROVAL" /\ MayApprove(seen, u)
  /\ Len(approvals) < MaxApprovals /\ Approved = {}
  /\ IF NeedsFirst(seen)
     THEN /\ approvals' = Append(FirstDropped, ApprovalRow(seen, u, "PENDING_SECOND_APPROVAL"))
          /\ UNCHANGED draft
     ELSE /\ approvals' = Append(approvals, ApprovalRow(seen, u, "APPROVED"))
          /\ draft' = Flush(seen, [seen EXCEPT !.status = "APPROVED_TO_SEND",
                                               !.snap = Snapshot(seen)])
  /\ Leave(s)
  /\ UNCHANGED <<attempts, jobs, moves, mail, wk, envVars>>

\* SendApprovalService.approve
Approve(s) ==
  LET seen == us[s].seen
      u == us[s].user IN
  /\ us[s].pc = "act" /\ us[s].op = "approve"
  /\ seen.status = "PENDING_SEND_APPROVAL"
  /\ MayApprove(seen, u)
  /\ Len(approvals) < MaxApprovals
  /\ \/ /\ NeedsFirst(seen)
        /\ approvals' = Append(FirstDropped, ApprovalRow(seen, u, "PENDING_SECOND_APPROVAL"))
        /\ UNCHANGED draft
     \/ /\ ~NeedsFirst(seen)
        /\ TwoPerson => \A i \in Firsts : approvals[i].by # u
        /\ Approved = {}
        /\ approvals' = Append(approvals, ApprovalRow(seen, u, "APPROVED"))
        /\ draft' = Flush(seen, [seen EXCEPT !.status = "APPROVED_TO_SEND",
                                             !.snap = Snapshot(seen)])
  /\ Leave(s)
  /\ UNCHANGED <<attempts, jobs, moves, mail, wk, envVars>>

\* DraftGenerationService.edit, then push_local in the same session.
Edit(s, c) ==
  LET seen == us[s].seen
      new == [seen EXCEPT !.status = "REVIEW_IN_PROGRESS", !.rev = @ + 1, !.body = c,
                          !.snap = NULL, !.editor = us[s].user] IN
  /\ us[s].pc = "act" /\ us[s].op = "edit"
  /\ seen.status \notin Frozen
  /\ draft.rev = seen.rev /\ seen.rev < MaxRev
  /\ draft' = Flush(seen, new)
  /\ approvals' = Invalidated
  /\ us' = [us EXCEPT ![s].pc = "push", ![s].seen = new]
  /\ UNCHANGED <<attempts, jobs, moves, mail, wk, envVars>>

\* push_local up to the PATCH, which carries the etag.
PushLocal(s) ==
  LET seen == us[s].seen IN
  /\ us[s].pc = "push"
  /\ \/ /\ mail.state \in {"leaving", "sent"} /\ MarkNoLongerDraft(seen) /\ Leave(s)
        /\ UNCHANGED mail
     \/ /\ mail.key # seen.key /\ SyncImport(seen, us[s].user) /\ Leave(s)
        /\ UNCHANGED mail
     \/ /\ mail.state = "draft" /\ mail.key = seen.key /\ mail.key < MaxKey
        /\ mail' = [mail EXCEPT !.body = seen.body, !.key = @ + 1]
        /\ us' = [us EXCEPT ![s].pc = "pushed"]
        /\ UNCHANGED <<draft, approvals, jobs>>
  /\ UNCHANGED <<attempts, moves, wk, envVars>>

\* push_local after the PATCH: read back, and keep the new Graph identity.
PushConfirm(s) ==
  LET seen == us[s].seen IN
  /\ us[s].pc = "pushed"
  /\ \/ mail.state \in {"leaving", "sent"} /\ MarkNoLongerDraft(seen)
     \/ mail.body # seen.body /\ SyncImport(seen, us[s].user)
     \/ /\ IsDraft /\ mail.body = seen.body
        /\ draft' = Flush(seen, [seen EXCEPT !.key = mail.key])
        /\ UNCHANGED <<approvals, jobs>>
  /\ Leave(s)
  /\ UNCHANGED <<attempts, moves, mail, wk, envVars>>

(***************************************************************************)
(* Requests that lock and read the row once                                *)
(***************************************************************************)

InvalidateTo(st) ==
  /\ approvals' = Invalidated
  /\ draft' = [draft EXCEPT !.status = st, !.snap = NULL]

\* request_changes and invalidate_approval: from any status.
RequestChanges ==
  /\ Ops \cap {"request_changes", "invalidate"} # {}
  /\ InvalidateTo("CHANGES_REQUESTED")
  /\ UNCHANGED <<attempts, jobs, moves, mail, wk, us, envVars>>

\* reject: request_changes commits, then a second commit cancels.
Reject(s, u) ==
  /\ us[s].pc = "idle" /\ "reject" \in Ops /\ u \in Reviewers
  /\ InvalidateTo("CHANGES_REQUESTED")
  /\ us' = [us EXCEPT ![s] = [pc |-> "cancel", op |-> "reject", user |-> u, seen |-> draft']]
  /\ UNCHANGED <<attempts, jobs, moves, mail, wk, envVars>>

RejectCancel(s) ==
  /\ us[s].pc = "cancel"
  /\ SetStatus("CANCELLED")
  /\ Leave(s)
  /\ UNCHANGED <<approvals, attempts, jobs, moves, mail, wk, envVars>>

\* SendApprovalService.decline keeps the decision as a row of its own.
Decline(u, decision) ==
  /\ "decline" \in Ops /\ u \in Senders
  /\ draft.status \in {"PENDING_SEND_APPROVAL", "APPROVED_TO_SEND"}
  /\ Len(approvals) < MaxApprovals
  /\ approvals' = Append(Invalidated, ApprovalRow(draft, u, decision))
  /\ draft' = [draft EXCEPT !.snap = NULL,
       !.status = IF decision = "REJECTED" THEN "CANCELLED" ELSE "CHANGES_REQUESTED"]
  /\ UNCHANGED <<attempts, jobs, moves, mail, wk, us, envVars>>

PatchPlan ==
  /\ "patch_plan" \in Ops
  /\ draft.status \notin Frozen
  /\ InvalidateTo("CHANGES_REQUESTED")
  /\ UNCHANGED <<attempts, jobs, moves, mail, wk, us, envVars>>

OpenSendJobs == {k \in DOMAIN jobs : IsSend(k) /\ jobs[k].status \in
                                      {"PENDING", "FAILED_RETRYABLE", "RUNNING"}}

\* Mutant: running jobs do not stop a cancellation.
CancelUnchecked ==
  /\ "cancel" \in Ops
  /\ draft.status \in {"APPROVED_TO_SEND", "SEND_QUEUED"}
  /\ jobs' = [k \in DOMAIN jobs |->
       IF k \in OpenSendJobs
       THEN [jobs[k] EXCEPT !.status = "CANCELLED", !.owner = NULL, !.lease = "none"]
       ELSE jobs[k]]
  /\ InvalidateTo("CANCELLED")
  /\ UNCHANGED <<attempts, moves, mail, wk, us, envVars>>

\* cancel_unsent
Cancel ==
  /\ "cancel" \in Ops
  /\ draft.status \in {"APPROVED_TO_SEND", "SEND_QUEUED"}
  /\ \A k \in OpenSendJobs : jobs[k].status # "RUNNING"
  /\ jobs' = [k \in DOMAIN jobs |->
       IF k \in OpenSendJobs
       THEN [jobs[k] EXCEPT !.status = "CANCELLED", !.owner = NULL, !.lease = "none"]
       ELSE jobs[k]]
  /\ InvalidateTo("CANCELLED")
  /\ UNCHANGED <<attempts, moves, mail, wk, us, envVars>>

\* CommunicationEnqueueService.send, after the Sender's explicit confirmation.
EnqueueSend ==
  /\ "send" \in Ops
  /\ draft.status \in {"APPROVED_TO_SEND", "SEND_QUEUED"}
  /\ \E a \in Approved :
       /\ approvals[a].snap = draft.snap
       /\ Enqueue("send", draft.snap)
       /\ IF <<"send", draft.snap>> \in DOMAIN jobs
          THEN UNCHANGED draft ELSE SetStatus("SEND_QUEUED")
  /\ UNCHANGED <<approvals, attempts, moves, mail, wk, us, envVars>>

EnqueueReconcile ==
  /\ "reconcile" \in Ops
  /\ Enqueue("reconcile-send", <<draft.rev>>)
  /\ UNCHANGED <<draft, approvals, attempts, moves, mail, wk, us, envVars>>

(***************************************************************************)
(* Outlook and Exchange                                                    *)
(***************************************************************************)

\* A person saves the draft in Outlook, with new content or without.
OutlookEdit(c) ==
  /\ mail.state = "draft" /\ edits < MaxOutlookEdits /\ mail.key < MaxKey
  /\ edits' = edits + 1
  /\ mail' = [mail EXCEPT !.body = c, !.key = @ + 1]
  /\ UNCHANGED <<dbVars, wk, us, faults>>

OutlookDeleteOrSend ==
  /\ mail.state = "draft" /\ edits < MaxOutlookEdits
  /\ edits' = edits + 1
  /\ \E st \in {"gone", "submitted"} : mail' = [mail EXCEPT !.state = st]
  /\ UNCHANGED <<dbVars, wk, us, faults>>

\* An accepted message leaves Drafts and is filed in Sent Items.
ExchangeDelivers ==
  /\ \/ mail.state = "submitted" /\ mail' = [mail EXCEPT !.state = "leaving"]
     \/ mail.state = "leaving" /\ mail' = [mail EXCEPT !.state = "sent"]
  /\ UNCHANGED <<dbVars, wk, us, envVars>>

(***************************************************************************)
(* Specification                                                           *)
(***************************************************************************)

SendStep(w) ==
  \/ SendAlreadySettled(w) \/ SendStale(w) \/ SendNotSafe(w)
  \/ SendPreflightFails(w) \/ SendNoLongerDraft(w) \/ SendIntent(w)
  \/ SendPost(w) \/ SendRecord(w)

ReconStep(w) ==
  \/ ReconNoAttempt(w) \/ ReconWindowExhausted(w) \/ ReconLoad(w)
  \/ ReconStillDraft(w) \/ ReconUnverified(w) \/ ReconSentCopy(w)

\* What a running worker does next when nothing fails around it.
WorkerStep(w) ==
  /\ \/ \E k \in DOMAIN jobs : Claim(w, k)
     \/ SendStep(w) \/ ReconStep(w) \/ JobDone(w) \/ JobFails(w)
  /\ UNCHANGED requests

LeaseNext == (\E k \in DOMAIN jobs : LeaseExpires(k)) /\ UNCHANGED requests

FaultNext ==
  /\ \E w \in Workers : ExtendLease(w) \/ Crash(w) \/ GraphReadError(w)
  /\ UNCHANGED requests

Request ==
  /\ requests < MaxRequests
  /\ requests' = requests + 1
  /\ \/ \E s \in Sessions, u \in Users :
          (\E op \in SyncOps : Open(s, op, u)) \/ Reject(s, u)
     \/ \E u \in Users, d \in {"REJECTED", "CHANGES_REQUESTED"} : Decline(u, d)
     \/ RequestChanges \/ PatchPlan \/ Cancel \/ EnqueueSend \/ EnqueueReconcile

SessionStep(s) ==
  /\ \/ Refused(s) \/ Synchronize(s) \/ Submit(s) \/ Approve(s)
     \/ (\E c \in Contents : Edit(s, c)) \/ PushLocal(s) \/ PushConfirm(s)
     \/ RejectCancel(s)
  /\ UNCHANGED requests

EnvNext ==
  /\ \/ \E c \in Contents : OutlookEdit(c)
     \/ OutlookDeleteOrSend \/ ExchangeDelivers
  /\ UNCHANGED requests

Next ==
  \/ \E w \in Workers : WorkerStep(w)
  \/ \E s \in Sessions : SessionStep(s)
  \/ Request \/ LeaseNext \/ FaultNext \/ EnvNext

Spec == Init /\ [][Next]_vars

\* Workers poll for ever and the clock runs; nobody is bound to make a request.
FairSpec ==
  /\ Spec
  /\ \A w \in Workers : WF_vars(WorkerStep(w))
  /\ WF_vars(LeaseNext)

(***************************************************************************)
(* Properties                                                              *)
(***************************************************************************)

\* A send POST is never issued under an approval for which an earlier POST may
\* have reached Graph: outbound_send_service.py, "ambiguous sends are never
\* replayed".  It must survive crashes between intent, POST and outcome, lapsed
\* leases, retries and every review request made meanwhile.
NoReplay ==
  [][\A i, k \in DOMAIN attempts :
       /\ attempts[i].wire = "no" /\ attempts'[i].wire # "no"
       /\ attempts[k].wire = "maybe"
       => attempts[k].approval # attempts[i].approval]_vars

\* With the default of one attempt per send job an approval is used up by its
\* first attempt: no two attempts share one, and a draft that can be sent has no
\* live approval that was tried before.
SendOnce ==
  /\ \A i, k \in DOMAIN attempts :
       i # k => attempts[i].approval # attempts[k].approval
  /\ draft.status \in Sendable =>
       \A i \in DOMAIN attempts : attempts[i].approval \notin Approved

\* The source message is routed (move-after-send) only when the message really
\* is in Sent Items, whatever order Exchange, two reconciliation jobs and
\* synchronisations run in.
RoutedImpliesSent == moves # {} => mail.state = "sent"

\* While leases are kept, a worker with a job owns its row: nobody else claims,
\* releases or cancels it, and only send jobs reach the intent.
JobsAreOwned ==
  \A w \in Workers : wk[w].pc # "idle" =>
    /\ jobs[wk[w].job].status = "RUNNING" /\ jobs[wk[w].job].owner = w
    /\ jobs[wk[w].job].lease = "fresh"
    /\ wk[w].pc \in {"intent", "posted"} => IsSend(wk[w].job)

\* cancel_unsent: "The send worker already holds this draft."  While leases are
\* kept, a cancellation never succeeds with a worker between its intent and the
\* recorded outcome, even if the draft was approved again underneath it.
CancelFailsClosed ==
  [][Cancel => \A w \in Workers : wk[w].pc \notin {"intent", "posted"}]_vars

\* send-approval-workflow.md: in two-person mode a live approval rests on an
\* earlier one of the same snapshot by another Sender, although concurrent
\* requests approve from rows they read before the other committed.
TwoSenders ==
  TwoPerson => \A i \in Approved : \E k \in 1..(i - 1) :
                  approvals[k].snap = approvals[i].snap /\ approvals[k].by # approvals[i].by

\* A queued draft does not stay queued: a worker decides it, also after one
\* crash or Graph read error, when the job has attempts left for it.
QueuedIsDecided == draft.status = "SEND_QUEUED" ~> draft.status # "SEND_QUEUED"
=============================================================================
