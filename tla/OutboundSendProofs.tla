------------------------- MODULE OutboundSendProofs -------------------------
(***************************************************************************)
(* Safety of the send saga for every set of workers, sessions, users and   *)
(* contents and every value of the bounds.                                 *)
(***************************************************************************)
EXTENDS OutboundSend, TLAPS

(***************************************************************************)
(* Rows                                                                    *)
(***************************************************************************)

\* A flush leaves a row of outbound_drafts, and writes the status only if the
\* session changed it.
LEMMA FlushType ==
  ASSUME draft \in DraftRows, NEW seen \in DraftRows, NEW new \in DraftRows
  PROVE  /\ Flush(seen, new) \in DraftRows
         /\ Flush(seen, new).status =
              IF new.status # seen.status THEN new.status ELSE draft.status
<1>1. Flush(seen, new) \in DraftRows
    BY DEF Flush, DraftRows
<1>2. "status" \in DOMAIN draft
    BY DEF DraftRows
<1> QED
    BY <1>1, <1>2 DEF Flush

\* The columns an action writes.
LEMMA DraftRowType ==
  ASSUME NEW d \in DraftRows, NEW st \in DraftStatuses
  PROVE  /\ [d EXCEPT !.status = st] \in DraftRows
         /\ [d EXCEPT !.status = st].status = st
         /\ [d EXCEPT !.status = st, !.snap = NULL] \in DraftRows
         /\ [d EXCEPT !.status = st, !.snap = NULL].status = st
  BY DEF DraftRows

\* A flush of a new status, with or without the snapshot withdrawn.
LEMMA FlushStatusType ==
  ASSUME draft \in DraftRows, NEW seen \in DraftRows, NEW st \in DraftStatuses,
         NEW d, d \in {Flush(seen, [seen EXCEPT !.status = st]),
                       Flush(seen, [seen EXCEPT !.status = st, !.snap = NULL])}
  PROVE  d \in DraftRows /\ d.status = IF st # seen.status THEN st ELSE draft.status
<1>1. PICK new \in DraftRows : new.status = st /\ d = Flush(seen, new)
  <2> DEFINE n1 == [seen EXCEPT !.status = st]
             n2 == [seen EXCEPT !.status = st, !.snap = NULL]
  <2>1. n1 \in DraftRows /\ n1.status = st /\ n2 \in DraftRows /\ n2.status = st
      BY DraftRowType
  <2>2. d \in {Flush(seen, n1), Flush(seen, n2)}
      OBVIOUS
  <2> HIDE DEF n1, n2
  <2> QED
      BY <2>1, <2>2
<1> QED
    BY <1>1, FlushType

\* Invalidating the live approvals changes decisions only, and leaves none that
\* can be sent under.
LEMMA InvalidatedType ==
  ASSUME approvals \in Seq(ApprovalRows)
  PROVE  /\ Invalidated \in Seq(ApprovalRows)
         /\ DOMAIN Invalidated = DOMAIN approvals
         /\ \A i \in DOMAIN approvals : Invalidated[i].decision # "APPROVED"
<1>1. \A i \in 1..Len(approvals) : approvals[i] \in ApprovalRows
    OBVIOUS
<1>2. \A i \in 1..Len(approvals) : Invalidated[i] \in ApprovalRows
    BY <1>1 DEF Invalidated, ApprovalRows, Decisions, LiveDecisions
<1>3. DOMAIN Invalidated = 1..Len(approvals) /\ Len(approvals) \in Nat
    BY DEF Invalidated
<1>4. Invalidated \in [1..Len(approvals) -> ApprovalRows]
    BY <1>2, <1>3 DEF Invalidated
<1> QED
    BY <1>1, <1>3, <1>4 DEF Invalidated, LiveDecisions

\* Dropping a first approval changes decisions only, and approves nothing.
LEMMA FirstDroppedType ==
  ASSUME approvals \in Seq(ApprovalRows)
  PROVE  /\ FirstDropped \in Seq(ApprovalRows)
         /\ DOMAIN FirstDropped = DOMAIN approvals
         /\ \A i \in DOMAIN approvals :
              FirstDropped[i].decision = "APPROVED" => approvals[i].decision = "APPROVED"
<1>1. \A i \in 1..Len(approvals) : approvals[i] \in ApprovalRows
    OBVIOUS
<1>2. \A i \in 1..Len(approvals) : FirstDropped[i] \in ApprovalRows
    BY <1>1 DEF FirstDropped, ApprovalRows, Decisions
<1>3. DOMAIN FirstDropped = 1..Len(approvals) /\ Len(approvals) \in Nat
    BY DEF FirstDropped
<1>4. FirstDropped \in [1..Len(approvals) -> ApprovalRows]
    BY <1>2, <1>3 DEF FirstDropped
<1> QED
    BY <1>1, <1>3, <1>4 DEF FirstDropped

\* An approval row of a draft row.
LEMMA ApprovalRowType ==
  ASSUME NEW d \in DraftRows, NEW u \in Users, NEW dec \in Decisions
  PROVE  /\ Snapshot(d) \in Snaps
         /\ ApprovalRow(d, u, dec) \in ApprovalRows
         /\ ApprovalRow(d, u, dec).decision = dec
<1>1. Snapshot(d) \in Snaps
    BY DEF Snapshot, DraftRows, Snaps
<1> QED
    BY <1>1 DEF ApprovalRow, ApprovalRows

\* enqueue adds at most the named row and keeps the others.
LEMMA EnqueueType ==
  ASSUME JobsOK, NEW kind, NEW id, <<kind, id>> \in Keys, Enqueue(kind, id)
  PROVE  JobsOK' /\ DOMAIN jobs \subseteq DOMAIN jobs'
<1>1. NewJob \in JobRows
    BY SendAssumption DEF NewJob, JobRows
<1>2. DOMAIN jobs' = DOMAIN jobs \cup {<<kind, id>>}
    BY DEF Enqueue
<1>3. \A k \in DOMAIN jobs' : jobs'[k] \in JobRows
    BY <1>1 DEF Enqueue, JobsOK
<1>4. jobs' = [k \in DOMAIN jobs' |-> jobs'[k]]
    BY <1>2 DEF Enqueue
<1> QED
    BY <1>2, <1>3, <1>4 DEF JobsOK

\* The idempotency keys of the jobs that follow an attempt or a revision.
LEMMA KeyType ==
  ASSUME NEW kind \in (SendKinds \cup ReconKinds) \ {"send"}, NEW n \in Nat
  PROVE  <<kind, <<n>>>> \in Keys
  BY DEF Keys

\* One attempt's status or wire changes.
LEMMA AttemptType ==
  ASSUME AttemptsOK, NEW i \in DOMAIN attempts, NEW r \in AttemptRows,
         attempts' = [attempts EXCEPT ![i] = r], r.approval = attempts[i].approval,
         DOMAIN approvals \subseteq DOMAIN approvals',
         moves' \subseteq moves \cup {i}
  PROVE  /\ AttemptsOK' /\ DOMAIN attempts' = DOMAIN attempts
         /\ \A k \in DOMAIN attempts : attempts'[k].approval = attempts[k].approval
<1>1. DOMAIN attempts' = DOMAIN attempts /\ attempts' \in Seq(AttemptRows)
    BY DEF AttemptsOK
<1>2. \A k \in DOMAIN attempts : attempts'[k].approval = attempts[k].approval
    BY DEF AttemptsOK
<1> QED
    BY <1>1, <1>2 DEF AttemptsOK

LEMMA AttemptRowAt ==
  ASSUME AttemptsOK, NEW i \in DOMAIN attempts
  PROVE  attempts[i] \in AttemptRows /\ attempts[i].status \in AttemptStatuses
<1>1. attempts[i] \in AttemptRows
    BY DEF AttemptsOK
<1> QED
    BY <1>1 DEF AttemptRows

LEMMA AttemptStatusType ==
  ASSUME AttemptsOK, NEW i \in DOMAIN attempts, NEW st \in AttemptStatuses
  PROVE  /\ [attempts[i] EXCEPT !.status = st] \in AttemptRows
         /\ [attempts[i] EXCEPT !.status = st].approval = attempts[i].approval
         /\ [attempts EXCEPT ![i].status = st]
              = [attempts EXCEPT ![i] = [attempts[i] EXCEPT !.status = st]]
<1>1. attempts[i] \in AttemptRows
    BY DEF AttemptsOK
<1> QED
    BY <1>1 DEF AttemptRows

(***************************************************************************)
(* Sessions                                                                *)
(***************************************************************************)

\* A worker's session, replaced by another state of it, is well formed when what
\* it refers to exists.
LEMMA WorkerType ==
  ASSUME WorkersOK, NEW w \in Workers, NEW r \in WorkerStates,
         wk' = [wk EXCEPT ![w] = r],
         DOMAIN jobs \subseteq DOMAIN jobs', DOMAIN attempts \subseteq DOMAIN attempts',
         r.pc # "idle" => r.job \in DOMAIN jobs',
         r.pc \in {"intent", "posted", "inspect"} => r.at \in DOMAIN attempts',
         r.pc = "posted" => r.out # NULL,
         r.pc = "inspect" => r.seen # NULL /\ r.was # NULL
  PROVE  WorkersOK'
<1>1. wk' \in [Workers -> WorkerStates]
    BY DEF WorkersOK
<1>2. ASSUME NEW v \in Workers PROVE WorkerOK(v)'
  <2>1. CASE v = w
      BY <2>1 DEF WorkerOK, WorkersOK
  <2>2. CASE v # w
      BY <2>2 DEF WorkerOK, WorkersOK
  <2> QED
      BY <2>1, <2>2
<1> QED
    BY <1>1, <1>2 DEF WorkersOK

\* A handler that ends keeps its job row until the outcome is recorded.
LEMMA GoToType ==
  ASSUME WorkersOK, NEW w \in Workers, NEW pc \in {"done", "failed"}, GoTo(w, pc),
         wk[w].pc # "idle",
         DOMAIN jobs \subseteq DOMAIN jobs', DOMAIN attempts \subseteq DOMAIN attempts'
  PROVE  WorkersOK'
<1> DEFINE r == [wk[w] EXCEPT !.pc = pc]
<1>0. wk[w] \in WorkerStates /\ wk[w].job \in DOMAIN jobs
    BY DEF WorkersOK, WorkerOK
<1>1. r \in WorkerStates /\ r.pc = pc /\ r.job = wk[w].job
    BY <1>0 DEF WorkerStates
<1>2. wk' = [wk EXCEPT ![w] = r]
    BY DEF GoTo
<1> HIDE DEF r
<1> QED
    BY <1>0, <1>1, <1>2, WorkerType

\* A worker without a job refers to nothing.
LEMMA IdleType ==
  ASSUME WorkersOK, NEW w \in Workers, wk' = [wk EXCEPT ![w] = IdleWorker],
         DOMAIN jobs \subseteq DOMAIN jobs', DOMAIN attempts \subseteq DOMAIN attempts'
  PROVE  WorkersOK'
<1>1. IdleWorker \in WorkerStates /\ IdleWorker.pc = "idle"
    BY DEF IdleWorker, WorkerStates
<1> QED
    BY <1>1, WorkerType

\* An API session, replaced by another state of it.
LEMMA SessionType ==
  ASSUME SessionsOK, NEW s \in Sessions, NEW r \in SessionStates,
         us' = [us EXCEPT ![s] = r],
         r.pc # "idle" => r.user # NULL /\ r.seen # NULL
  PROVE  SessionsOK'
<1>1. us' \in [Sessions -> SessionStates]
    BY DEF SessionsOK
<1>2. ASSUME NEW v \in Sessions PROVE SessionOK(v)'
  <2>1. CASE v = s
      BY <2>1 DEF SessionOK, SessionsOK
  <2>2. CASE v # s
      BY <2>2 DEF SessionOK, SessionsOK
  <2> QED
      BY <2>1, <2>2
<1> QED
    BY <1>1, <1>2 DEF SessionsOK

LEMMA LeaveType ==
  ASSUME SessionsOK, NEW s \in Sessions, Leave(s)
  PROVE  SessionsOK'
<1>1. NoSession \in SessionStates /\ NoSession.pc = "idle"
    BY DEF NoSession, SessionStates
<1> QED
    BY <1>1, SessionType DEF Leave

\* What no step touches stays well formed.
LEMMA KeptType ==
  ASSUME TypeOK
  PROVE  /\ UNCHANGED approvals => ApprovalsOK'
         /\ (UNCHANGED <<attempts, moves>> /\ DOMAIN approvals \subseteq DOMAIN approvals')
              => AttemptsOK'
         /\ UNCHANGED jobs => JobsOK'
         /\ (/\ UNCHANGED wk /\ DOMAIN jobs \subseteq DOMAIN jobs'
             /\ DOMAIN attempts \subseteq DOMAIN attempts') => WorkersOK'
         /\ UNCHANGED us => SessionsOK'
<1>1. UNCHANGED approvals => ApprovalsOK'
    BY DEF TypeOK, ApprovalsOK
<1>2. (UNCHANGED <<attempts, moves>> /\ DOMAIN approvals \subseteq DOMAIN approvals')
        => AttemptsOK'
    BY DEF TypeOK, AttemptsOK
<1>3. UNCHANGED jobs => JobsOK'
    BY DEF TypeOK, JobsOK
<1>4. (/\ UNCHANGED wk /\ DOMAIN jobs \subseteq DOMAIN jobs'
       /\ DOMAIN attempts \subseteq DOMAIN attempts') => WorkersOK'
    BY DEF TypeOK, WorkersOK, WorkerOK
<1>5. UNCHANGED us => SessionsOK'
    BY DEF TypeOK, SessionsOK, SessionOK
<1> QED
    BY <1>1, <1>2, <1>3, <1>4, <1>5

(***************************************************************************)
(* Type correctness                                                        *)
(***************************************************************************)

\* A claim, a lease and the end of a job change the job's row and the worker.
LEMMA JobStepType ==
  ASSUME TypeOK, NEW w \in Workers
  PROVE  /\ \A k \in DOMAIN jobs : Claim(w, k) => JobsOK' /\ WorkersOK'
         /\ \A st \in {"COMPLETED", "FAILED_RETRYABLE", "FAILED_REVIEW"} :
              (wk[w].pc # "idle" /\ Release(w, st) /\ UNCHANGED attempts)
                 => JobsOK' /\ WorkersOK'
<1>0. JobsOK /\ WorkersOK
    BY DEF TypeOK
<1>1. ASSUME NEW k \in DOMAIN jobs, Claim(w, k) PROVE JobsOK' /\ WorkersOK'
  <2> DEFINE row == [status |-> "RUNNING", attempts |-> jobs[k].attempts + 1,
                     owner |-> w, lease |-> "fresh"]
             ses == [IdleWorker EXCEPT !.pc = "claimed", !.job = k,
                                       !.n = jobs[k].attempts + 1]
  <2>1. jobs[k].attempts \in Nat /\ k \in Keys
      BY <1>0, SendAssumption DEF JobsOK, JobRows
  <2>2. jobs[k].attempts < MaxOf(k)
      BY <1>1 DEF Claim, ClaimableJob
  <2>3. MaxOf(k) \in Nat /\ MaxOf(k) <= SendMaxAttempts + ReconMaxAttempts
      BY SendAssumption DEF MaxOf
  <2>4. jobs[k].attempts + 1 \in 0..(SendMaxAttempts + ReconMaxAttempts)
      BY <2>1, <2>2, <2>3, SendAssumption
  <2>5. row \in JobRows
      BY <2>4 DEF JobRows
  <2>6. jobs' = [jobs EXCEPT ![k] = row] /\ wk' = [wk EXCEPT ![w] = ses] /\ UNCHANGED attempts
      BY <1>1 DEF Claim
  <2>7. JobsOK' /\ DOMAIN jobs' = DOMAIN jobs
      BY <1>0, <2>5, <2>6 DEF JobsOK
  <2>8. ses \in WorkerStates /\ ses.pc = "claimed" /\ ses.job = k
    <3> DEFINE n == jobs[k].attempts + 1
    <3>1. n \in Nat
        BY <2>1
    <3>2. ses = [IdleWorker EXCEPT !.pc = "claimed", !.job = k, !.n = n]
        OBVIOUS
    <3> HIDE DEF n, ses
    <3>3. ses = [pc |-> "claimed", job |-> k, n |-> n, at |-> 0, out |-> NULL,
                 seen |-> NULL, was |-> NULL]
        BY <3>2 DEF IdleWorker
    <3> QED
        BY <2>1, <3>1, <3>3 DEF WorkerStates
  <2> HIDE DEF ses, row
  <2> QED
      BY <1>0, <2>6, <2>7, <2>8, WorkerType
<1>2. ASSUME NEW st \in {"COMPLETED", "FAILED_RETRYABLE", "FAILED_REVIEW"},
             wk[w].pc # "idle", Release(w, st), UNCHANGED attempts
      PROVE  JobsOK' /\ WorkersOK'
  <2> DEFINE k == wk[w].job
             row == [jobs[k] EXCEPT !.status = st, !.owner = NULL, !.lease = "none"]
  <2>1. k \in DOMAIN jobs
      BY <1>0, <1>2 DEF WorkersOK, WorkerOK
  <2>2. jobs[k] \in JobRows
      BY <1>0, <2>1 DEF JobsOK
  <2>3. row \in JobRows
      BY <2>2 DEF JobRows
  <2>4. jobs' = [jobs EXCEPT ![k] = row] /\ wk' = [wk EXCEPT ![w] = IdleWorker]
      BY <1>2 DEF Release
  <2> HIDE DEF k, row
  <2>5. JobsOK' /\ DOMAIN jobs' = DOMAIN jobs
      BY <1>0, <2>3, <2>4 DEF JobsOK
  <2> QED
      BY <1>0, <1>2, <2>4, <2>5, IdleType
<1> QED
    BY <1>1, <1>2

\* The branches of OutboundSendService.execute before the intent.
LEMMA SendDecideType ==
  ASSUME TypeOK, NEW w \in Workers, UNCHANGED requests,
         \/ SendAlreadySettled(w) \/ SendStale(w) \/ SendNotSafe(w)
         \/ SendPreflightFails(w) \/ SendNoLongerDraft(w)
  PROVE  TypeOK'
<1>0. /\ draft \in DraftRows /\ ApprovalsOK /\ AttemptsOK /\ JobsOK /\ WorkersOK
      /\ SessionsOK /\ mail \in MailStates /\ edits \in Nat /\ faults \in Nat /\ requests \in Nat
    BY DEF TypeOK
<1>a. Last \in Nat /\ (attempts # <<>> => Last \in DOMAIN attempts)
    BY <1>0 DEF Last, AttemptsOK
<1>b. draft.rev \in Nat
    BY <1>0, SendAssumption DEF DraftRows
<1>1. CASE SendAlreadySettled(w)
  <2>1. wk[w].pc # "idle" /\ GoTo(w, "done") /\ UNCHANGED <<dbVars, mail, us, envVars>>
      BY <1>1 DEF SendAlreadySettled, Sending
  <2>2. WorkersOK'
      BY <1>0, <2>1, GoToType DEF dbVars
  <2> QED
      BY <1>0, <2>1, <2>2, KeptType DEF TypeOK, dbVars, envVars
<1>2. CASE SendStale(w)
  <2> DEFINE r == [attempts[Last] EXCEPT !.status = "AMBIGUOUS"]
  <2>1. /\ wk[w].pc # "idle" /\ Last \in DOMAIN attempts
        /\ attempts' = [attempts EXCEPT ![Last].status = "AMBIGUOUS"]
        /\ draft' = [draft EXCEPT !.status = "SEND_AMBIGUOUS"]
        /\ Enqueue("stale-send-reconcile", <<Last>>) /\ GoTo(w, "done")
        /\ UNCHANGED <<approvals, moves, mail, us, envVars>>
      BY <1>2, <1>a DEF SendStale, Sending, StaleSend, SetStatus
  <2>2. AttemptsOK' /\ DOMAIN attempts' = DOMAIN attempts
    <3>1. /\ r \in AttemptRows /\ r.approval = attempts[Last].approval
          /\ attempts' = [attempts EXCEPT ![Last] = r]
        BY <1>0, <2>1, AttemptStatusType DEF AttemptStatuses
    <3> HIDE DEF r
    <3> QED
        BY <1>0, <2>1, <3>1, AttemptType
  <2>3. JobsOK' /\ DOMAIN jobs \subseteq DOMAIN jobs'
      BY <1>0, <1>a, <2>1, EnqueueType, KeyType DEF SendKinds, ReconKinds
  <2>4. WorkersOK'
      BY <1>0, <2>1, <2>2, <2>3, GoToType
  <2>5. draft' \in DraftRows
      BY <1>0, <2>1, DraftRowType DEF DraftStatuses
  <2> QED
      BY <1>0, <2>1, <2>2, <2>3, <2>4, <2>5, KeptType DEF TypeOK, envVars
<1>3. CASE SendNotSafe(w)
  <2>1. Dies(w) /\ UNCHANGED faults
      BY <1>3 DEF SendNotSafe
  <2>2. WorkersOK'
      BY <1>0, <2>1, IdleType DEF Dies, dbVars
  <2> QED
      BY <1>0, <2>1, <2>2, KeptType DEF TypeOK, Dies, dbVars
<1>4. CASE SendPreflightFails(w)
  <2>1. /\ wk[w].pc # "idle" /\ GoTo(w, "failed")
        /\ UNCHANGED <<attempts, jobs, moves, mail, us, envVars>>
        /\ \/ draft' = [draft EXCEPT !.status = "SEND_FAILED_REVIEW"] /\ UNCHANGED approvals
           \/ /\ draft' = [draft EXCEPT !.status = "SEND_FAILED_REVIEW", !.snap = NULL]
              /\ approvals' = Invalidated
      BY <1>4 DEF SendPreflightFails, Sending, SetStatus
  <2>2. ApprovalsOK' /\ DOMAIN approvals' = DOMAIN approvals
      BY <1>0, <2>1, InvalidatedType DEF ApprovalsOK
  <2>3. draft' \in DraftRows
    <3>1. "SEND_FAILED_REVIEW" \in DraftStatuses
        BY DEF DraftStatuses
    <3>2. /\ [draft EXCEPT !.status = "SEND_FAILED_REVIEW"] \in DraftRows
          /\ [draft EXCEPT !.status = "SEND_FAILED_REVIEW", !.snap = NULL] \in DraftRows
        BY <1>0, <3>1, DraftRowType
    <3> QED
        BY <2>1, <3>2, Zenon
  <2>4. WorkersOK'
      BY <1>0, <2>1, GoToType
  <2> QED
      BY <1>0, <2>1, <2>2, <2>3, <2>4, KeptType DEF TypeOK, envVars
<1>5. CASE SendNoLongerDraft(w)
  <2>1. /\ wk[w].pc # "idle" /\ GoTo(w, "failed")
        /\ draft' = [draft EXCEPT !.status = "SEND_AMBIGUOUS"]
        /\ Enqueue("preflight-no-longer-draft", <<draft.rev>>)
        /\ UNCHANGED <<approvals, attempts, moves, mail, us, envVars>>
      BY <1>5 DEF SendNoLongerDraft, Sending, SetStatus
  <2>2. draft' \in DraftRows
      BY <1>0, <2>1, DraftRowType DEF DraftStatuses
  <2>3. JobsOK' /\ DOMAIN jobs \subseteq DOMAIN jobs'
      BY <1>0, <1>b, <2>1, EnqueueType, KeyType DEF SendKinds, ReconKinds
  <2>4. WorkersOK'
      BY <1>0, <2>1, <2>3, GoToType
  <2> QED
      BY <1>0, <2>1, <2>2, <2>3, <2>4, KeptType DEF TypeOK, envVars
<1> QED
    BY <1>1, <1>2, <1>3, <1>4, <1>5

\* The intent: one more attempt, under an approval that exists.
LEMMA SendIntentType ==
  ASSUME TypeOK, NEW w \in Workers, UNCHANGED requests, SendIntent(w)
  PROVE  TypeOK'
<1>0. /\ draft \in DraftRows /\ ApprovalsOK /\ AttemptsOK /\ JobsOK /\ WorkersOK
      /\ SessionsOK /\ mail \in MailStates /\ edits \in Nat /\ faults \in Nat /\ requests \in Nat
    BY DEF TypeOK
<1> DEFINE r == [wk[w] EXCEPT !.pc = "intent", !.at = Last + 1]
<1>1. PICK a \in DOMAIN approvals :
        attempts' = Append(attempts, [status |-> "STARTED", approval |-> a, wire |-> "no"])
    BY DEF SendIntent
<1>2. /\ wk[w].pc # "idle" /\ draft' = [draft EXCEPT !.status = "SENDING"]
      /\ wk' = [wk EXCEPT ![w].pc = "intent", ![w].at = Last + 1]
      /\ UNCHANGED <<approvals, jobs, moves, mail, us, envVars>>
    BY DEF SendIntent, Sending, SetStatus
<1>3. AttemptsOK' /\ DOMAIN attempts \subseteq DOMAIN attempts' /\ Last + 1 \in DOMAIN attempts'
      /\ Last + 1 \in Nat
  <2> DEFINE new == [status |-> "STARTED", approval |-> a, wire |-> "no"]
  <2>1. new \in AttemptRows /\ new.approval = a
    <3>1. a \in Nat
        BY <1>0 DEF ApprovalsOK
    <3> QED
        BY <3>1 DEF AttemptRows, AttemptStatuses
  <2> HIDE DEF new
  <2>2. /\ attempts' \in Seq(AttemptRows) /\ DOMAIN attempts' = 1..(Len(attempts) + 1)
        /\ attempts'[Len(attempts) + 1] = new /\ Len(attempts) \in Nat
        /\ DOMAIN attempts = 1..Len(attempts)
        /\ \A i \in 1..Len(attempts) : attempts'[i] = attempts[i]
      BY <1>0, <1>1, <2>1 DEF AttemptsOK, new
  <2>3. \A i \in DOMAIN attempts' : attempts'[i].approval \in DOMAIN approvals'
      BY <1>0, <1>2, <2>1, <2>2 DEF AttemptsOK
  <2> QED
      BY <1>0, <1>2, <2>2, <2>3 DEF AttemptsOK, Last
<1>4. WorkersOK'
  <2>1. wk[w] \in WorkerStates /\ wk[w].job \in DOMAIN jobs
      BY <1>0, <1>2 DEF WorkersOK, WorkerOK
  <2>2. r \in WorkerStates /\ r.pc = "intent" /\ r.job = wk[w].job /\ r.at = Last + 1
      BY <2>1, <1>3 DEF WorkerStates
  <2>3. wk' = [wk EXCEPT ![w] = r]
      BY <1>0, <1>2 DEF WorkersOK
  <2> HIDE DEF r
  <2> QED
      BY <1>0, <1>2, <1>3, <2>1, <2>2, <2>3, WorkerType
<1>5. draft' \in DraftRows
    BY <1>0, <1>2, DraftRowType DEF DraftStatuses
<1> QED
    BY <1>0, <1>2, <1>3, <1>4, <1>5, KeptType DEF TypeOK, envVars

\* The POST and its outcome concern the attempt the worker holds.
LEMMA SendOutcomeType ==
  ASSUME TypeOK, NEW w \in Workers, UNCHANGED requests, SendPost(w) \/ SendRecord(w)
  PROVE  TypeOK'
<1>0. /\ draft \in DraftRows /\ ApprovalsOK /\ AttemptsOK /\ JobsOK /\ WorkersOK
      /\ SessionsOK /\ mail \in MailStates /\ edits \in Nat /\ faults \in Nat /\ requests \in Nat
    BY DEF TypeOK
<1> DEFINE i == wk[w].at
<1>a. wk[w] \in WorkerStates /\ wk[w].job \in DOMAIN jobs /\ i \in DOMAIN attempts /\ i \in Nat
    BY <1>0 DEF WorkersOK, WorkerOK, SendPost, SendRecord, AttemptsOK
<1>b. attempts[i] \in AttemptRows
    BY <1>0, <1>a DEF AttemptsOK
<1>1. CASE SendPost(w)
  <2>1. PICK out \in Outcomes, reached \in BOOLEAN :
          /\ mail' = IF reached THEN [mail EXCEPT !.state = "submitted"] ELSE mail
          /\ attempts' = [attempts EXCEPT ![wk[w].at] = [@ EXCEPT !.wire =
                            IF out \in {"accepted", "ambiguous"} THEN "maybe" ELSE "never"]]
          /\ wk' = [wk EXCEPT ![w].pc = "posted", ![w].out = out]
      BY <1>1 DEF SendPost
  <2>2. UNCHANGED <<draft, approvals, jobs, moves, us, envVars>>
      BY <1>1 DEF SendPost
  <2> DEFINE wire == IF out \in {"accepted", "ambiguous"} THEN "maybe" ELSE "never"
             row == [attempts[i] EXCEPT !.wire = wire]
             r == [wk[w] EXCEPT !.pc = "posted", !.out = out]
  <2>3. row \in AttemptRows /\ row.approval = attempts[i].approval
      BY <1>b DEF AttemptRows
  <2>4. attempts' = [attempts EXCEPT ![i] = row]
      BY <2>1
  <2>5. r \in WorkerStates /\ r.pc = "posted" /\ r.job = wk[w].job /\ r.at = i /\ r.out = out
      BY <1>a DEF WorkerStates
  <2>6. wk' = [wk EXCEPT ![w] = r]
      BY <1>0, <2>1 DEF WorkersOK
  <2>7. mail' \in MailStates
      BY <1>0, <2>1 DEF MailStates
  <2>8. out # NULL
      BY NullAssumption
  <2> HIDE DEF row, r, i
  <2>9. AttemptsOK' /\ DOMAIN attempts' = DOMAIN attempts
      BY <1>0, <1>a, <2>2, <2>3, <2>4, AttemptType
  <2>10. WorkersOK'
      BY <1>0, <1>a, <2>2, <2>5, <2>6, <2>8, <2>9, WorkerType
  <2> QED
      BY <1>0, <2>2, <2>7, <2>9, <2>10, KeptType DEF TypeOK, envVars
<1>2. CASE SendRecord(w)
  <2> DEFINE r == [wk[w] EXCEPT !.pc = "done", !.out = NULL]
  <2>1. /\ wk' = [wk EXCEPT ![w].pc = "done", ![w].out = NULL]
        /\ UNCHANGED <<approvals, moves, mail, us, envVars>>
      BY <1>2 DEF SendRecord
  <2>2. \E att \in AttemptStatuses, st \in DraftStatuses : Record(w, att, st)
      BY <1>2 DEF SendRecord, AttemptStatuses, DraftStatuses
  <2>3. PICK att \in AttemptStatuses, st \in DraftStatuses : Record(w, att, st)
      BY <2>2
  <2>4. JobsOK' /\ DOMAIN jobs \subseteq DOMAIN jobs'
    <3>1. \/ \E kind \in (SendKinds \cup ReconKinds) \ {"send"} : Enqueue(kind, <<i>>)
          \/ UNCHANGED jobs
        BY <1>2 DEF SendRecord, SendKinds, ReconKinds
    <3> QED
        BY <1>0, <1>a, <3>1, EnqueueType, KeyType, KeptType
  <2>5. draft' \in DraftRows
      BY <1>0, <2>3, DraftRowType DEF Record, SetStatus
  <2>6. AttemptsOK' /\ DOMAIN attempts' = DOMAIN attempts
    <3> DEFINE row == [attempts[i] EXCEPT !.status = att]
    <3>1. /\ row \in AttemptRows /\ row.approval = attempts[i].approval
          /\ attempts' = [attempts EXCEPT ![i] = row]
        BY <1>0, <1>a, <2>3, AttemptStatusType DEF Record
    <3> HIDE DEF row, i
    <3> QED
        BY <1>0, <1>a, <2>1, <3>1, AttemptType
  <2>7. r \in WorkerStates /\ r.pc = "done" /\ r.job = wk[w].job
      BY <1>a DEF WorkerStates
  <2>8. wk' = [wk EXCEPT ![w] = r]
      BY <1>0, <2>1 DEF WorkersOK
  <2> HIDE DEF r, i
  <2>9. WorkersOK'
      BY <1>0, <1>a, <2>4, <2>6, <2>7, <2>8, WorkerType
  <2> QED
      BY <1>0, <2>1, <2>4, <2>5, <2>6, <2>9, KeptType DEF TypeOK, envVars
<1> QED
    BY <1>1, <1>2

\* SentReconciliationService.reconcile.
LEMMA ReconType ==
  ASSUME TypeOK, NEW w \in Workers, UNCHANGED requests, ReconStep(w)
  PROVE  TypeOK'
<1>0. /\ draft \in DraftRows /\ ApprovalsOK /\ AttemptsOK /\ JobsOK /\ WorkersOK
      /\ SessionsOK /\ mail \in MailStates /\ edits \in Nat /\ faults \in Nat /\ requests \in Nat
    BY DEF TypeOK
<1>a. Last \in Nat /\ (attempts # <<>> => Last \in DOMAIN attempts)
    BY <1>0 DEF Last, AttemptsOK
<1>b. wk[w] \in WorkerStates /\ (wk[w].pc # "idle" => wk[w].job \in DOMAIN jobs)
    BY <1>0 DEF WorkersOK, WorkerOK
<1>1. CASE ReconNoAttempt(w) \/ ReconUnverified(w)
  <2>1. Dies(w) /\ UNCHANGED faults
      BY <1>1 DEF ReconNoAttempt, ReconUnverified
  <2>2. WorkersOK'
      BY <1>0, <2>1, IdleType DEF Dies, dbVars
  <2> QED
      BY <1>0, <2>1, <2>2, KeptType DEF TypeOK, Dies, dbVars
<1>2. CASE ReconWindowExhausted(w)
  <2> DEFINE row == [attempts[Last] EXCEPT !.status = "FAILED_REVIEW"]
  <2>1. /\ wk[w].pc # "idle" /\ Last \in DOMAIN attempts /\ GoTo(w, "done")
        /\ attempts' = [attempts EXCEPT ![Last].status = "FAILED_REVIEW"]
        /\ draft' = [draft EXCEPT !.status = "SEND_FAILED_REVIEW"]
        /\ UNCHANGED <<approvals, jobs, moves, mail, us, envVars>>
      BY <1>2, <1>a DEF ReconWindowExhausted, Reconciling, SetStatus
  <2>2. AttemptsOK' /\ DOMAIN attempts' = DOMAIN attempts
    <3>1. /\ row \in AttemptRows /\ row.approval = attempts[Last].approval
          /\ attempts' = [attempts EXCEPT ![Last] = row]
        BY <1>0, <2>1, AttemptStatusType DEF AttemptStatuses
    <3> HIDE DEF row
    <3> QED
        BY <1>0, <2>1, <3>1, AttemptType
  <2>3. WorkersOK'
      BY <1>0, <2>1, <2>2, GoToType
  <2>4. draft' \in DraftRows
      BY <1>0, <2>1, DraftRowType DEF DraftStatuses
  <2> QED
      BY <1>0, <2>1, <2>2, <2>3, <2>4, KeptType DEF TypeOK, envVars
<1>3. CASE ReconLoad(w)
  <2> DEFINE was == attempts[Last].status
             r == [wk[w] EXCEPT !.pc = "inspect", !.at = Last, !.seen = draft, !.was = was]
  <2>1. /\ wk[w].pc # "idle" /\ Last \in DOMAIN attempts
        /\ wk' = [wk EXCEPT ![w].pc = "inspect", ![w].at = Last, ![w].seen = draft,
                            ![w].was = was]
        /\ UNCHANGED <<dbVars, mail, us, envVars>>
      BY <1>3, <1>a DEF ReconLoad, Reconciling
  <2>2. was \in AttemptStatuses
      BY <1>0, <2>1, AttemptRowAt
  <2> HIDE DEF was
  <2>3. /\ r \in WorkerStates /\ r.pc = "inspect" /\ r.job = wk[w].job /\ r.at = Last
        /\ r.seen = draft /\ r.was = was
      BY <1>0, <1>a, <1>b, <2>2 DEF WorkerStates
  <2>4. wk' = [wk EXCEPT ![w] = r]
      BY <1>0, <2>1 DEF WorkersOK
  <2> HIDE DEF r
  <2>5. WorkersOK'
      BY <1>0, <1>b, <2>1, <2>2, <2>3, <2>4, NullAssumption, WorkerType DEF dbVars
  <2> QED
      BY <1>0, <2>1, <2>5, KeptType DEF TypeOK, dbVars, envVars
<1>4. ASSUME ReconStillDraft(w) \/ ReconSentCopy(w) PROVE TypeOK'
  <2> DEFINE i == wk[w].at
             seen == wk[w].seen
  <2>1. wk[w].pc = "inspect"
      BY <1>4 DEF ReconStillDraft, ReconSentCopy
  <2>2. i \in DOMAIN attempts /\ seen \in DraftRows
      BY <1>0, <1>b, <2>1 DEF WorkersOK, WorkerOK, WorkerStates
  <2>3. \E st \in DraftStatuses : draft' = Flush(seen, [seen EXCEPT !.status = st])
      BY <1>4 DEF ReconStillDraft, ReconSentCopy, DraftStatuses
  <2>4. draft' \in DraftRows
      BY <1>0, <2>2, <2>3, FlushStatusType
  <2>5. \E pc \in {"done", "failed"} :
          wk' = [wk EXCEPT ![w].pc = pc, ![w].seen = NULL, ![w].was = NULL]
      BY <1>4 DEF ReconStillDraft, ReconSentCopy
  <2>6. PICK pc \in {"done", "failed"} :
          wk' = [wk EXCEPT ![w].pc = pc, ![w].seen = NULL, ![w].was = NULL]
      BY <2>5
  <2>7. UNCHANGED <<approvals, jobs, mail, us, envVars>>
      BY <1>4 DEF ReconStillDraft, ReconSentCopy
  <2>8. AttemptsOK' /\ DOMAIN attempts' = DOMAIN attempts
    <3>1. CASE ReconStillDraft(w)
        BY <1>0, <3>1, KeptType DEF ReconStillDraft
    <3>2. CASE ReconSentCopy(w)
      <4>1. /\ moves' \subseteq moves \cup {i}
            /\ \E st \in AttemptStatuses : attempts' = [attempts EXCEPT ![i].status = st]
        <5>1. attempts[i].status \in AttemptStatuses
            BY <1>0, <2>2, AttemptRowAt
        <5> HIDE DEF i
        <5>2. \E st \in AttemptStatuses : attempts' = [attempts EXCEPT ![i].status = st]
            BY <3>2, <5>1 DEF ReconSentCopy, AttemptStatuses, i
        <5> QED
            BY <3>2, <5>2 DEF ReconSentCopy, i
      <4>2. PICK st \in AttemptStatuses : attempts' = [attempts EXCEPT ![i].status = st]
          BY <4>1
      <4> DEFINE row == [attempts[i] EXCEPT !.status = st]
      <4>3. /\ row \in AttemptRows /\ row.approval = attempts[i].approval
            /\ attempts' = [attempts EXCEPT ![i] = row]
          BY <1>0, <2>2, <4>2, AttemptStatusType
      <4> HIDE DEF row, i
      <4> QED
          BY <1>0, <2>2, <2>7, <4>1, <4>3, AttemptType
    <3> QED
        BY <1>4, <3>1, <3>2
  <2> DEFINE r == [wk[w] EXCEPT !.pc = pc, !.seen = NULL, !.was = NULL]
  <2>9. r \in WorkerStates /\ r.pc = pc /\ r.job = wk[w].job
      BY <1>b DEF WorkerStates
  <2>10. wk' = [wk EXCEPT ![w] = r]
      BY <1>0, <2>6 DEF WorkersOK
  <2> HIDE DEF r, i, seen
  <2>11. WorkersOK'
      BY <1>0, <1>b, <2>1, <2>7, <2>8, <2>9, <2>10, WorkerType
  <2> QED
      BY <1>0, <2>4, <2>7, <2>8, <2>11, KeptType DEF TypeOK, envVars
<1> QED
    BY <1>1, <1>2, <1>3, <1>4 DEF ReconStep

\* Claims, leases, the ends of jobs and of processes.
LEMMA QueueType ==
  ASSUME TypeOK,
         \/ UNCHANGED requests /\ \E w \in Workers :
              \/ \E k \in DOMAIN jobs : Claim(w, k)
              \/ JobDone(w) \/ JobFails(w)
         \/ LeaseNext \/ FaultNext
  PROVE  TypeOK'
<1>0. /\ draft \in DraftRows /\ ApprovalsOK /\ AttemptsOK /\ JobsOK /\ WorkersOK
      /\ SessionsOK /\ mail \in MailStates /\ edits \in Nat /\ faults \in Nat /\ requests \in Nat
    BY DEF TypeOK
<1>1. ASSUME NEW w \in Workers, NEW k \in DOMAIN jobs, Claim(w, k), UNCHANGED requests
      PROVE  TypeOK'
  <2>1. JobsOK' /\ WorkersOK'
      BY <1>1, JobStepType
  <2> QED
      BY <1>0, <1>1, <2>1, KeptType DEF TypeOK, Claim, envVars
<1>2. ASSUME NEW w \in Workers, JobDone(w), UNCHANGED requests PROVE TypeOK'
  <2>1. wk[w].pc # "idle" /\ Release(w, "COMPLETED") /\ UNCHANGED attempts
      BY <1>2 DEF JobDone
  <2>2. JobsOK' /\ WorkersOK'
      BY <2>1, JobStepType
  <2> QED
      BY <1>0, <1>2, <2>2, KeptType DEF TypeOK, JobDone, envVars
<1>3. ASSUME NEW w \in Workers, JobFails(w), UNCHANGED requests PROVE TypeOK'
  <2>1. wk[w].pc # "idle" /\ UNCHANGED <<approvals, attempts, moves, mail, us, envVars>>
      BY <1>3 DEF JobFails
  <2>2. Release(w, "FAILED_RETRYABLE") \/ Release(w, "FAILED_REVIEW")
      BY <1>3 DEF JobFails
  <2>3. JobsOK' /\ WorkersOK'
      BY <2>1, <2>2, JobStepType
  <2>4. draft' = draft \/ draft' = [draft EXCEPT !.status = "SEND_FAILED_REVIEW"]
      BY <1>3 DEF JobFails, SetStatus
  <2>5. draft' \in DraftRows
    <3>1. [draft EXCEPT !.status = "SEND_FAILED_REVIEW"] \in DraftRows
        BY <1>0, DraftRowType DEF DraftStatuses
    <3> QED
        BY <1>0, <2>4, <3>1, Zenon
  <2> QED
      BY <1>0, <1>3, <2>1, <2>3, <2>5, KeptType DEF TypeOK, envVars
<1>4. ASSUME NEW k \in DOMAIN jobs, NEW st \in {"fresh", "expired"},
             jobs' = [jobs EXCEPT ![k].lease = st], faults' \in Nat,
             UNCHANGED <<draft, approvals, attempts, moves, mail, wk, us, edits, requests>>
      PROVE  TypeOK'
  <2> DEFINE row == [jobs[k] EXCEPT !.lease = st]
  <2>1. jobs[k] \in JobRows
      BY <1>0 DEF JobsOK
  <2>2. row \in JobRows
      BY <2>1 DEF JobRows
  <2>3. jobs' = [jobs EXCEPT ![k] = row]
      BY <1>4
  <2> HIDE DEF row
  <2>4. JobsOK' /\ DOMAIN jobs' = DOMAIN jobs
      BY <1>0, <2>2, <2>3 DEF JobsOK
  <2> QED
      BY <1>0, <1>4, <2>4, KeptType DEF TypeOK
<1>5. ASSUME NEW k \in DOMAIN jobs, LeaseExpires(k), UNCHANGED requests PROVE TypeOK'
  <2>1. faults' \in Nat
      BY <1>0, <1>5 DEF LeaseExpires
  <2> QED
      BY <1>4, <1>5, <2>1 DEF LeaseExpires
<1>6. ASSUME NEW w \in Workers, ExtendLease(w), UNCHANGED requests PROVE TypeOK'
  <2>1. wk[w].job \in DOMAIN jobs
      BY <1>0, <1>6 DEF ExtendLease, WorkersOK, WorkerOK
  <2> QED
      BY <1>0, <1>4, <1>6, <2>1 DEF ExtendLease, envVars
<1>7. ASSUME NEW w \in Workers, Crash(w) \/ GraphReadError(w), UNCHANGED requests
      PROVE  TypeOK'
  <2>1. Dies(w) /\ faults' \in Nat
      BY <1>0, <1>7 DEF Crash, GraphReadError
  <2>2. WorkersOK'
      BY <1>0, <2>1, IdleType DEF Dies, dbVars
  <2> QED
      BY <1>0, <1>7, <2>1, <2>2, KeptType DEF TypeOK, Dies, dbVars
<1> QED
    BY <1>1, <1>2, <1>3, <1>5, <1>6, <1>7 DEF LeaseNext, FaultNext

\* What a synchronisation that finds a change leaves.
LEMMA SyncType ==
  ASSUME TypeOK, NEW seen \in DraftRows, NEW u \in Users,
         SyncMissing(seen) \/ MarkNoLongerDraft(seen) \/ SyncImport(seen, u)
  PROVE  /\ draft' \in DraftRows /\ ApprovalsOK' /\ DOMAIN approvals' = DOMAIN approvals
         /\ JobsOK' /\ DOMAIN jobs \subseteq DOMAIN jobs'
<1>0. draft \in DraftRows /\ ApprovalsOK /\ JobsOK /\ mail \in MailStates
    BY DEF TypeOK
<1>1. CASE SyncMissing(seen)
  <2>1. draft' \in DraftRows
      BY <1>0, <1>1, FlushStatusType DEF SyncMissing, DraftStatuses
  <2>2. ApprovalsOK' /\ DOMAIN approvals' = DOMAIN approvals
      BY <1>0, <1>1, InvalidatedType DEF ApprovalsOK, SyncMissing
  <2> QED
      BY <1>1, <2>1, <2>2, KeptType DEF SyncMissing
<1>2. CASE MarkNoLongerDraft(seen)
  <2>1. draft' \in DraftRows
      BY <1>0, <1>2, FlushStatusType DEF MarkNoLongerDraft, DraftStatuses
  <2>2. seen.rev \in Nat
      BY SendAssumption DEF DraftRows
  <2>3. JobsOK' /\ DOMAIN jobs \subseteq DOMAIN jobs'
      BY <1>0, <1>2, <2>2, EnqueueType, KeyType DEF MarkNoLongerDraft, SendKinds, ReconKinds
  <2> QED
      BY <1>2, <2>1, <2>3, KeptType DEF MarkNoLongerDraft
<1>3. CASE SyncImport(seen, u)
  <2> DEFINE new == [seen EXCEPT !.status = "CHANGES_REQUESTED", !.rev = @ + 1,
                                 !.body = mail.body, !.key = mail.key,
                                 !.snap = NULL, !.editor = u]
  <2>1. draft' = Flush(seen, new) /\ approvals' = Invalidated /\ UNCHANGED jobs
        /\ seen.rev < MaxRev
      BY <1>3 DEF SyncImport
  <2>2. seen.rev + 1 \in 1..MaxRev /\ mail.body \in Contents /\ mail.key \in 1..MaxKey
      BY <1>0, <2>1, SendAssumption DEF DraftRows, MailStates
  <2>3. new \in DraftRows
      BY <2>2 DEF DraftRows, DraftStatuses
  <2> HIDE DEF new
  <2>4. draft' \in DraftRows
      BY <1>0, <2>1, <2>3, FlushType
  <2>5. ApprovalsOK' /\ DOMAIN approvals' = DOMAIN approvals
      BY <1>0, <2>1, InvalidatedType DEF ApprovalsOK
  <2> QED
      BY <2>1, <2>4, <2>5, KeptType
<1> QED
    BY <1>1, <1>2, <1>3

\* The steps of a request that synchronises first.
LEMMA SessionStepType ==
  ASSUME TypeOK, NEW s \in Sessions, SessionStep(s)
  PROVE  TypeOK'
<1>0. /\ draft \in DraftRows /\ ApprovalsOK /\ AttemptsOK /\ JobsOK /\ WorkersOK
      /\ SessionsOK /\ mail \in MailStates /\ edits \in Nat /\ faults \in Nat /\ requests \in Nat
    BY DEF TypeOK
<1> DEFINE seen == us[s].seen
           u == us[s].user
<1>a. us[s] \in SessionStates /\ (us[s].pc # "idle" => seen \in DraftRows /\ u \in Users)
    BY <1>0 DEF SessionsOK, SessionOK, SessionStates
<1>b. UNCHANGED requests
    BY DEF SessionStep
<1>1. CASE Refused(s)
  <2>1. SessionsOK'
      BY <1>0, <1>1, LeaveType DEF Refused
  <2> QED
      BY <1>0, <1>1, <1>b, <2>1, KeptType DEF TypeOK, Refused, dbVars, envVars
<1>2. CASE Synchronize(s)
  <2>1. us[s].pc = "sync" /\ UNCHANGED <<attempts, moves, mail, wk, envVars>>
      BY <1>2 DEF Synchronize
  <2>2. CASE SyncChanged(seen, u) /\ Leave(s)
    <3>1. /\ draft' \in DraftRows /\ ApprovalsOK' /\ DOMAIN approvals' = DOMAIN approvals
          /\ JobsOK' /\ DOMAIN jobs \subseteq DOMAIN jobs'
        BY <1>a, <2>1, <2>2, SyncType DEF SyncChanged
    <3>2. SessionsOK'
        BY <1>0, <2>2, LeaveType
    <3> QED
        BY <1>0, <1>b, <2>1, <3>1, <3>2, KeptType DEF TypeOK, envVars
  <2>3. CASE (Leave(s) \/ us' = [us EXCEPT ![s].pc = "act"]) /\ UNCHANGED <<draft, approvals, jobs>>
    <3> DEFINE r == [us[s] EXCEPT !.pc = "act"]
    <3>1. r \in SessionStates /\ r.user = us[s].user /\ r.seen = us[s].seen
        BY <1>a DEF SessionStates
    <3>2. us' = [us EXCEPT ![s].pc = "act"] => us' = [us EXCEPT ![s] = r]
        BY <1>0 DEF SessionsOK
    <3>3. r.user # NULL /\ r.seen # NULL
        BY <1>0, <2>1, <3>1 DEF SessionsOK, SessionOK
    <3> HIDE DEF r
    <3>4. SessionsOK'
        BY <1>0, <2>3, <3>1, <3>2, <3>3, LeaveType, SessionType
    <3> QED
        BY <1>0, <1>b, <2>1, <2>3, <3>4, KeptType DEF TypeOK, envVars
  <2> QED
      BY <1>2, <2>2, <2>3 DEF Synchronize
<1>3. CASE Submit(s)
  <2> DEFINE new == [seen EXCEPT !.status = "PENDING_SEND_APPROVAL", !.editor = u]
  <2>1. /\ us[s].pc # "idle" /\ draft' = Flush(seen, new) /\ Leave(s)
        /\ UNCHANGED <<approvals, attempts, jobs, moves, mail, wk, envVars>>
      BY <1>3 DEF Submit
  <2>2. new \in DraftRows
      BY <1>a, <2>1 DEF DraftRows, DraftStatuses
  <2> HIDE DEF new
  <2>3. draft' \in DraftRows
      BY <1>0, <1>a, <2>1, <2>2, FlushType
  <2>4. SessionsOK'
      BY <1>0, <2>1, LeaveType
  <2> QED
      BY <1>0, <1>b, <2>1, <2>3, <2>4, KeptType DEF TypeOK, envVars
<1>4. CASE Approve(s)
  <2> DEFINE new == [seen EXCEPT !.status = "APPROVED_TO_SEND", !.snap = Snapshot(seen)]
             first == ApprovalRow(seen, u, "PENDING_SECOND_APPROVAL")
             row == ApprovalRow(seen, u, "APPROVED")
  <2>1. /\ us[s].pc # "idle" /\ Leave(s)
        /\ UNCHANGED <<attempts, jobs, moves, mail, wk, envVars>>
        /\ \/ approvals' = Append(FirstDropped, first) /\ draft' = draft
           \/ approvals' = Append(approvals, row) /\ draft' = Flush(seen, new)
      BY <1>4 DEF Approve
  <2>2. first \in ApprovalRows /\ row \in ApprovalRows /\ Snapshot(seen) \in Snaps
      BY <1>a, <2>1, ApprovalRowType DEF Decisions, LiveDecisions
  <2>3. new \in DraftRows
    <3>1. ASSUME NEW d \in DraftRows, NEW q \in Snaps
          PROVE  [d EXCEPT !.status = "APPROVED_TO_SEND", !.snap = q] \in DraftRows
        BY DEF DraftRows, DraftStatuses
    <3> QED
        BY <1>a, <2>1, <2>2, <3>1
  <2> HIDE DEF new, first, row
  <2>4. Flush(seen, new) \in DraftRows
      BY <1>0, <1>a, <2>1, <2>3, FlushType
  <2>5. draft' \in DraftRows
      BY <1>0, <2>1, <2>4
  <2>6. ApprovalsOK' /\ DOMAIN approvals \subseteq DOMAIN approvals'
    <3>1. CASE approvals' = Append(FirstDropped, first)
      <4>1. FirstDropped \in Seq(ApprovalRows) /\ DOMAIN FirstDropped = DOMAIN approvals
          BY <1>0, FirstDroppedType DEF ApprovalsOK
      <4> QED
          BY <1>0, <2>1, <2>2, <3>1, <4>1 DEF ApprovalsOK
    <3>2. CASE approvals' = Append(approvals, row)
        BY <1>0, <2>1, <2>2, <3>2 DEF ApprovalsOK
    <3> QED
        BY <2>1, <3>1, <3>2
  <2>7. SessionsOK'
      BY <1>0, <2>1, LeaveType
  <2> QED
      BY <1>0, <1>b, <2>1, <2>5, <2>6, <2>7, KeptType DEF TypeOK, envVars
<1>5. ASSUME NEW c \in Contents, Edit(s, c) PROVE TypeOK'
  <2> DEFINE new == [seen EXCEPT !.status = "REVIEW_IN_PROGRESS", !.rev = @ + 1, !.body = c,
                                 !.snap = NULL, !.editor = u]
             r == [us[s] EXCEPT !.pc = "push", !.seen = new]
  <2>1. /\ us[s].pc # "idle" /\ seen.rev < MaxRev /\ draft' = Flush(seen, new)
        /\ approvals' = Invalidated
        /\ us' = [us EXCEPT ![s].pc = "push", ![s].seen = new]
        /\ UNCHANGED <<attempts, jobs, moves, mail, wk, envVars>>
      BY <1>5 DEF Edit
  <2>2. seen.rev + 1 \in 1..MaxRev
      BY <1>a, <2>1, SendAssumption DEF DraftRows
  <2>3. new \in DraftRows
      BY <1>a, <2>1, <2>2 DEF DraftRows, DraftStatuses
  <2> HIDE DEF new
  <2>4. draft' \in DraftRows
      BY <1>0, <1>a, <2>1, <2>3, FlushType
  <2>5. ApprovalsOK' /\ DOMAIN approvals' = DOMAIN approvals
      BY <1>0, <2>1, InvalidatedType DEF ApprovalsOK
  <2>6. r \in SessionStates /\ r.user = u /\ r.seen = new
      BY <1>a, <2>1, <2>3 DEF SessionStates
  <2>7. us' = [us EXCEPT ![s] = r]
      BY <1>0, <2>1 DEF SessionsOK
  <2>8. u # NULL /\ new # NULL
      BY <1>0, <2>1, <2>3, NullAssumption DEF SessionsOK, SessionOK
  <2> HIDE DEF r
  <2>9. SessionsOK'
      BY <1>0, <2>6, <2>7, <2>8, SessionType
  <2> QED
      BY <1>0, <1>b, <2>1, <2>4, <2>5, <2>9, KeptType DEF TypeOK, envVars
<1>6. CASE PushLocal(s)
  <2>1. us[s].pc = "push" /\ UNCHANGED <<attempts, moves, wk, envVars>>
      BY <1>6 DEF PushLocal
  <2>2. CASE (MarkNoLongerDraft(seen) \/ SyncImport(seen, u)) /\ Leave(s) /\ UNCHANGED mail
    <3>1. /\ draft' \in DraftRows /\ ApprovalsOK' /\ DOMAIN approvals' = DOMAIN approvals
          /\ JobsOK' /\ DOMAIN jobs \subseteq DOMAIN jobs'
        BY <1>a, <2>1, <2>2, SyncType
    <3>2. SessionsOK'
        BY <1>0, <2>2, LeaveType
    <3> QED
        BY <1>0, <1>b, <2>1, <2>2, <3>1, <3>2, KeptType DEF TypeOK, envVars
  <2>3. CASE /\ mail.key < MaxKey /\ mail' = [mail EXCEPT !.body = seen.body, !.key = @ + 1]
             /\ us' = [us EXCEPT ![s].pc = "pushed"] /\ UNCHANGED <<draft, approvals, jobs>>
    <3> DEFINE r == [us[s] EXCEPT !.pc = "pushed"]
    <3>1. r \in SessionStates /\ r.user = us[s].user /\ r.seen = us[s].seen
        BY <1>a DEF SessionStates
    <3>2. us' = [us EXCEPT ![s] = r]
        BY <1>0, <2>3 DEF SessionsOK
    <3>3. r.user # NULL /\ r.seen # NULL
        BY <1>0, <2>1, <3>1 DEF SessionsOK, SessionOK
    <3> HIDE DEF r
    <3>4. SessionsOK'
        BY <1>0, <3>1, <3>2, <3>3, SessionType
    <3>5. mail.key + 1 \in 1..MaxKey /\ seen.body \in Contents
        BY <1>0, <1>a, <2>1, <2>3, SendAssumption DEF MailStates, DraftRows
    <3>6. mail' \in MailStates
        BY <1>0, <2>3, <3>5 DEF MailStates
    <3> QED
        BY <1>0, <1>b, <2>1, <2>3, <3>4, <3>6, KeptType DEF TypeOK, envVars
  <2> QED
      BY <1>6, <2>2, <2>3 DEF PushLocal
<1>7. CASE PushConfirm(s)
  <2>1. us[s].pc = "pushed" /\ Leave(s) /\ UNCHANGED <<attempts, moves, mail, wk, envVars>>
      BY <1>7 DEF PushConfirm
  <2>2. SessionsOK'
      BY <1>0, <2>1, LeaveType
  <2>3. /\ draft' \in DraftRows /\ ApprovalsOK' /\ DOMAIN approvals' = DOMAIN approvals
        /\ JobsOK' /\ DOMAIN jobs \subseteq DOMAIN jobs'
    <3>1. CASE MarkNoLongerDraft(seen) \/ SyncImport(seen, u)
        BY <1>a, <2>1, <3>1, SyncType
    <3>2. CASE /\ draft' = Flush(seen, [seen EXCEPT !.key = mail.key])
               /\ UNCHANGED <<approvals, jobs>>
      <4>1. [seen EXCEPT !.key = mail.key] \in DraftRows
          BY <1>0, <1>a, <2>1 DEF DraftRows, MailStates
      <4>2. draft' \in DraftRows
          BY <1>0, <1>a, <2>1, <3>2, <4>1, FlushType
      <4> QED
          BY <2>1, <3>2, <4>2, KeptType
    <3> QED
        BY <1>7, <3>1, <3>2 DEF PushConfirm
  <2> QED
      BY <1>0, <1>b, <2>1, <2>2, <2>3, KeptType DEF TypeOK, envVars
<1>8. CASE RejectCancel(s)
  <2>1. /\ draft' = [draft EXCEPT !.status = "CANCELLED"] /\ Leave(s)
        /\ UNCHANGED <<approvals, attempts, jobs, moves, mail, wk, envVars>>
      BY <1>8 DEF RejectCancel, SetStatus
  <2>2. draft' \in DraftRows
      BY <1>0, <2>1, DraftRowType DEF DraftStatuses
  <2>3. SessionsOK'
      BY <1>0, <2>1, LeaveType
  <2> QED
      BY <1>0, <1>b, <2>1, <2>2, <2>3, KeptType DEF TypeOK, envVars
<1> QED
    BY <1>1, <1>2, <1>3, <1>4, <1>5, <1>6, <1>7, <1>8 DEF SessionStep

\* The requests that lock and read the row once, and the opening of the others.
LEMMA RequestType ==
  ASSUME TypeOK, Request
  PROVE  TypeOK'
<1>0. /\ draft \in DraftRows /\ ApprovalsOK /\ AttemptsOK /\ JobsOK /\ WorkersOK
      /\ SessionsOK /\ mail \in MailStates /\ edits \in Nat /\ faults \in Nat /\ requests \in Nat
    BY DEF TypeOK
<1>a. requests' \in Nat
    BY <1>0 DEF Request
<1>b. ASSUME NEW st \in DraftStatuses, InvalidateTo(st)
      PROVE  draft' \in DraftRows /\ ApprovalsOK' /\ DOMAIN approvals' = DOMAIN approvals
  <2>1. draft' \in DraftRows
      BY <1>0, <1>b, DraftRowType DEF InvalidateTo
  <2> QED
      BY <1>0, <1>b, <2>1, InvalidatedType DEF InvalidateTo, ApprovalsOK
<1>c. ASSUME NEW s \in Sessions, NEW u \in Users, NEW d \in DraftRows,
             NEW pc \in {"sync", "cancel"}, NEW op \in SyncOps \cup OneShotOps,
             us' = [us EXCEPT ![s] = [pc |-> pc, op |-> op, user |-> u, seen |-> d]]
      PROVE  SessionsOK'
  <2> DEFINE r == [pc |-> pc, op |-> op, user |-> u, seen |-> d]
  <2>1. r \in SessionStates /\ r.user = u /\ r.seen = d
      BY DEF SessionStates
  <2>2. u # NULL /\ d # NULL
      BY SendAssumption, NullAssumption
  <2>3. us' = [us EXCEPT ![s] = r]
      BY <1>c
  <2> HIDE DEF r
  <2> QED
      BY <1>0, <2>1, <2>2, <2>3, SessionType
<1>1. ASSUME NEW s \in Sessions, NEW u \in Users, NEW op \in SyncOps, Open(s, op, u)
      PROVE  TypeOK'
  <2>1. SessionsOK'
      BY <1>0, <1>1, <1>c DEF Open
  <2> QED
      BY <1>0, <1>1, <1>a, <2>1, KeptType DEF TypeOK, Open, dbVars, envVars
<1>2. ASSUME NEW s \in Sessions, NEW u \in Users, Reject(s, u) PROVE TypeOK'
  <2>1. /\ InvalidateTo("CHANGES_REQUESTED")
        /\ us' = [us EXCEPT ![s] = [pc |-> "cancel", op |-> "reject", user |-> u,
                                    seen |-> draft']]
        /\ UNCHANGED <<attempts, jobs, moves, mail, wk, envVars>>
      BY <1>2 DEF Reject
  <2>2. draft' \in DraftRows /\ ApprovalsOK' /\ DOMAIN approvals' = DOMAIN approvals
      BY <1>b, <2>1 DEF DraftStatuses
  <2>3. SessionsOK'
      BY <1>c, <2>1, <2>2 DEF OneShotOps
  <2> QED
      BY <1>0, <1>a, <2>1, <2>2, <2>3, KeptType DEF TypeOK, envVars
<1>3. ASSUME NEW u \in Users, NEW dec \in {"REJECTED", "CHANGES_REQUESTED"}, Decline(u, dec)
      PROVE  TypeOK'
  <2> DEFINE row == ApprovalRow(draft, u, dec)
  <2>1. /\ approvals' = Append(Invalidated, row)
        /\ \E st \in DraftStatuses : draft' = [draft EXCEPT !.snap = NULL, !.status = st]
        /\ UNCHANGED <<attempts, jobs, moves, mail, wk, us, envVars>>
      BY <1>3 DEF Decline, DraftStatuses
  <2>2. draft' \in DraftRows
    <3>1. \A st \in DraftStatuses : [draft EXCEPT !.snap = NULL, !.status = st] \in DraftRows
        BY <1>0 DEF DraftRows
    <3> QED
        BY <2>1, <3>1
  <2>3. row \in ApprovalRows
      BY <1>0, ApprovalRowType DEF Decisions
  <2>4. Invalidated \in Seq(ApprovalRows) /\ DOMAIN Invalidated = DOMAIN approvals
      BY <1>0, InvalidatedType DEF ApprovalsOK
  <2> HIDE DEF row
  <2>5. ApprovalsOK' /\ DOMAIN approvals \subseteq DOMAIN approvals'
      BY <1>0, <2>1, <2>3, <2>4 DEF ApprovalsOK
  <2> QED
      BY <1>0, <1>a, <2>1, <2>2, <2>5, KeptType DEF TypeOK, envVars
<1>4. CASE RequestChanges \/ PatchPlan
  <2>1. /\ InvalidateTo("CHANGES_REQUESTED")
        /\ UNCHANGED <<attempts, jobs, moves, mail, wk, us, envVars>>
      BY <1>4 DEF RequestChanges, PatchPlan
  <2>2. draft' \in DraftRows /\ ApprovalsOK' /\ DOMAIN approvals' = DOMAIN approvals
      BY <1>b, <2>1 DEF DraftStatuses
  <2> QED
      BY <1>0, <1>a, <2>1, <2>2, KeptType DEF TypeOK, envVars
<1>5. CASE Cancel
  <2> DEFINE row(k) == [jobs[k] EXCEPT !.status = "CANCELLED", !.owner = NULL, !.lease = "none"]
  <2>1. /\ jobs' = [k \in DOMAIN jobs |-> IF k \in OpenSendJobs THEN row(k) ELSE jobs[k]]
        /\ InvalidateTo("CANCELLED")
        /\ UNCHANGED <<attempts, moves, mail, wk, us, envVars>>
      BY <1>5 DEF Cancel
  <2>2. \A k \in DOMAIN jobs : jobs[k] \in JobRows
      BY <1>0 DEF JobsOK
  <2>3. \A k \in DOMAIN jobs : row(k) \in JobRows
      BY <2>2 DEF JobRows
  <2> HIDE DEF row
  <2>4. JobsOK' /\ DOMAIN jobs' = DOMAIN jobs
      BY <1>0, <2>1, <2>2, <2>3 DEF JobsOK
  <2>5. draft' \in DraftRows /\ ApprovalsOK' /\ DOMAIN approvals' = DOMAIN approvals
      BY <1>b, <2>1 DEF DraftStatuses
  <2> QED
      BY <1>0, <1>a, <2>1, <2>4, <2>5, KeptType DEF TypeOK, envVars
<1>6. CASE EnqueueSend
  <2>1. PICK a \in Approved :
          /\ approvals[a].snap = draft.snap /\ Enqueue("send", draft.snap)
          /\ IF <<"send", draft.snap>> \in DOMAIN jobs
             THEN UNCHANGED draft ELSE SetStatus("SEND_QUEUED")
      BY <1>6 DEF EnqueueSend
  <2>2. UNCHANGED <<approvals, attempts, moves, mail, wk, us, envVars>>
      BY <1>6 DEF EnqueueSend
  <2>3. a \in DOMAIN approvals /\ approvals[a] \in ApprovalRows
      BY <1>0 DEF Approved, ApprovalsOK
  <2>4. draft.snap \in Snaps
      BY <2>1, <2>3 DEF ApprovalRows
  <2>5. JobsOK' /\ DOMAIN jobs \subseteq DOMAIN jobs'
      BY <1>0, <2>1, <2>4, EnqueueType DEF Keys
  <2>6. draft' \in DraftRows
    <3>1. [draft EXCEPT !.status = "SEND_QUEUED"] \in DraftRows
        BY <1>0, DraftRowType DEF DraftStatuses
    <3> QED
        BY <1>0, <2>1, <3>1, Zenon DEF SetStatus
  <2>7. ApprovalsOK'
      BY <1>0, <2>1, <2>2, <2>3 DEF ApprovalsOK
  <2> QED
      BY <1>0, <1>a, <2>2, <2>5, <2>6, <2>7, KeptType DEF TypeOK, envVars
<1>7. CASE EnqueueReconcile
  <2>1. draft.rev \in Nat
      BY <1>0, SendAssumption DEF DraftRows
  <2>2. JobsOK' /\ DOMAIN jobs \subseteq DOMAIN jobs'
      BY <1>0, <1>7, <2>1, EnqueueType, KeyType DEF EnqueueReconcile, SendKinds, ReconKinds
  <2> QED
      BY <1>0, <1>7, <1>a, <2>2, KeptType DEF TypeOK, EnqueueReconcile, envVars
<1> QED
    BY <1>1, <1>2, <1>3, <1>4, <1>5, <1>6, <1>7 DEF Request

\* Outlook and Exchange only touch the message.
LEMMA EnvType ==
  ASSUME TypeOK, EnvNext
  PROVE  TypeOK'
<1>0. /\ draft \in DraftRows /\ mail \in MailStates /\ edits \in Nat
      /\ faults \in Nat /\ requests \in Nat
    BY DEF TypeOK
<1>1. UNCHANGED <<dbVars, wk, us, faults, requests>>
    BY DEF EnvNext, OutlookEdit, OutlookDeleteOrSend, ExchangeDelivers, envVars
<1>2. edits' \in Nat
  <2>1. edits' = edits + 1 \/ edits' = edits
      BY DEF EnvNext, OutlookEdit, OutlookDeleteOrSend, ExchangeDelivers, envVars
  <2> QED
      BY <1>0, <2>1
<1>3. mail' \in MailStates
  <2>1. ASSUME NEW c \in Contents, OutlookEdit(c) PROVE mail' \in MailStates
    <3>1. mail.key + 1 \in 1..MaxKey
        BY <1>0, <2>1, SendAssumption DEF OutlookEdit, MailStates
    <3> QED
        BY <1>0, <2>1, <3>1 DEF OutlookEdit, MailStates
  <2>2. ASSUME OutlookDeleteOrSend \/ ExchangeDelivers PROVE mail' \in MailStates
    <3>1. \E st \in {"gone", "submitted", "leaving", "sent"} : mail' = [mail EXCEPT !.state = st]
        BY <2>2 DEF OutlookDeleteOrSend, ExchangeDelivers
    <3> QED
        BY <1>0, <3>1 DEF MailStates
  <2> QED
      BY <2>1, <2>2 DEF EnvNext
<1> QED
    BY <1>0, <1>1, <1>2, <1>3, KeptType DEF TypeOK, dbVars

\* Every step keeps the rows and the sessions well formed.
LEMMA TypeStep == TypeOK /\ [Next]_vars => TypeOK'
<1> SUFFICES ASSUME TypeOK, [Next]_vars PROVE TypeOK'
    OBVIOUS
<1>1. ASSUME NEW w \in Workers, WorkerStep(w) PROVE TypeOK'
    BY <1>1, QueueType, SendDecideType, SendIntentType, SendOutcomeType, ReconType
       DEF WorkerStep, SendStep
<1>2. ASSUME NEW s \in Sessions, SessionStep(s) PROVE TypeOK'
    BY <1>2, SessionStepType
<1>3. CASE Request \/ LeaseNext \/ FaultNext \/ EnvNext
    BY <1>3, RequestType, QueueType, EnvType
<1>4. CASE UNCHANGED vars
    BY <1>4, KeptType DEF TypeOK, vars
<1> QED
    BY <1>1, <1>2, <1>3, <1>4 DEF Next

LEMMA TypeInit == Init => TypeOK
<1> SUFFICES ASSUME Init PROVE TypeOK
    OBVIOUS
<1>1. draft \in DraftRows
    BY SendAssumption DEF Init, DraftRows, DraftStatuses, Users
<1>2. ApprovalsOK /\ AttemptsOK /\ JobsOK
    BY DEF Init, ApprovalsOK, AttemptsOK, JobsOK
<1>3. mail \in MailStates
    BY SendAssumption DEF Init, MailStates
<1>4. WorkersOK
    BY DEF Init, WorkersOK, WorkerOK, WorkerStates, IdleWorker
<1>5. SessionsOK
    BY DEF Init, SessionsOK, SessionOK, SessionStates, NoSession
<1> QED
    BY <1>1, <1>2, <1>3, <1>4, <1>5 DEF Init, TypeOK

\* The rows, the Graph message and every session of the send saga stay well
\* formed, whatever workers, requests, Outlook and Exchange do.
THEOREM TypeCorrect == Spec => []TypeOK
  BY TypeInit, TypeStep, PTL DEF Spec

(***************************************************************************)
(* No approval is sent twice                                               *)
(***************************************************************************)

\* A step that makes no attempt, grants no approval and does not make the draft
\* sendable keeps SendOnce.
LEMMA OnceKept ==
  ASSUME SendOnce,
         DOMAIN attempts' = DOMAIN attempts,
         \A i \in DOMAIN attempts : attempts'[i].approval = attempts[i].approval,
         \A a \in DOMAIN approvals' : approvals'[a].decision = "APPROVED" => a \in Approved,
         draft'.status \in Sendable => draft.status \in Sendable
  PROVE  SendOnce'
  BY DEF SendOnce, Approved

\* The same, for a step that leaves both kinds of rows alone.
LEMMA OnceStatus ==
  ASSUME SendOnce, UNCHANGED <<approvals, attempts>>,
         draft'.status \in Sendable => draft.status \in Sendable
  PROVE  SendOnce'
  BY DEF SendOnce, Approved

\* The same, for one that only withdraws approvals.
LEMMA OnceInvalidated ==
  ASSUME TypeOK, SendOnce, approvals' = Invalidated, UNCHANGED attempts
  PROVE  SendOnce'
<1>1. approvals \in Seq(ApprovalRows)
    BY DEF TypeOK, ApprovalsOK
<1>2. Approved' = {}
    BY <1>1, InvalidatedType DEF Approved
<1> QED
    BY <1>2 DEF SendOnce

\* Recording what became of an attempt does not change its approval.
LEMMA OnceAttempt ==
  ASSUME TypeOK, SendOnce, NEW i \in DOMAIN attempts, NEW r,
         r.approval = attempts[i].approval, attempts' = [attempts EXCEPT ![i] = r],
         UNCHANGED approvals, draft'.status \in Sendable => draft.status \in Sendable
  PROVE  SendOnce'
<1>1. attempts \in Seq(AttemptRows)
    BY DEF TypeOK, AttemptsOK
<1>2. /\ DOMAIN attempts' = DOMAIN attempts
      /\ \A k \in DOMAIN attempts : attempts'[k].approval = attempts[k].approval
    BY <1>1
<1> QED
    BY <1>2, OnceKept DEF Approved

\* The worker's steps.  The intent uses an approval no attempt has used, and a
\* retry of the same approval needs a second attempt, which the limit forbids.
LEMMA WorkerOnce ==
  ASSUME SendMaxAttempts = 1, TypeOK, SendOnce, NEW w \in Workers, WorkerStep(w)
  PROVE  SendOnce'
<1>0. draft \in DraftRows /\ ApprovalsOK /\ AttemptsOK /\ WorkersOK
    BY DEF TypeOK
<1>a. Last \in Nat /\ (attempts # <<>> => Last \in DOMAIN attempts)
    BY <1>0 DEF Last, AttemptsOK
<1>b. \A st \in DraftStatuses : draft' = [draft EXCEPT !.status = st] => draft'.status = st
    BY <1>0, DraftRowType
<1>c. ASSUME NEW i \in DOMAIN attempts, NEW st \in AttemptStatuses,
             attempts' = [attempts EXCEPT ![i].status = st], UNCHANGED approvals,
             draft'.status \in Sendable => draft.status \in Sendable
      PROVE  SendOnce'
  <2> DEFINE row == [attempts[i] EXCEPT !.status = st]
  <2>1. row.approval = attempts[i].approval /\ attempts' = [attempts EXCEPT ![i] = row]
      BY <1>0, <1>c, AttemptStatusType
  <2> HIDE DEF row
  <2> QED
      BY <1>c, <2>1, OnceAttempt
<1>1. CASE \/ \E k \in DOMAIN jobs : Claim(w, k)
           \/ SendAlreadySettled(w) \/ SendNotSafe(w) \/ ReconNoAttempt(w) \/ ReconLoad(w)
           \/ ReconUnverified(w) \/ JobDone(w)
    BY <1>1, OnceStatus DEF Claim, SendAlreadySettled, SendNotSafe, ReconNoAttempt,
       ReconLoad, ReconUnverified, JobDone, Dies, dbVars
<1>2. CASE SendStale(w) \/ ReconWindowExhausted(w)
  <2>1. /\ Last \in DOMAIN attempts /\ UNCHANGED approvals
        /\ \E st \in {"AMBIGUOUS", "FAILED_REVIEW"} :
             attempts' = [attempts EXCEPT ![Last].status = st]
      BY <1>2, <1>a DEF SendStale, StaleSend, ReconWindowExhausted
  <2>2. draft'.status \notin Sendable
      BY <1>2, <1>b DEF SendStale, ReconWindowExhausted, SetStatus, DraftStatuses, Sendable
  <2> QED
      BY <1>c, <2>1, <2>2 DEF AttemptStatuses
<1>3. CASE SendPreflightFails(w)
  <2>1. CASE SetStatus("SEND_FAILED_REVIEW") /\ UNCHANGED approvals
      BY <1>3, <1>b, <2>1, OnceStatus
         DEF SendPreflightFails, SetStatus, DraftStatuses, Sendable
  <2>2. CASE approvals' = Invalidated
      BY <1>3, <2>2, OnceInvalidated DEF SendPreflightFails
  <2> QED
      BY <1>3, <2>1, <2>2 DEF SendPreflightFails
<1>4. CASE SendNoLongerDraft(w)
    BY <1>4, <1>b, OnceStatus DEF SendNoLongerDraft, SetStatus, DraftStatuses, Sendable
<1>5. CASE SendIntent(w)
  <2>1. PICK a \in DOMAIN approvals :
          /\ a \in Approved
          /\ attempts' = Append(attempts, [status |-> "STARTED", approval |-> a, wire |-> "no"])
      BY <1>5 DEF SendIntent, Covered
  <2>2. /\ draft.status \in Sendable /\ draft'.status = "SENDING" /\ UNCHANGED approvals
      BY <1>5, <1>b DEF SendIntent, SetStatus, DraftStatuses
  <2>3. \A i \in DOMAIN attempts : attempts[i].approval # a
      BY <2>1, <2>2 DEF SendOnce
  <2>4. /\ DOMAIN attempts' = 1..(Len(attempts) + 1) /\ Len(attempts) \in Nat
        /\ DOMAIN attempts = 1..Len(attempts)
        /\ attempts'[Len(attempts) + 1].approval = a
        /\ \A i \in 1..Len(attempts) : attempts'[i] = attempts[i]
      BY <1>0, <2>1 DEF AttemptsOK
  <2>5. \A i, k \in DOMAIN attempts' :
          i # k => attempts'[i].approval # attempts'[k].approval
      BY <2>3, <2>4 DEF SendOnce
  <2> QED
      BY <2>2, <2>5 DEF SendOnce, Sendable
<1>6. CASE SendPost(w)
  <2> DEFINE i == wk[w].at
  <2>1. i \in DOMAIN attempts /\ attempts[i] \in AttemptRows
      BY <1>0, <1>6, AttemptRowAt DEF WorkersOK, WorkerOK, SendPost
  <2>2. PICK wire \in {"maybe", "never"} :
          attempts' = [attempts EXCEPT ![i] = [@ EXCEPT !.wire = wire]]
      BY <1>6 DEF SendPost
  <2> DEFINE row == [attempts[i] EXCEPT !.wire = wire]
  <2>3. row.approval = attempts[i].approval /\ attempts' = [attempts EXCEPT ![i] = row]
      BY <2>1, <2>2 DEF AttemptRows
  <2> HIDE DEF row, i
  <2> QED
      BY <1>6, <2>1, <2>3, OnceAttempt DEF SendPost
<1>7. CASE SendRecord(w)
  <2> DEFINE i == wk[w].at
  <2>1. i \in DOMAIN attempts /\ i \in Nat /\ ~(i < SendMaxAttempts)
      BY <1>0, <1>7 DEF WorkersOK, WorkerOK, SendRecord, AttemptsOK
  <2>2. \E st \in {"ACCEPTED", "AMBIGUOUS", "FAILED_REVIEW"},
           dst \in {"SEND_ACCEPTED", "SEND_AMBIGUOUS", "SEND_FAILED_REVIEW"} : Record(w, st, dst)
      BY <1>7, <2>1 DEF SendRecord
  <2>3. draft'.status \notin Sendable
      BY <1>b, <2>2 DEF Record, SetStatus, DraftStatuses, Sendable
  <2>4. \E st \in AttemptStatuses : attempts' = [attempts EXCEPT ![i].status = st]
      BY <2>2 DEF Record, AttemptStatuses
  <2> HIDE DEF i
  <2> QED
      BY <1>7, <1>c, <2>1, <2>3, <2>4 DEF SendRecord
<1>8. ASSUME ReconStillDraft(w) \/ ReconSentCopy(w) PROVE SendOnce'
  <2> DEFINE i == wk[w].at
             seen == wk[w].seen
  <2>1. i \in DOMAIN attempts /\ seen \in DraftRows
      BY <1>0, <1>8 DEF WorkersOK, WorkerOK, WorkerStates, ReconStillDraft, ReconSentCopy
  <2>2. \E st \in {"SEND_AMBIGUOUS", "SENT_COPY_VERIFIED", "SEND_FAILED_REVIEW"} :
          draft' = Flush(seen, [seen EXCEPT !.status = st])
      BY <1>8 DEF ReconStillDraft, ReconSentCopy
  <2>3. draft'.status \in Sendable => draft.status \in Sendable
    <3>1. PICK st \in {"SEND_AMBIGUOUS", "SENT_COPY_VERIFIED", "SEND_FAILED_REVIEW"} :
            draft' = Flush(seen, [seen EXCEPT !.status = st])
        BY <2>2
    <3>2. st \in DraftStatuses /\ st \notin Sendable
        BY DEF DraftStatuses, Sendable
    <3>3. draft'.status = IF st # seen.status THEN st ELSE draft.status
        BY <1>0, <2>1, <3>1, <3>2, FlushStatusType
    <3> QED
        BY <3>2, <3>3
  <2>4. UNCHANGED approvals
      BY <1>8 DEF ReconStillDraft, ReconSentCopy
  <2>5. CASE ReconStillDraft(w)
      BY <2>3, <2>5, OnceStatus DEF ReconStillDraft
  <2>6. CASE ReconSentCopy(w)
    <3>1. attempts[i].status \in AttemptStatuses
        BY <1>0, <2>1, AttemptRowAt
    <3> HIDE DEF i
    <3>2. \E st \in AttemptStatuses : attempts' = [attempts EXCEPT ![i].status = st]
        BY <2>6, <3>1 DEF ReconSentCopy, AttemptStatuses, i
    <3> QED
        BY <1>c, <2>1, <2>3, <2>4, <3>2
  <2> QED
      BY <1>8, <2>5, <2>6
<1>9. CASE JobFails(w)
  <2>1. draft' = draft \/ draft' = [draft EXCEPT !.status = "SEND_FAILED_REVIEW"]
      BY <1>9 DEF JobFails, SetStatus
  <2>2. draft'.status \in Sendable => draft.status \in Sendable
    <3>1. draft' = [draft EXCEPT !.status = "SEND_FAILED_REVIEW"]
            => draft'.status = "SEND_FAILED_REVIEW"
        BY <1>b DEF DraftStatuses
    <3> QED
        BY <2>1, <3>1 DEF Sendable
  <2> QED
      BY <1>9, <2>2, OnceStatus DEF JobFails
<1> QED
    BY <1>1, <1>2, <1>3, <1>4, <1>5, <1>6, <1>7, <1>8, <1>9 DEF WorkerStep, SendStep, ReconStep

\* A synchronisation withdraws every approval or marks the draft ambiguous.
LEMMA SyncOnce ==
  ASSUME TypeOK, SendOnce, NEW seen \in DraftRows, NEW u, UNCHANGED attempts,
         SyncMissing(seen) \/ MarkNoLongerDraft(seen) \/ SyncImport(seen, u)
  PROVE  SendOnce'
<1>1. CASE SyncMissing(seen) \/ SyncImport(seen, u)
    BY <1>1, OnceInvalidated DEF SyncMissing, SyncImport
<1>2. CASE MarkNoLongerDraft(seen)
  <2>1. "SEND_AMBIGUOUS" \in DraftStatuses /\ "SEND_AMBIGUOUS" \notin Sendable
      BY DEF DraftStatuses, Sendable
  <2>2. draft \in DraftRows
      BY DEF TypeOK
  <2>3. draft'.status = IF "SEND_AMBIGUOUS" # seen.status THEN "SEND_AMBIGUOUS" ELSE draft.status
      BY <1>2, <2>1, <2>2, FlushStatusType DEF MarkNoLongerDraft
  <2> QED
      BY <1>2, <2>1, <2>3, OnceStatus DEF MarkNoLongerDraft
<1> QED
    BY <1>1, <1>2

\* Of the session steps only an approval makes the draft sendable, and it is
\* under a row no attempt can name yet.
LEMMA SessionOnce ==
  ASSUME TypeOK, SendOnce, NEW s \in Sessions, SessionStep(s)
  PROVE  SendOnce'
<1>0. draft \in DraftRows /\ ApprovalsOK /\ AttemptsOK /\ SessionsOK /\ mail \in MailStates
    BY DEF TypeOK
<1> DEFINE seen == us[s].seen
           u == us[s].user
<1>a. us[s].pc # "idle" => seen \in DraftRows /\ u \in Users
    BY <1>0 DEF SessionsOK, SessionOK, SessionStates
<1>1. CASE Refused(s)
    BY <1>1, OnceStatus DEF Refused, dbVars
<1>2. CASE Synchronize(s)
  <2>1. us[s].pc # "idle" /\ UNCHANGED attempts
      BY <1>2 DEF Synchronize
  <2>2. CASE SyncChanged(seen, u)
      BY <1>a, <2>1, <2>2, SyncOnce DEF SyncChanged
  <2>3. CASE UNCHANGED <<draft, approvals, jobs>>
      BY <2>1, <2>3, OnceStatus
  <2> QED
      BY <1>2, <2>2, <2>3 DEF Synchronize
<1>3. CASE Submit(s)
  <2> DEFINE new == [seen EXCEPT !.status = "PENDING_SEND_APPROVAL", !.editor = u]
  <2>1. us[s].pc # "idle" /\ draft' = Flush(seen, new) /\ UNCHANGED <<approvals, attempts>>
      BY <1>3 DEF Submit
  <2>2. new \in DraftRows /\ new.status = "PENDING_SEND_APPROVAL"
      BY <1>a, <2>1 DEF DraftRows, DraftStatuses
  <2> HIDE DEF new
  <2>3. draft'.status \in {"PENDING_SEND_APPROVAL", draft.status}
      BY <1>0, <1>a, <2>1, <2>2, FlushType
  <2> QED
      BY <2>1, <2>3, OnceStatus DEF Sendable
<1>4. CASE Approve(s)
  <2> DEFINE first == ApprovalRow(seen, u, "PENDING_SECOND_APPROVAL")
             row == ApprovalRow(seen, u, "APPROVED")
  <2>1. us[s].pc # "idle" /\ UNCHANGED attempts
      BY <1>4 DEF Approve
  <2>2. /\ first.decision = "PENDING_SECOND_APPROVAL" /\ row.decision = "APPROVED"
        /\ first \in ApprovalRows /\ row \in ApprovalRows
      BY <1>a, <2>1, ApprovalRowType DEF Decisions, LiveDecisions
  <2>3. CASE approvals' = Append(FirstDropped, first) /\ draft' = draft
    <3> HIDE DEF first
    <3>1. /\ FirstDropped \in Seq(ApprovalRows) /\ DOMAIN FirstDropped = DOMAIN approvals
          /\ \A i \in DOMAIN approvals :
               FirstDropped[i].decision = "APPROVED" => approvals[i].decision = "APPROVED"
        BY <1>0, FirstDroppedType DEF ApprovalsOK
    <3>2. \A a \in DOMAIN approvals' : approvals'[a].decision = "APPROVED" => a \in Approved
        BY <2>2, <2>3, <3>1 DEF Approved
    <3> QED
        BY <2>1, <2>3, <3>2, OnceKept
  <2>4. CASE approvals' = Append(approvals, row) /\ Approved = {}
    <3> HIDE DEF row
    <3>1. /\ DOMAIN approvals = 1..Len(approvals) /\ Len(approvals) \in Nat
          /\ DOMAIN approvals' = 1..(Len(approvals) + 1)
          /\ \A i \in 1..Len(approvals) : approvals'[i] = approvals[i]
        BY <1>0, <2>2, <2>4 DEF ApprovalsOK
    <3>2. Approved' \cap DOMAIN approvals = {}
        BY <2>4, <3>1 DEF Approved
    <3>3. \A i \in DOMAIN attempts : attempts[i].approval \in DOMAIN approvals
        BY <1>0 DEF AttemptsOK
    <3> QED
        BY <2>1, <3>2, <3>3 DEF SendOnce
  <2> QED
      BY <1>4, <2>3, <2>4 DEF Approve
<1>5. CASE \E c \in Contents : Edit(s, c)
    BY <1>5, OnceInvalidated DEF Edit
<1>6. CASE PushLocal(s)
  <2>1. us[s].pc # "idle" /\ UNCHANGED attempts
      BY <1>6 DEF PushLocal
  <2>2. CASE MarkNoLongerDraft(seen) \/ SyncImport(seen, u)
      BY <1>a, <2>1, <2>2, SyncOnce
  <2>3. CASE UNCHANGED <<draft, approvals, jobs>>
      BY <2>1, <2>3, OnceStatus
  <2> QED
      BY <1>6, <2>2, <2>3 DEF PushLocal
<1>7. CASE PushConfirm(s)
  <2> DEFINE new == [seen EXCEPT !.key = mail.key]
  <2>1. us[s].pc # "idle" /\ UNCHANGED attempts
      BY <1>7 DEF PushConfirm
  <2>2. CASE MarkNoLongerDraft(seen) \/ SyncImport(seen, u)
      BY <1>a, <2>1, <2>2, SyncOnce
  <2>3. CASE draft' = Flush(seen, new) /\ UNCHANGED approvals
    <3>1. new \in DraftRows /\ new.status = seen.status
        BY <1>0, <1>a, <2>1 DEF DraftRows, MailStates
    <3> HIDE DEF new
    <3>2. draft'.status = draft.status
        BY <1>0, <1>a, <2>1, <2>3, <3>1, FlushType
    <3> QED
        BY <2>1, <2>3, <3>2, OnceStatus
  <2> QED
      BY <1>7, <2>2, <2>3 DEF PushConfirm
<1>8. CASE RejectCancel(s)
  <2>1. draft'.status = "CANCELLED"
      BY <1>0, <1>8, DraftRowType DEF RejectCancel, SetStatus, DraftStatuses
  <2> QED
      BY <1>8, <2>1, OnceStatus DEF RejectCancel, Sendable
<1> QED
    BY <1>1, <1>2, <1>3, <1>4, <1>5, <1>6, <1>7, <1>8 DEF SessionStep

\* The other requests withdraw approvals; queueing needs a sendable draft.
LEMMA RequestOnce ==
  ASSUME TypeOK, SendOnce, Request
  PROVE  SendOnce'
<1>0. draft \in DraftRows /\ ApprovalsOK
    BY DEF TypeOK
<1>1. ASSUME NEW s \in Sessions, NEW u \in Users, NEW op \in SyncOps, Open(s, op, u)
      PROVE  SendOnce'
    BY <1>1, OnceStatus DEF Open, dbVars
<1>2. ASSUME NEW s \in Sessions, NEW u \in Users, Reject(s, u) PROVE SendOnce'
    BY <1>2, OnceInvalidated DEF Reject, InvalidateTo
<1>3. ASSUME NEW u \in Users, NEW dec \in {"REJECTED", "CHANGES_REQUESTED"}, Decline(u, dec)
      PROVE  SendOnce'
  <2> DEFINE row == ApprovalRow(draft, u, dec)
  <2>1. approvals' = Append(Invalidated, row) /\ UNCHANGED attempts
      BY <1>3 DEF Decline
  <2>2. row.decision # "APPROVED"
      BY <1>0, ApprovalRowType DEF Decisions
  <2>3. /\ Invalidated \in Seq(ApprovalRows)
        /\ \A i \in DOMAIN Invalidated : Invalidated[i].decision # "APPROVED"
      BY <1>0, InvalidatedType DEF ApprovalsOK
  <2> HIDE DEF row
  <2>4. Approved' = {}
      BY <2>1, <2>2, <2>3 DEF Approved
  <2> QED
      BY <2>1, <2>4 DEF SendOnce
<1>4. CASE RequestChanges \/ PatchPlan \/ Cancel
    BY <1>4, OnceInvalidated DEF RequestChanges, PatchPlan, Cancel, InvalidateTo
<1>5. CASE EnqueueSend
  <2>1. draft.status \in Sendable /\ UNCHANGED <<approvals, attempts>>
      BY <1>5 DEF EnqueueSend, Sendable
  <2> QED
      BY <2>1, OnceStatus
<1>6. CASE EnqueueReconcile
    BY <1>6, OnceStatus DEF EnqueueReconcile
<1> QED
    BY <1>1, <1>2, <1>3, <1>4, <1>5, <1>6 DEF Request

LEMMA OnceStep == (SendMaxAttempts = 1 /\ TypeOK /\ SendOnce /\ [Next]_vars) => SendOnce'
<1> SUFFICES ASSUME SendMaxAttempts = 1, TypeOK, SendOnce, [Next]_vars PROVE SendOnce'
    OBVIOUS
<1>1. ASSUME NEW w \in Workers, WorkerStep(w) PROVE SendOnce'
    BY <1>1, WorkerOnce
<1>2. ASSUME NEW s \in Sessions, SessionStep(s) PROVE SendOnce'
    BY <1>2, SessionOnce
<1>3. CASE Request
    BY <1>3, RequestOnce
<1>4. CASE LeaseNext \/ FaultNext \/ EnvNext \/ UNCHANGED vars
  <2>1. UNCHANGED <<draft, approvals, attempts>>
      BY <1>4 DEF LeaseNext, LeaseExpires, FaultNext, ExtendLease, Crash, GraphReadError, Dies,
         EnvNext, OutlookEdit, OutlookDeleteOrSend, ExchangeDelivers, vars, dbVars
  <2> QED
      BY <2>1, OnceStatus
<1> QED
    BY <1>1, <1>2, <1>3, <1>4 DEF Next

\* With communication_send_job_max_attempts at its default, every approval is
\* tried at most once, through every interleaving of the send saga, its
\* reconciliation, synchronisation and a second review of the draft.
THEOREM ApprovalUsedOnce == SendMaxAttempts = 1 => (Spec => []SendOnce)
<1> SUFFICES ASSUME SendMaxAttempts = 1 PROVE Spec => []SendOnce
    OBVIOUS
<1>1. Init => SendOnce
    BY DEF Init, SendOnce
<1>2. TypeOK /\ SendOnce /\ [Next]_vars => SendOnce'
    BY OnceStep
<1> QED
    BY <1>1, <1>2, TypeCorrect, PTL DEF Spec

\* With the same default, no send POST follows one under the same approval that
\* may have reached Graph: "ambiguous sends are never replayed".
THEOREM NeverReplayed == SendMaxAttempts = 1 => (Spec => NoReplay)
<1> SUFFICES ASSUME SendMaxAttempts = 1 PROVE Spec => NoReplay
    OBVIOUS
<1> DEFINE Safe == \A i, k \in DOMAIN attempts :
                     /\ attempts[i].wire = "no" /\ attempts'[i].wire # "no"
                     /\ attempts[k].wire = "maybe"
                     => attempts[k].approval # attempts[i].approval
<1>1. SendOnce => Safe
    BY DEF SendOnce
<1>2. SendOnce /\ [Next]_vars => [Safe]_vars
    BY <1>1
<1>3. [][Safe]_vars => NoReplay
    BY DEF NoReplay
<1> HIDE DEF Safe
<1>4. Spec => [][Safe]_vars
    BY <1>2, ApprovalUsedOnce, PTL DEF Spec
<1> QED
    BY <1>3, <1>4

(***************************************************************************)
(* Routing, two-person approval, cancellation                              *)
(***************************************************************************)

\* The source message is routed only when its reply is in Sent Items, which
\* nothing takes it out of.
THEOREM RoutedOnlyWhenSent == Spec => []RoutedImpliesSent
<1>1. Init => RoutedImpliesSent
    BY DEF Init, RoutedImpliesSent
<1>2. ASSUME TypeOK, RoutedImpliesSent, [Next]_vars PROVE RoutedImpliesSent'
  <2>0. mail \in MailStates
      BY <1>2 DEF TypeOK
  <2>1. ASSUME NEW w \in Workers, WorkerStep(w) PROVE RoutedImpliesSent'
    <3>1. CASE SendPost(w)
      <4>1. /\ UNCHANGED moves /\ (mail' = mail \/ mail.state = "draft")
          BY <3>1 DEF SendPost
      <4> QED
          BY <1>2, <4>1 DEF RoutedImpliesSent
    <3>2. CASE ReconSentCopy(w)
        BY <3>2 DEF ReconSentCopy, RoutedImpliesSent
    <3>3. CASE UNCHANGED <<moves, mail>>
        BY <1>2, <3>3 DEF RoutedImpliesSent
    <3> QED
        BY <2>1, <3>1, <3>2, <3>3 DEF WorkerStep, Claim, JobDone, JobFails, SendStep, ReconStep,
           SendAlreadySettled, SendStale, SendNotSafe, SendPreflightFails, SendNoLongerDraft,
           SendIntent, SendRecord, ReconNoAttempt, ReconWindowExhausted, ReconLoad,
           ReconStillDraft, ReconUnverified, Dies, dbVars
  <2>2. ASSUME NEW s \in Sessions, SessionStep(s) PROVE RoutedImpliesSent'
    <3>1. UNCHANGED moves /\ (mail' = mail \/ mail.state = "draft")
        BY <2>2 DEF SessionStep, Refused, Synchronize, Submit, Approve, Edit, PushLocal,
           PushConfirm, RejectCancel, dbVars
    <3> QED
        BY <1>2, <3>1 DEF RoutedImpliesSent
  <2>3. CASE Request \/ LeaseNext \/ FaultNext \/ UNCHANGED vars
    <3>1. UNCHANGED <<moves, mail>>
        BY <2>3 DEF Request, Open, Reject, Decline, RequestChanges, PatchPlan, Cancel,
           EnqueueSend, EnqueueReconcile, LeaseNext, LeaseExpires, FaultNext, ExtendLease,
           Crash, GraphReadError, Dies, dbVars, vars
    <3> QED
        BY <1>2, <3>1 DEF RoutedImpliesSent
  <2>4. CASE EnvNext
    <3>1. /\ UNCHANGED moves
          /\ mail.state \in {"draft", "submitted", "leaving"}
        BY <2>4 DEF EnvNext, OutlookEdit, OutlookDeleteOrSend, ExchangeDelivers, dbVars
    <3> QED
        BY <1>2, <3>1 DEF RoutedImpliesSent
  <2> QED
      BY <1>2, <2>1, <2>2, <2>3, <2>4 DEF Next
<1> QED
    BY <1>1, <1>2, TypeCorrect, PTL DEF Spec

\* Without a live approval there is nothing to ask.
LEMMA TwoInvalidated ==
  ASSUME TypeOK, TwoSenders, approvals' = Invalidated
  PROVE  TwoSenders'
<1>1. approvals \in Seq(ApprovalRows)
    BY DEF TypeOK, ApprovalsOK
<1>2. Approved' = {}
    BY <1>1, InvalidatedType DEF Approved
<1> QED
    BY <1>2 DEF TwoSenders

\* An approval rests on the first approval of the snapshot it covers, which
\* another Sender gave.
LEMMA ApproveTwo ==
  ASSUME TypeOK, TwoSenders, NEW s \in Sessions, Approve(s)
  PROVE  TwoSenders'
<1> DEFINE seen == us[s].seen
           u == us[s].user
           first == ApprovalRow(seen, u, "PENDING_SECOND_APPROVAL")
           row == ApprovalRow(seen, u, "APPROVED")
<1>0. approvals \in Seq(ApprovalRows) /\ DOMAIN approvals = 1..Len(approvals)
      /\ Len(approvals) \in Nat
    BY DEF TypeOK, ApprovalsOK
<1>1. seen \in DraftRows /\ u \in Users
    BY DEF TypeOK, SessionsOK, SessionOK, SessionStates, Approve
<1>2. /\ first \in ApprovalRows /\ first.decision = "PENDING_SECOND_APPROVAL"
      /\ row \in ApprovalRows /\ row.decision = "APPROVED"
      /\ row.snap = Snapshot(seen) /\ row.by = u
    BY <1>1, ApprovalRowType DEF Decisions, LiveDecisions, ApprovalRow
<1>3. CASE approvals' = Append(FirstDropped, first)
  <2>1. /\ FirstDropped \in Seq(ApprovalRows) /\ DOMAIN FirstDropped = DOMAIN approvals
        /\ \A i \in DOMAIN approvals :
             FirstDropped[i].decision = "APPROVED" => approvals[i].decision = "APPROVED"
      BY <1>0, FirstDroppedType
  <2>2. \A i \in DOMAIN approvals : /\ FirstDropped[i].snap = approvals[i].snap
                                    /\ FirstDropped[i].by = approvals[i].by
    <3>1. \A i \in DOMAIN approvals : approvals[i] \in ApprovalRows
        BY <1>0
    <3> QED
        BY <3>1 DEF FirstDropped, ApprovalRows
  <2> HIDE DEF first
  <2>3. /\ DOMAIN approvals' = 1..(Len(approvals) + 1)
        /\ approvals'[Len(approvals) + 1] = first
        /\ \A i \in DOMAIN approvals : approvals'[i] = FirstDropped[i]
      BY <1>0, <1>2, <1>3, <2>1
  <2> SUFFICES ASSUME TwoPerson, NEW i \in DOMAIN approvals', approvals'[i].decision = "APPROVED"
               PROVE  \E k \in 1..(i - 1) : approvals'[k].snap = approvals'[i].snap
                                            /\ approvals'[k].by # approvals'[i].by
      BY DEF TwoSenders, Approved
  <2>4. i \in DOMAIN approvals /\ approvals[i].decision = "APPROVED"
      BY <1>0, <1>2, <2>1, <2>3
  <2>5. PICK k \in 1..(i - 1) : /\ approvals[k].snap = approvals[i].snap
                                /\ approvals[k].by # approvals[i].by
      BY <2>4 DEF TwoSenders, Approved
  <2>6. k \in DOMAIN approvals
      BY <1>0, <2>4
  <2> QED
      BY <2>2, <2>3, <2>4, <2>5, <2>6
<1>4. CASE /\ approvals' = Append(approvals, row) /\ Approved = {} /\ ~NeedsFirst(seen)
           /\ TwoPerson => \A i \in Firsts : approvals[i].by # u
  <2> HIDE DEF row
  <2>1. /\ DOMAIN approvals' = 1..(Len(approvals) + 1)
        /\ approvals'[Len(approvals) + 1] = row
        /\ \A i \in DOMAIN approvals : approvals'[i] = approvals[i]
      BY <1>0, <1>2, <1>4
  <2> SUFFICES ASSUME TwoPerson, NEW i \in DOMAIN approvals', approvals'[i].decision = "APPROVED"
               PROVE  \E k \in 1..(i - 1) : approvals'[k].snap = approvals'[i].snap
                                            /\ approvals'[k].by # approvals'[i].by
      BY DEF TwoSenders, Approved
  <2>2. i = Len(approvals) + 1
      BY <1>0, <1>4, <2>1 DEF Approved
  <2>3. PICK k \in Firsts : approvals[k].snap = Snapshot(seen)
      BY <1>4 DEF NeedsFirst
  <2>4. k \in DOMAIN approvals /\ approvals[k].by # u
      BY <1>4, <2>3 DEF Firsts
  <2>5. k \in 1..(i - 1)
      BY <1>0, <2>2, <2>4
  <2> QED
      BY <1>2, <2>1, <2>2, <2>3, <2>4, <2>5
<1> QED
    BY <1>3, <1>4 DEF Approve

\* In two-person mode a live approval always rests on an earlier one of the same
\* snapshot by another Sender.
THEOREM TwoSendersApprove == Spec => []TwoSenders
<1>1. Init => TwoSenders
    BY DEF Init, TwoSenders, Approved
<1>2. ASSUME TypeOK, TwoSenders, [Next]_vars PROVE TwoSenders'
  <2>1. CASE UNCHANGED approvals
      BY <1>2, <2>1 DEF TwoSenders, Approved
  <2>2. CASE approvals' = Invalidated
      BY <1>2, <2>2, TwoInvalidated
  <2>3. ASSUME NEW w \in Workers, WorkerStep(w) PROVE TwoSenders'
      BY <2>1, <2>2, <2>3 DEF WorkerStep, Claim, JobDone, JobFails, SendStep, ReconStep,
         SendAlreadySettled, SendStale, SendNotSafe, SendPreflightFails, SendNoLongerDraft,
         SendIntent, SendPost, SendRecord, ReconNoAttempt, ReconWindowExhausted, ReconLoad,
         ReconStillDraft, ReconUnverified, ReconSentCopy, Dies, dbVars
  <2>4. ASSUME NEW s \in Sessions, SessionStep(s) PROVE TwoSenders'
      BY <1>2, <2>1, <2>2, <2>4, ApproveTwo DEF SessionStep, Refused, Synchronize, SyncChanged,
         SyncMissing, MarkNoLongerDraft, SyncImport, Submit, Edit, PushLocal, PushConfirm,
         RejectCancel, dbVars
  <2>5. ASSUME NEW u \in Users, NEW dec \in {"REJECTED", "CHANGES_REQUESTED"}, Decline(u, dec)
        PROVE  TwoSenders'
    <3> DEFINE row == ApprovalRow(draft, u, dec)
    <3>1. approvals' = Append(Invalidated, row)
        BY <2>5 DEF Decline
    <3>2. draft \in DraftRows /\ approvals \in Seq(ApprovalRows)
        BY <1>2 DEF TypeOK, ApprovalsOK
    <3>3. row.decision # "APPROVED"
        BY <3>2, ApprovalRowType DEF Decisions
    <3>4. /\ Invalidated \in Seq(ApprovalRows)
          /\ \A i \in DOMAIN Invalidated : Invalidated[i].decision # "APPROVED"
        BY <3>2, InvalidatedType
    <3> HIDE DEF row
    <3>5. Approved' = {}
        BY <3>1, <3>3, <3>4 DEF Approved
    <3> QED
        BY <3>5 DEF TwoSenders
  <2>6. CASE Request
      BY <2>1, <2>2, <2>5, <2>6 DEF Request, Open, Reject, RequestChanges, PatchPlan, Cancel,
         InvalidateTo, EnqueueSend, EnqueueReconcile, dbVars
  <2>7. CASE LeaseNext \/ FaultNext \/ EnvNext \/ UNCHANGED vars
      BY <2>1, <2>7 DEF LeaseNext, LeaseExpires, FaultNext, ExtendLease, Crash, GraphReadError,
         Dies, EnvNext, OutlookEdit, OutlookDeleteOrSend, ExchangeDelivers, dbVars, vars
  <2> QED
      BY <1>2, <2>3, <2>4, <2>6, <2>7 DEF Next
<1> QED
    BY <1>1, <1>2, TypeCorrect, PTL DEF Spec

\* A step that takes no job up and leaves the rows of the jobs held alone.
LEMMA OwnedKept ==
  ASSUME JobsAreOwned,
         \A v \in Workers : wk'[v].pc # "idle" =>
           /\ wk[v].pc # "idle" /\ wk'[v].job = wk[v].job
           /\ jobs'[wk[v].job] = jobs[wk[v].job]
           /\ wk'[v].pc \in {"intent", "posted"} => IsSend(wk[v].job)
  PROVE  JobsAreOwned'
  BY DEF JobsAreOwned, IsSend

\* enqueue does not touch a row that exists.
LEMMA EnqueueKeeps ==
  ASSUME NEW kind, NEW id, Enqueue(kind, id), NEW k \in DOMAIN jobs
  PROVE  jobs'[k] = jobs[k]
  BY DEF Enqueue

\* The steps inside a handler.
LEMMA HandlerOwned ==
  ASSUME TypeOK, JobsAreOwned, NEW w \in Workers, SendStep(w) \/ ReconStep(w)
  PROVE  JobsAreOwned'
<1>0. /\ wk \in [Workers -> WorkerStates]
      /\ \A v \in Workers : wk[v].pc # "idle" => wk[v].job \in DOMAIN jobs
    BY DEF TypeOK, WorkersOK, WorkerOK
<1>1. \A k \in DOMAIN jobs : jobs'[k] = jobs[k]
  <2>1. UNCHANGED jobs \/ \E kind, id : Enqueue(kind, id)
      BY DEF SendStep, ReconStep, SendAlreadySettled, SendStale, SendNotSafe,
         SendPreflightFails, SendNoLongerDraft, SendIntent, SendPost, SendRecord,
         ReconNoAttempt, ReconWindowExhausted, ReconLoad, ReconStillDraft, ReconUnverified,
         ReconSentCopy, Dies, dbVars
  <2> QED
      BY <2>1, EnqueueKeeps
<1>2. wk[w].pc # "idle"
    BY DEF SendStep, ReconStep, SendAlreadySettled, SendStale, SendNotSafe,
       SendPreflightFails, SendNoLongerDraft, SendIntent, SendPost, SendRecord,
       ReconNoAttempt, ReconWindowExhausted, ReconLoad, ReconStillDraft, ReconUnverified,
       ReconSentCopy, Sending, Reconciling
<1>3. CASE wk' = [wk EXCEPT ![w] = IdleWorker]
    BY <1>0, <1>1, <1>3, OwnedKept DEF IdleWorker, JobsAreOwned
<1>4. ASSUME NEW r \in WorkerStates, wk' = [wk EXCEPT ![w] = r], r.job = wk[w].job,
             r.pc \in {"intent", "posted"} => IsSend(wk[w].job)
      PROVE  JobsAreOwned'
    BY <1>0, <1>1, <1>2, <1>4, OwnedKept DEF JobsAreOwned
<1>5. wk[w] \in WorkerStates
    BY <1>0
<1>6. CASE SendAlreadySettled(w) \/ SendStale(w) \/ SendPreflightFails(w)
           \/ SendNoLongerDraft(w) \/ ReconWindowExhausted(w)
  <2>1. PICK pc \in {"done", "failed"} : GoTo(w, pc)
      BY <1>6 DEF SendAlreadySettled, SendStale, SendPreflightFails, SendNoLongerDraft,
         ReconWindowExhausted
  <2> DEFINE r == [wk[w] EXCEPT !.pc = pc]
  <2>2. r \in WorkerStates /\ r.pc = pc /\ r.job = wk[w].job
      BY <1>5 DEF WorkerStates
  <2>3. wk' = [wk EXCEPT ![w] = r]
      BY <2>1 DEF GoTo
  <2> HIDE DEF r
  <2> QED
      BY <1>4, <2>2, <2>3
<1>7. CASE SendNotSafe(w) \/ ReconNoAttempt(w) \/ ReconUnverified(w)
    BY <1>3, <1>7 DEF SendNotSafe, ReconNoAttempt, ReconUnverified, Dies
<1>8. CASE SendIntent(w)
  <2> DEFINE at == Last + 1
             r == [wk[w] EXCEPT !.pc = "intent", !.at = at]
  <2>1. IsSend(wk[w].job) /\ wk' = [wk EXCEPT ![w].pc = "intent", ![w].at = at]
      BY <1>8 DEF SendIntent, Sending
  <2>2. at \in Nat
      BY DEF TypeOK, AttemptsOK, Last
  <2> HIDE DEF at
  <2>3. r \in WorkerStates /\ r.job = wk[w].job
      BY <1>5, <2>2 DEF WorkerStates
  <2>4. wk' = [wk EXCEPT ![w] = r]
      BY <1>0, <2>1
  <2> HIDE DEF r
  <2> QED
      BY <1>4, <2>1, <2>3, <2>4
<1>9. CASE SendPost(w)
  <2>1. PICK out \in Outcomes : wk' = [wk EXCEPT ![w].pc = "posted", ![w].out = out]
      BY <1>9 DEF SendPost
  <2> DEFINE r == [wk[w] EXCEPT !.pc = "posted", !.out = out]
  <2>2. r \in WorkerStates /\ r.job = wk[w].job
      BY <1>5 DEF WorkerStates
  <2>3. wk' = [wk EXCEPT ![w] = r]
      BY <1>0, <2>1
  <2>4. IsSend(wk[w].job)
      BY <1>9 DEF SendPost, JobsAreOwned
  <2> HIDE DEF r
  <2> QED
      BY <1>4, <2>2, <2>3, <2>4
<1>10. CASE SendRecord(w)
  <2>1. wk' = [wk EXCEPT ![w].pc = "done", ![w].out = NULL]
      BY <1>10 DEF SendRecord
  <2> DEFINE r == [wk[w] EXCEPT !.pc = "done", !.out = NULL]
  <2>2. r \in WorkerStates /\ r.job = wk[w].job /\ r.pc = "done"
      BY <1>5 DEF WorkerStates
  <2>3. wk' = [wk EXCEPT ![w] = r]
      BY <1>0, <2>1
  <2> HIDE DEF r
  <2> QED
      BY <1>4, <2>2, <2>3
<1>11. CASE ReconLoad(w)
  <2> DEFINE was == attempts[Last].status
             r == [wk[w] EXCEPT !.pc = "inspect", !.at = Last, !.seen = draft, !.was = was]
  <2>1. wk' = [wk EXCEPT ![w].pc = "inspect", ![w].at = Last, ![w].seen = draft, ![w].was = was]
      BY <1>11 DEF ReconLoad
  <2>2. was \in AttemptStatuses /\ draft \in DraftRows /\ Last \in Nat
    <3>1. Last \in DOMAIN attempts /\ Last \in Nat
        BY <1>11 DEF TypeOK, AttemptsOK, Last, ReconLoad
    <3> QED
        BY <3>1, AttemptRowAt DEF TypeOK
  <2> HIDE DEF was
  <2>3. r \in WorkerStates /\ r.job = wk[w].job /\ r.pc = "inspect"
      BY <1>5, <2>2 DEF WorkerStates
  <2>4. wk' = [wk EXCEPT ![w] = r]
      BY <1>0, <2>1
  <2> HIDE DEF r
  <2> QED
      BY <1>4, <2>3, <2>4
<1>12. CASE ReconStillDraft(w) \/ ReconSentCopy(w)
  <2>1. PICK pc \in {"done", "failed"} :
          wk' = [wk EXCEPT ![w].pc = pc, ![w].seen = NULL, ![w].was = NULL]
      BY <1>12 DEF ReconStillDraft, ReconSentCopy
  <2> DEFINE r == [wk[w] EXCEPT !.pc = pc, !.seen = NULL, !.was = NULL]
  <2>2. r \in WorkerStates /\ r.job = wk[w].job /\ r.pc = pc
      BY <1>5 DEF WorkerStates
  <2>3. wk' = [wk EXCEPT ![w] = r]
      BY <1>0, <2>1
  <2> HIDE DEF r
  <2> QED
      BY <1>4, <2>2, <2>3
<1> QED
    BY <1>6, <1>7, <1>8, <1>9, <1>10, <1>11, <1>12 DEF SendStep, ReconStep

\* Claims, leases and the ends of jobs: a row that is owned is not claimable, and
\* a worker writes only its own.
LEMMA QueueOwned ==
  ASSUME HeartbeatsReliable, TypeOK, JobsAreOwned,
         \/ \E w \in Workers :
              \/ \E k \in DOMAIN jobs : Claim(w, k)
              \/ JobDone(w) \/ JobFails(w) \/ ExtendLease(w) \/ Crash(w) \/ GraphReadError(w)
         \/ \E k \in DOMAIN jobs : LeaseExpires(k)
  PROVE  JobsAreOwned'
<1>0. /\ wk \in [Workers -> WorkerStates] /\ jobs \in [DOMAIN jobs -> JobRows]
      /\ \A v \in Workers : wk[v].pc # "idle" => wk[v].job \in DOMAIN jobs
    BY DEF TypeOK, WorkersOK, WorkerOK, JobsOK
<1>1. ASSUME NEW w \in Workers, NEW k \in DOMAIN jobs, Claim(w, k) PROVE JobsAreOwned'
  <2> DEFINE n == jobs[k].attempts + 1
             row == [status |-> "RUNNING", attempts |-> n, owner |-> w, lease |-> "fresh"]
             r == [IdleWorker EXCEPT !.pc = "claimed", !.job = k, !.n = n]
  <2>1. /\ ClaimableJob(k) /\ wk[w].pc = "idle"
        /\ jobs' = [jobs EXCEPT ![k] = row] /\ wk' = [wk EXCEPT ![w] = r]
      BY <1>1 DEF Claim
  <2>2. \A v \in Workers : wk[v].pc # "idle" => wk[v].job # k
      BY <2>1 DEF ClaimableJob, JobsAreOwned
  <2> HIDE DEF n
  <2>3. r.pc = "claimed" /\ r.job = k
      BY DEF IdleWorker
  <2>4. row.status = "RUNNING" /\ row.owner = w /\ row.lease = "fresh"
      OBVIOUS
  <2> HIDE DEF row, r
  <2>5. jobs'[k] = row /\ wk'[w] = r
      BY <1>0, <2>1
  <2>6. \A v \in Workers \ {w} : wk'[v] = wk[v] /\ (wk[v].pc # "idle" =>
                                     jobs'[wk[v].job] = jobs[wk[v].job])
      BY <1>0, <2>1, <2>2
  <2> QED
      BY <2>3, <2>4, <2>5, <2>6 DEF JobsAreOwned
<1>2. ASSUME NEW w \in Workers, NEW st, wk[w].pc # "idle", Release(w, st) PROVE JobsAreOwned'
  <2>1. /\ wk' = [wk EXCEPT ![w] = IdleWorker] /\ IdleWorker.pc = "idle"
        /\ \A k \in DOMAIN jobs : k # wk[w].job => jobs'[k] = jobs[k]
      BY <1>2 DEF Release, IdleWorker
  <2>2. \A v \in Workers \ {w} : wk[v].pc # "idle" => wk[v].job # wk[w].job
      BY <1>2 DEF JobsAreOwned
  <2> QED
      BY <1>0, <2>1, <2>2, OwnedKept DEF JobsAreOwned
<1>3. ASSUME NEW w \in Workers, JobDone(w) \/ JobFails(w) PROVE JobsAreOwned'
    BY <1>2, <1>3 DEF JobDone, JobFails
<1>4. ASSUME NEW w \in Workers, ExtendLease(w) PROVE JobsAreOwned'
    BY <1>4 DEF ExtendLease, JobsAreOwned
<1>5. ASSUME NEW w \in Workers, Crash(w) \/ GraphReadError(w) PROVE JobsAreOwned'
  <2>1. wk' = [wk EXCEPT ![w] = IdleWorker] /\ IdleWorker.pc = "idle" /\ UNCHANGED jobs
      BY <1>5 DEF Crash, GraphReadError, Dies, IdleWorker, dbVars
  <2> QED
      BY <1>0, <2>1, OwnedKept DEF JobsAreOwned
<1>6. ASSUME NEW k \in DOMAIN jobs, LeaseExpires(k) PROVE JobsAreOwned'
  <2>1. /\ ~Held(k) /\ UNCHANGED wk
        /\ \A j \in DOMAIN jobs : j # k => jobs'[j] = jobs[j]
      BY <1>6 DEF LeaseExpires
  <2> QED
      BY <1>0, <2>1, OwnedKept DEF Held, JobsAreOwned
<1> QED
    BY <1>1, <1>3, <1>4, <1>5, <1>6

\* Requests and Outlook never write the row of a job that is held.
LEMMA OthersOwned ==
  ASSUME TypeOK, JobsAreOwned,
         \/ \E s \in Sessions : SessionStep(s)
         \/ Request \/ EnvNext \/ UNCHANGED vars
  PROVE  JobsAreOwned'
<1>0. \A v \in Workers : wk[v].pc # "idle" => wk[v].job \in DOMAIN jobs
    BY DEF TypeOK, WorkersOK, WorkerOK
<1>1. UNCHANGED wk
    BY DEF SessionStep, Refused, Synchronize, Submit, Approve, Edit, PushLocal, PushConfirm,
       RejectCancel, Request, Open, Reject, Decline, RequestChanges, PatchPlan, Cancel,
       EnqueueSend, EnqueueReconcile, EnvNext, OutlookEdit, OutlookDeleteOrSend,
       ExchangeDelivers, dbVars, vars
<1>2. CASE UNCHANGED jobs \/ \E kind, id : Enqueue(kind, id)
  <2>1. \A k \in DOMAIN jobs : jobs'[k] = jobs[k]
      BY <1>2, EnqueueKeeps
  <2> QED
      BY <1>0, <1>1, <2>1, OwnedKept DEF JobsAreOwned
<1>3. CASE Cancel
  <2>1. \A k \in DOMAIN jobs : jobs[k].status = "RUNNING" => jobs'[k] = jobs[k]
      BY <1>3 DEF Cancel
  <2> QED
      BY <1>0, <1>1, <2>1, OwnedKept DEF JobsAreOwned
<1> QED
    BY <1>2, <1>3, ZenonT(40) DEF SessionStep, Refused, Synchronize, SyncChanged, SyncMissing,
       MarkNoLongerDraft, SyncImport, Submit, Approve, Edit, PushLocal, PushConfirm,
       RejectCancel, Request, Open, Reject, Decline, RequestChanges, PatchPlan,
       EnqueueSend, EnqueueReconcile, EnvNext, OutlookEdit, OutlookDeleteOrSend,
       ExchangeDelivers, dbVars, vars

\* If the lease of a live handler never lapses, a worker with a communication job
\* owns its row until it has recorded the outcome.
THEOREM OwnersKeepJobs == HeartbeatsReliable => (Spec => []JobsAreOwned)
<1> SUFFICES ASSUME HeartbeatsReliable PROVE Spec => []JobsAreOwned
    OBVIOUS
<1>1. Init => JobsAreOwned
    BY DEF Init, JobsAreOwned, IdleWorker
<1>2. ASSUME TypeOK, JobsAreOwned, [Next]_vars PROVE JobsAreOwned'
    BY <1>2, HandlerOwned, QueueOwned, OthersOwned DEF Next, WorkerStep, LeaseNext, FaultNext
<1> QED
    BY <1>1, <1>2, TypeCorrect, PTL DEF Spec

\* Under the same assumption cancel_unsent never succeeds while a worker is
\* between its intent and the recorded outcome.
THEOREM CancelIsSafe == HeartbeatsReliable => (Spec => CancelFailsClosed)
<1> SUFFICES ASSUME HeartbeatsReliable PROVE Spec => CancelFailsClosed
    OBVIOUS
<1> DEFINE Safe == Cancel => \A w \in Workers : wk[w].pc \notin {"intent", "posted"}
<1>1. TypeOK /\ JobsAreOwned => Safe
  <2> SUFFICES ASSUME TypeOK, JobsAreOwned, Cancel, NEW w \in Workers,
                      wk[w].pc \in {"intent", "posted"}
               PROVE  FALSE
      OBVIOUS
  <2>1. wk[w].job \in OpenSendJobs /\ jobs[wk[w].job].status = "RUNNING"
      BY DEF TypeOK, WorkersOK, WorkerOK, JobsAreOwned, OpenSendJobs
  <2> QED
      BY <2>1 DEF Cancel
<1>2. TypeOK /\ JobsAreOwned /\ [Next]_vars => [Safe]_vars
    BY <1>1
<1>3. [][Safe]_vars => CancelFailsClosed
    BY DEF CancelFailsClosed
<1> HIDE DEF Safe
<1>4. Spec => [][Safe]_vars
    BY <1>2, OwnersKeepJobs, TypeCorrect, PTL DEF Spec
<1> QED
    BY <1>3, <1>4
=============================================================================
