---------------------------- MODULE PortalSession ----------------------------
(***************************************************************************)
(* The browser sessions of one portal run: app/services/                   *)
(* portal_session_service.py, the portal job queue                         *)
(* (app/repositories/portal_jobs.py), the browser worker                   *)
(* (app/workers/portal_jobs.py), its registry of live browsers             *)
(* (app/browser/sessions.py) and the scheduler's part 5.                   *)
(*                                                                         *)
(* A request is one transaction and one action. A job of the worker is     *)
(* claimed, its context checked, the page handled, the job marked: each is *)
(* a commit of its own, and what others commit in between is overwritten,  *)
(* as in the code. A session's lifetime may end at any moment. What the    *)
(* pages mean for the filing is module PortalRun's part.                   *)
(***************************************************************************)
EXTENDS Naturals, FiniteSets

CONSTANTS
  MaxSessions,      \* bound: browser sessions of the run
  MaxPortalFaults   \* bound: crashes, failed browser calls, withdrawn reviews

ASSUME SessionAssumption == MaxSessions \in Nat /\ MaxPortalFaults \in Nat

VARIABLES
  srun,       \* portal_runs.status
  bs,         \* browser_sessions rows, with the worker's live context
  login,      \* the latest browser-bound handoff: login, terms, MFA, CAPTCHA, unexpected page
  pjobs,      \* portal_jobs by idempotency key
  work,       \* payload of the job with a fresh key
  pw,         \* the browser worker's current job
  governed,   \* revalidate_governance passes for the pinned review and adapter
  pFaults

sessionVars == <<srun, bs, login, pjobs, work, pw, governed, pFaults>>

Sessions == 1..MaxSessions
ActiveSession == {"REQUESTED", "STARTING", "ACTIVE_AUTOMATION", "ACTIVE_HUMAN_CONTROL", "PAUSED"}
\* live: the worker holds its browser; mine: worker_id is that worker's.
SessionRows == [status : ActiveSession \cup {"NONE", "EXPIRED", "CLOSED"}, live : BOOLEAN,
                mine : BOOLEAN]
OpenHandoff == {"REQUESTED", "ACTIVE"}
LoginRows == [status : OpenHandoff \cup {"NONE", "COMPLETED", "DECLINED"}, session : 0..MaxSessions]
\* OPEN stands for the statuses no guard of a session tells apart.
TerminalRun == {"CANCELLED", "SUBMITTED"}
SessionRunStatuses == TerminalRun \cup {"READY", "WAITING_OPERATOR", "OPEN", "BLOCKED"}
JobKeys == ({"START", "CLOSE", "CLOSE_OWNER"} \X Sessions) \cup {<<"WORK", 0>>}
\* WAITING is PENDING or FAILED_RETRYABLE. ENDED stands for COMPLETED, WAITING_HUMAN,
\* FAILED_REVIEW and CANCELLED, which nothing reads again: what is left of the row is its key.
JobActive == {"WAITING", "RUNNING"}
PortalJobRows == [status : JobActive \cup {"NONE", "ENDED"}, attempts : 0..(3 + MaxPortalFaults)]
NoPortalJob == [status |-> "NONE", attempts |-> 0]
EndedJob == [status |-> "ENDED", attempts |-> 0]
WaitingJob == [status |-> "WAITING", attempts |-> 0]
\* EDIT stands for ENTER_FIELDS, UPLOAD_DOCUMENTS and RUN_PORTAL_VALIDATION.
WorkTypes == {"NAVIGATE", "EDIT", "RECONCILE"}
WorkRows == [type : WorkTypes \cup {"-"}, session : 0..MaxSessions, reported : BOOLEAN]
NoWork == [type |-> "-", session |-> 0, reported |-> FALSE]
IdleWorker == [pc |-> "idle", job |-> <<"-", 0>>]

\* Rows keep their types, and a browser the worker holds belongs to a session that names the
\* worker: else the worker's own expiry would never find it.
SessionTypeOK ==
  /\ srun \in SessionRunStatuses /\ bs \in [Sessions -> SessionRows] /\ login \in LoginRows
  /\ pjobs \in [JobKeys -> PortalJobRows] /\ work \in WorkRows
  /\ pw = IdleWorker \/ pw \in [pc : {"claimed", "browser", "page", "done"}, job : JobKeys]
  /\ governed \in BOOLEAN /\ pFaults \in 0..MaxPortalFaults
  /\ \A s \in Sessions : bs[s].live => bs[s].mine

SessionInit ==
  /\ srun = "READY"
  /\ bs = [s \in Sessions |-> [status |-> "NONE", live |-> FALSE, mine |-> FALSE]]
  /\ login = [status |-> "NONE", session |-> 0]
  /\ pjobs = [k \in JobKeys |-> NoPortalJob] /\ work = NoWork
  /\ pw = IdleWorker /\ governed = TRUE /\ pFaults = 0
-----------------------------------------------------------------------------
Current == {s \in Sessions : bs[s].status \in ActiveSession}
MaxAttemptsOf(k) == CASE k[1] \in {"START", "CLOSE"} -> 3
                      [] k[1] = "WORK" /\ work.type # "RECONCILE" -> 2
                      [] OTHER -> 1

\* PortalJobRepository.enqueue: one row per idempotency key, whatever its status.
PortalEnqueue(js, k) == IF js[k].status = "NONE" THEN [js EXCEPT ![k] = WaitingJob] ELSE js

\* A job whose key holds a fresh uuid; the model follows one at a time and forgets it once over.
EndOf(k) == IF k[1] = "WORK" THEN NoPortalJob ELSE EndedJob
WorkAfter(js) == IF js[<<"WORK", 0>>] = NoPortalJob THEN NoWork ELSE work
EnqueueWork(type, s, reported) ==
  /\ pjobs[<<"WORK", 0>>] = NoPortalJob
  /\ pjobs' = [pjobs EXCEPT ![<<"WORK", 0>>] = WaitingJob]
  /\ work' = [type |-> type, session |-> s, reported |-> reported]

LoginOpen == login.status \in OpenHandoff
-----------------------------------------------------------------------------
\* Requests on the run.
SStartRun ==
  /\ srun = "READY" /\ governed /\ srun' = "WAITING_OPERATOR"
  /\ UNCHANGED <<bs, login, pjobs, work, pw, governed, pFaults>>

SPause ==
  /\ srun \notin TerminalRun /\ srun' = "BLOCKED"
  /\ UNCHANGED <<bs, login, pjobs, work, pw, governed, pFaults>>

SResume ==
  /\ srun = "BLOCKED" /\ governed
  /\ \/ Current = {} /\ srun' = "WAITING_OPERATOR" /\ UNCHANGED <<pjobs, work>>
     \/ \E s \in Current : EnqueueWork("RECONCILE", s, FALSE) /\ srun' = "OPEN"
  /\ UNCHANGED <<bs, login, pw, governed, pFaults>>

\* cancel: waiting jobs are cancelled, a running one is not; active sessions get a close job.
SCancel ==
  /\ srun \notin TerminalRun /\ srun' = "CANCELLED"
  /\ pjobs' = [k \in JobKeys |->
       CASE pjobs[k].status = "WAITING" -> EndOf(k)
         [] k[1] = "CLOSE" /\ k[2] \in Current /\ pjobs[k].status = "NONE" -> WaitingJob
         [] OTHER -> pjobs[k]]
  /\ work' = WorkAfter(pjobs')
  /\ UNCHANGED <<bs, login, pw, governed, pFaults>>

\* request_session: an active session is returned as it is.
SRequestSession(s) ==
  /\ governed /\ srun = "WAITING_OPERATOR" /\ Current = {}
  /\ bs[s].status = "NONE" /\ \A r \in 1..(s - 1) : bs[r].status # "NONE"
  /\ bs' = [bs EXCEPT ![s].status = "REQUESTED"]
  /\ pjobs' = PortalEnqueue(pjobs, <<"START", s>>)
  /\ UNCHANGED <<srun, login, work, pw, governed, pFaults>>

STakeControl(s) ==
  /\ bs[s].status = "ACTIVE_AUTOMATION"
  /\ bs' = [bs EXCEPT ![s].status = "ACTIVE_HUMAN_CONTROL"]
  /\ UNCHANGED <<srun, login, pjobs, work, pw, governed, pFaults>>

SReturnControl(s) ==
  /\ bs[s].status = "ACTIVE_HUMAN_CONTROL" /\ ~(LoginOpen /\ login.session = s)
  /\ bs' = [bs EXCEPT ![s].status = "ACTIVE_AUTOMATION"]
  /\ UNCHANGED <<srun, login, pjobs, work, pw, governed, pFaults>>

SCloseSession(s) ==
  /\ s \in Current
  /\ bs' = [bs EXCEPT ![s].status = "PAUSED"]
  /\ pjobs' = PortalEnqueue(pjobs, <<"CLOSE", s>>)
  /\ srun' = IF srun \in TerminalRun THEN srun ELSE "WAITING_OPERATOR"
  /\ UNCHANGED <<login, work, pw, governed, pFaults>>

\* queue_navigation, queue_field_entry, queue_document_upload, queue_validation: the run's
\* status is not a condition, not even a terminal one.
SQueueWork(type, s) ==
  /\ governed /\ s \in Current /\ type # "RECONCILE" /\ EnqueueWork(type, s, FALSE)
  /\ srun' \in IF type = "EDIT" THEN {"OPEN", srun} ELSE {srun}
  /\ UNCHANGED <<bs, login, pw, governed, pFaults>>

\* accept_handoff takes the session over whatever its status is.
SAcceptHandoff ==
  /\ login.status = "REQUESTED"
  /\ login' = [login EXCEPT !.status = "ACTIVE"]
  /\ bs' = [bs EXCEPT ![login.session].status = "ACTIVE_HUMAN_CONTROL"]
  /\ UNCHANGED <<srun, pjobs, work, pw, governed, pFaults>>

SDeclineHandoff ==
  /\ LoginOpen /\ login' = [login EXCEPT !.status = "DECLINED"] /\ srun' = "BLOCKED"
  /\ UNCHANGED <<bs, pjobs, work, pw, governed, pFaults>>

\* request_handoff_completion: the handoff stays ACTIVE until the worker has seen the page.
SHandoffDone ==
  /\ login.status = "ACTIVE" /\ EnqueueWork("RECONCILE", login.session, TRUE)
  /\ UNCHANGED <<srun, bs, login, pw, governed, pFaults>>
-----------------------------------------------------------------------------
\* The browser worker.
Kind == IF pw.job[1] = "WORK" THEN work.type ELSE pw.job[1]
TheSession == IF pw.job[1] = "WORK" THEN work.session ELSE pw.job[2]
WorkerAt(pc) == pw' = [pw EXCEPT !.pc = pc]
IsClose == Kind \in {"CLOSE", "CLOSE_OWNER"}

\* claim_next: attempts are counted, not limited.
WClaim(k) ==
  /\ pw = IdleWorker /\ pjobs[k].status = "WAITING"
  /\ pjobs' = [pjobs EXCEPT ![k].status = "RUNNING", ![k].attempts = @ + 1]
  /\ pw' = [pc |-> "claimed", job |-> k]
  /\ UNCHANGED <<srun, bs, login, work, governed, pFaults>>

\* A StateConflictError: rollback, record_failure without retry, _fail_run_review on whatever
\* status the run has.
Conflict ==
  /\ pjobs' = [pjobs EXCEPT ![pw.job] = EndOf(pw.job)] /\ work' = WorkAfter(pjobs')
  /\ srun' = "OPEN" /\ pw' = IdleWorker
  /\ UNCHANGED <<login, governed, pFaults>>

\* A browser or OS error: retried up to max_attempts, except for the two read-only jobs. A
\* session start may fail with the browser up.
WBrowserError ==
  /\ pw.pc \in {"browser", "page"} /\ pFaults < MaxPortalFaults /\ pFaults' = pFaults + 1
  /\ pjobs' = [pjobs EXCEPT ![pw.job] =
       IF Kind # "RECONCILE" /\ pjobs[pw.job].attempts < MaxAttemptsOf(pw.job)
       THEN [@ EXCEPT !.status = "WAITING"] ELSE EndOf(pw.job)]
  /\ work' = WorkAfter(pjobs')
  /\ \/ UNCHANGED bs
     \/ Kind = "START" /\ bs' = [bs EXCEPT ![TheSession].live = TRUE]
  /\ pw' = IdleWorker
  /\ UNCHANGED <<srun, login, governed>>

\* _active_context; for START the checks of _start_session and its first commit, which names
\* this worker.
WContext ==
  /\ pw.pc = "claimed" /\ ~IsClose /\ governed
  /\ IF Kind = "START"
     THEN /\ bs' = [bs EXCEPT ![TheSession].status = "STARTING", ![TheSession].mine = TRUE]
          /\ WorkerAt("browser")
     ELSE TheSession # 0 /\ bs[TheSession].live /\ WorkerAt("page") /\ UNCHANGED bs
  /\ UNCHANGED <<srun, login, pjobs, work, governed, pFaults>>

\* Governance withdrawn, the browser not in this worker, or the session's lifetime over.
WContextFails ==
  /\ pw.pc = "claimed" /\ ~IsClose /\ (governed => Kind # "START") /\ Conflict /\ UNCHANGED bs

\* _close_session.
WClose ==
  /\ pw.pc = "claimed" /\ IsClose /\ WorkerAt("done")
  /\ bs' = [bs EXCEPT ![TheSession].status = "CLOSED", ![TheSession].live = FALSE]
  /\ UNCHANGED <<srun, login, pjobs, work, governed, pFaults>>

\* create_handoff for a page that needs the operator: an open handoff of the type is kept.
RequestLogin(s, h) == IF h.status \in OpenHandoff THEN h ELSE [status |-> "REQUESTED", session |-> s]

\* _start_session once the browser is up: automation, or a page that needs the operator.
WStarted ==
  /\ pw.pc = "browser" /\ ~bs[TheSession].live /\ srun' = "OPEN" /\ WorkerAt("done")
  /\ LET up == [bs EXCEPT ![TheSession].live = TRUE]
         on == [up EXCEPT ![TheSession].status = "ACTIVE_AUTOMATION"]
     IN  \/ bs' = on /\ UNCHANGED login
         \/ governed /\ bs' \in {up, on} /\ login' = RequestLogin(TheSession, login)
  /\ UNCHANGED <<pjobs, work, governed, pFaults>>

\* BrowserSessionRegistry.start refuses a session it already holds.
WStartRefused == pw.pc = "browser" /\ bs[TheSession].live /\ Conflict /\ UNCHANGED bs
-----------------------------------------------------------------------------
\* _reconcile, also the end of NAVIGATE_PORTAL. First the reported handoff is verified.
IsReconcile == pw.pc = "page" /\ Kind \in {"RECONCILE", "NAVIGATE"}
LoginVerified == IF work.reported THEN [login EXCEPT !.status = "COMPLETED"] ELSE login
SessionsVerified ==
  IF work.reported THEN [bs EXCEPT ![TheSession].status = "ACTIVE_AUTOMATION"] ELSE bs

\* The page still shows the step or differs from what was reported.
WPageMismatch == IsReconcile /\ Conflict /\ UNCHANGED bs

WPlainPage ==
  /\ IsReconcile /\ WorkerAt("done") /\ login' = LoginVerified /\ bs' = SessionsVerified
  /\ srun' = IF work.reported THEN "OPEN" ELSE srun
  /\ UNCHANGED <<pjobs, work, governed, pFaults>>

\* A page that needs the operator again, of another type than the one verified.
WOperatorPage ==
  /\ IsReconcile /\ governed /\ WorkerAt("done") /\ srun' = "OPEN" /\ bs' = SessionsVerified
  /\ login' = RequestLogin(TheSession, LoginVerified)
  /\ UNCHANGED <<pjobs, work, governed, pFaults>>

\* An attestation, signature or payment page of another person: create_handoff pauses the
\* operator's session and queues its close.
WForeignPage ==
  /\ IsReconcile /\ governed /\ WorkerAt("done") /\ srun' = "OPEN" /\ login' = LoginVerified
  /\ bs' = [SessionsVerified EXCEPT ![TheSession].status = "PAUSED"]
  /\ pjobs' = PortalEnqueue(pjobs, <<"CLOSE_OWNER", TheSession>>)
  /\ UNCHANGED <<work, governed, pFaults>>

\* Entry, upload and validation write the run's status whatever it has become.
WEdit ==
  /\ pw.pc = "page" /\ Kind = "EDIT" /\ srun' = "OPEN" /\ WorkerAt("done")
  /\ UNCHANGED <<bs, login, pjobs, work, governed, pFaults>>

WEditRefused == pw.pc = "page" /\ Kind = "EDIT" /\ Conflict /\ UNCHANGED bs

\* The governance check of create_handoff fails after the context's passed.
WHandoffRefused ==
  /\ ~governed /\ (IsReconcile \/ pw.pc = "browser") /\ Conflict
  /\ bs' = IF Kind = "START" THEN [bs EXCEPT ![TheSession].live = TRUE] ELSE bs

\* mark_completed, mark_waiting_human: a commit of their own.
WMark ==
  /\ pw.pc = "done" /\ pw' = IdleWorker
  /\ pjobs' = [pjobs EXCEPT ![pw.job] = EndOf(pw.job)] /\ work' = WorkAfter(pjobs')
  /\ UNCHANGED <<srun, bs, login, governed, pFaults>>

\* The worker process ends: its browsers and its registry end with it.
WCrash ==
  /\ pw # IdleWorker \/ \E s \in Sessions : bs[s].mine
  /\ pFaults < MaxPortalFaults /\ pFaults' = pFaults + 1
  /\ pw' = IdleWorker
  /\ bs' = [s \in Sessions |-> [bs[s] EXCEPT !.live = FALSE, !.mine = FALSE]]
  /\ UNCHANGED <<srun, login, pjobs, work, governed>>
-----------------------------------------------------------------------------
\* PortalBrowserWorker._expire_sessions, between two jobs.
WExpireSession(s) ==
  /\ pw = IdleWorker /\ bs[s].mine
  /\ bs[s].status \in {"ACTIVE_AUTOMATION", "ACTIVE_HUMAN_CONTROL", "PAUSED"}
  /\ bs' = [bs EXCEPT ![s].status = "EXPIRED", ![s].live = FALSE]
  /\ srun' = IF srun = "SUBMITTED" THEN srun ELSE "BLOCKED"
  /\ UNCHANGED <<login, pjobs, work, pw, governed, pFaults>>

ScheduledExpiryForgets(s) ==
  /\ s \in Current /\ bs' = [bs EXCEPT ![s].status = "EXPIRED"]
  /\ UNCHANGED <<srun, login, pjobs, work, pw, governed, pFaults>>

\* run_scheduler_cycle, part 5: expired sessions get a close job, expired leases are recovered
\* whatever their attempts.
ScheduledExpiry(s) ==
  /\ s \in Current /\ bs' = [bs EXCEPT ![s].status = "EXPIRED"]
  /\ pjobs' = PortalEnqueue(pjobs, <<"CLOSE", s>>)
  /\ UNCHANGED <<srun, login, work, pw, governed, pFaults>>

RecoverWithinLimit(k) ==
  /\ pjobs[k].status = "RUNNING" /\ pw.job # k /\ pjobs[k].attempts < MaxAttemptsOf(k)
  /\ pjobs' = [pjobs EXCEPT ![k].status = "WAITING"]
  /\ UNCHANGED <<srun, bs, login, work, pw, governed, pFaults>>

RecoverPortalLease(k) ==
  /\ pjobs[k].status = "RUNNING" /\ pw.job # k
  /\ pjobs' = [pjobs EXCEPT ![k].status = "WAITING"]
  /\ UNCHANGED <<srun, bs, login, work, pw, governed, pFaults>>

\* The pinned review or adapter is withdrawn; on expiry the scheduler fails the run too.
GovernanceWithdrawn ==
  /\ governed /\ governed' = FALSE
  /\ pFaults < MaxPortalFaults /\ pFaults' = pFaults + 1
  /\ srun' \in {srun, IF srun \in TerminalRun THEN srun ELSE "OPEN"}
  /\ UNCHANGED <<bs, login, pjobs, work, pw>>

\* capture_submission_result, seen from the sessions.
RunIsSubmitted ==
  /\ srun = "OPEN" /\ srun' = "SUBMITTED"
  /\ UNCHANGED <<bs, login, pjobs, work, pw, governed, pFaults>>
-----------------------------------------------------------------------------
SessionRequests ==
  \/ SStartRun \/ SPause \/ SResume \/ SCancel \/ RunIsSubmitted
  \/ SAcceptHandoff \/ SDeclineHandoff \/ SHandoffDone
  \/ \E s \in Sessions : \/ SRequestSession(s) \/ STakeControl(s) \/ SReturnControl(s)
                         \/ SCloseSession(s) \/ \E type \in WorkTypes : SQueueWork(type, s)

WorkerSteps ==
  \/ WContext \/ WContextFails \/ WClose \/ WStarted \/ WStartRefused
  \/ WPageMismatch \/ WPlainPage \/ WOperatorPage \/ WForeignPage
  \/ WEdit \/ WEditRefused \/ WHandoffRefused \/ WMark

SessionNext ==
  \/ SessionRequests \/ WorkerSteps \/ (\E k \in JobKeys : WClaim(k))
  \/ WBrowserError \/ WCrash \/ GovernanceWithdrawn
  \/ \E s \in Sessions : WExpireSession(s) \/ ScheduledExpiry(s)
  \/ \E k \in JobKeys : RecoverPortalLease(k)

\* The worker's loop and the scheduler's keep running, claims go by availability, and time
\* passes for every session.
SessionFairness ==
  /\ WF_sessionVars(WorkerSteps)
  /\ \A k \in JobKeys : SF_sessionVars(WClaim(k)) /\ WF_sessionVars(RecoverPortalLease(k))
  /\ \A s \in Sessions : WF_sessionVars(ScheduledExpiry(s))

SessionSpec == SessionInit /\ [][SessionNext]_sessionVars /\ SessionFairness
-----------------------------------------------------------------------------
\* Every navigation, entry or reconciliation job comes to an end, also when the worker died in
\* its last attempt: the queue's recovery does not stop at max_attempts.
PortalJobsEnd == pjobs[<<"WORK", 0>>] # NoPortalJob ~> pjobs[<<"WORK", 0>>] = NoPortalJob

CloseUsed(s) == pjobs[<<"CLOSE", s>>] = EndedJob

\* A browser the worker holds is closed in the end, by the worker's expiry, by a person or by
\* the scheduler's close job, unless the session's one close job was used up before.
BrowserIsClosed == \A s \in Sessions : bs[s].live ~> (~bs[s].live \/ CloseUsed(s))
=============================================================================
