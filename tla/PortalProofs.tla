----------------------------- MODULE PortalProofs -----------------------------
(***************************************************************************)
(* Safety of portal assistance for every number of sessions, handoffs and  *)
(* faults: the filing of a run and the browser sessions beside it.         *)
(***************************************************************************)
EXTENDS MCPortal, TLAPS

USE PortalRunAssumption, SessionAssumption
-----------------------------------------------------------------------------
(* The filing of a run.                                                    *)

RunInv == PortalTypeOK /\ SubmittedOnce

LEMMA RunInvInit == PortalInit => RunInv
<1> SUFFICES ASSUME PortalInit PROVE RunInv
    OBVIOUS
<1>1. snap \in SnapshotRows /\ fin \in FinalRows /\ edit \in EditRows
    BY DEF PortalInit, SnapshotRows, FinalRows, EditRows, NoEdit, RunJobStatus
<1>2. clean \in BOOLEAN
    BY DEF PortalInit
<1>3. evid = 0 /\ rFaults = 0 /\ rFaults \in 0..MaxRunFaults
    BY DEF PortalInit
<1> QED
    BY <1>1, <1>2, <1>3 DEF PortalInit, RunInv, PortalTypeOK, SubmittedOnce, RunStatuses, AttestStatuses,
                PaymentStatuses, RunJobStatus

\* The records a step may leave behind.
LEMMA EditedRows ==
  ASSUME RunInv
  PROVE  /\ \A b \in BOOLEAN : [snap EXCEPT !.approved = b] \in SnapshotRows
         /\ \A s \in {"READY_FOR_REVIEW", "DECIDED"} : [snap EXCEPT !.latest = s] \in SnapshotRows
         /\ \A s \in {"ACTIVE", "COMPLETED", "DECLINED"} :
              [fin EXCEPT !.status = s] \in FinalRows /\ [fin EXCEPT !.status = s].status = s
         /\ \A s \in RunJobStatus : [edit EXCEPT !.status = s] \in EditRows
         /\ NoEdit \in EditRows
BY DEF RunInv, PortalTypeOK, SnapshotRows, FinalRows, EditRows, RunJobStatus, NoEdit

\* Requests on the run and its snapshots leave the evidence and the case alone.
LEMMA RunRequestsKeep == ASSUME RunInv, RunRequests PROVE RunInv'
<1> USE DEF RunInv, PortalTypeOK, SubmittedOnce, RunStatuses, AttestStatuses, PaymentStatuses, RunJobStatus
<1>1. CASE PUpdate
    BY <1>1, EditedRows DEF PUpdate, InvalidateSnapshot
<1>2. CASE PCancel
    BY <1>2, EditedRows DEF PCancel
<1>3. CASE PObserveField
    BY <1>3, EditedRows, ZenonT(40) DEF PObserveField, InvalidateSnapshot, StatusAfterInvalidation
<1>4. CASE PQueueFieldEntry \/ PQueueDocumentUpload \/ PQueueValidation \/ PQueueNavigation
  <2>1. edit' \in EditRows
      BY <1>4 DEF PQueueFieldEntry, PQueueDocumentUpload, PQueueValidation, PQueueNavigation, PQueue, EditRows
  <2> QED
      BY <1>4, <2>1 DEF PQueueFieldEntry, PQueueDocumentUpload, PQueueValidation, PQueueNavigation, PQueue
<1>5. CASE PCreateSnapshot
    BY <1>5, EditedRows DEF PCreateSnapshot
<1>6. CASE PApproveSnapshot
    BY <1>6 DEF PApproveSnapshot, SnapshotRows
<1>7. CASE PRejectSnapshot
    BY <1>7, EditedRows DEF PRejectSnapshot
<1>8. CASE PAcceptHandoff
    BY <1>8, EditedRows DEF PAcceptHandoff
<1>9. CASE PDeclineHandoff
    BY <1>9, EditedRows DEF PDeclineHandoff
<1> QED
    BY <1>1, <1>2, <1>3, <1>4, <1>5, <1>6, <1>7, <1>8, <1>9 DEF RunRequests

\* A new handoff is typed and has no capture job yet.
LEMMA FinalHandoffTyped ==
  ASSUME RunInv, CreateFinalHandoff
  PROVE  fin' \in FinalRows /\ capture' = "NONE"
BY DEF RunInv, PortalTypeOK, CreateFinalHandoff, FinalRows

\* So do attestation, payment and the requests around the final handoff.
LEMMA SubmissionRequestsKeep == ASSUME RunInv, SubmissionRequests PROVE RunInv'
<1> USE DEF RunInv, PortalTypeOK, SubmittedOnce, RunStatuses, AttestStatuses, PaymentStatuses, RunJobStatus
<1>1. CASE PCompleteAttestation
    BY <1>1 DEF PCompleteAttestation
<1>2. CASE PApprovePayment \/ PRecordPayment
    BY <1>2 DEF PApprovePayment, PRecordPayment
<1>3. CASE PRequestFinalSubmit
    BY <1>3, FinalHandoffTyped DEF PRequestFinalSubmit
<1>4. CASE PReportSubmission
    BY <1>4 DEF PReportSubmission
<1> QED
    BY <1>1, <1>2, <1>3, <1>4 DEF SubmissionRequests

\* Only the capture of a confirmed result writes evidence, and it does so while the case is
\* still SUBMISSION_PENDING: the transaction that advances the case closes the door behind it.
LEMMA CaptureKeeps == ASSUME RunInv, RCapture PROVE RunInv'
<1> USE DEF RunInv, PortalTypeOK, SubmittedOnce, RunStatuses, RunJobStatus
<1>1. CASE prun' = "OPEN" /\ UNCHANGED <<pcase, fin, evid>>
    BY <1>1 DEF RCapture
<1>2. CASE CaptureAllowed /\ prun' = "OPEN" /\ fin' = [fin EXCEPT !.status = "COMPLETED"] /\ UNCHANGED <<pcase, evid>>
    BY <1>2, EditedRows DEF RCapture
<1>3. CASE /\ CaptureAllowed /\ AdvanceCase /\ prun' = "SUBMITTED"
           /\ fin' = [fin EXCEPT !.status = "COMPLETED"]
           /\ evid' = evid + 1 /\ pcase' = "SUBMITTED"
  <2>1. evid = 0
      BY <1>3 DEF AdvanceCase
  <2> QED
      BY <1>3, <2>1, EditedRows DEF RCapture
<1> QED
    BY <1>1, <1>2, <1>3 DEF RCapture

\* The other jobs of the worker and what happens to its jobs.
LEMMA RunJobsKeep == ASSUME RunInv, HandleJob \/ RClaim \/ RFails \/ RMark \/ RCrash PROVE RunInv'
<1> USE DEF RunInv, PortalTypeOK, SubmittedOnce, RunStatuses, AttestStatuses, PaymentStatuses, RunJobStatus
<1>1. CASE REnterFields \/ RUploadDocuments \/ RValidate
    BY <1>1, EditedRows, ZenonT(40) DEF REnterFields, RUploadDocuments, RValidate, Applies, InvalidateSnapshot
<1>2. CASE RPlainPage \/ RAttestationPage \/ RPaymentPage
    BY <1>2, EditedRows DEF RPlainPage, RAttestationPage, RPaymentPage, Applies
<1>3. CASE RFinalPage
    BY <1>3, EditedRows, FinalHandoffTyped DEF RFinalPage, Applies
<1>4. CASE RCapture
    BY <1>4, CaptureKeeps
<1>5. CASE RClaim
    BY <1>5, EditedRows DEF RClaim
<1>6. CASE RFails \/ RMark
    BY <1>6, EditedRows DEF RFails, RMark
<1>7. CASE RCrash
  <2>1. edit.status \in RunJobStatus
      BY DEF EditRows
  <2>2. edit' \in EditRows
      BY <1>7, <2>1, EditedRows DEF RCrash
  <2> QED
      BY <1>7, <2>2 DEF RCrash
<1> QED
    BY <1>1, <1>2, <1>3, <1>4, <1>5, <1>6, <1>7 DEF HandleJob

LEMMA RunInvStep == RunInv /\ [PortalNext]_portalVars => RunInv'
<1> SUFFICES ASSUME RunInv, [PortalNext]_portalVars PROVE RunInv'
    OBVIOUS
<1>1. CASE UNCHANGED portalVars
    BY <1>1 DEF portalVars, RunInv, PortalTypeOK, SubmittedOnce
<1> QED
    BY <1>1, RunRequestsKeep, SubmissionRequestsKeep, RunJobsKeep DEF PortalNext

\* A filing is recorded once, together with the advance of its case, whatever crashes, late
\* jobs and second handoffs do (capture_submission_result, _advance_case).
THEOREM FiledOnce == PortalSpec => [](PortalTypeOK /\ SubmittedOnce)
BY RunInvInit, RunInvStep, PTL DEF PortalSpec, RunInv
-----------------------------------------------------------------------------
(* The browser sessions.                                                   *)

\* A job is claimed once more than something failed: only the worker's own job is one ahead.
AttemptsFollowFaults ==
  \A k \in JobKeys :
    /\ pjobs[k].attempts <= pFaults + 1
    /\ pw.job # k \/ pjobs[k].status = "WAITING" => pjobs[k].attempts <= pFaults

\* A worker that opens a browser has written its name into the session before.
StartIsNamed ==
  /\ pw.pc = "browser" => pw.job[1] = "START" /\ bs[pw.job[2]].mine
  /\ pw.pc = "page" => pw.job[1] = "WORK"

SessionInv == SessionTypeOK /\ AttemptsFollowFaults /\ StartIsNamed

SessionStatuses == ActiveSession \cup {"NONE", "EXPIRED", "CLOSED"}
JobStatuses == JobActive \cup {"NONE", "ENDED"}

\* The parts of a key; an idle worker has none.
LEMMA KeyParts ==
  /\ \A k \in JobKeys : \/ k[1] \in {"START", "CLOSE", "CLOSE_OWNER"} /\ k[2] \in Sessions
                        \/ k[1] = "WORK" /\ k[2] = 0
  /\ IdleWorker.job \notin JobKeys /\ IdleWorker.pc = "idle"
  /\ \A t \in {"START", "CLOSE", "CLOSE_OWNER"}, s \in Sessions : <<t, s>> \in JobKeys
  /\ <<"WORK", 0>> \in JobKeys
BY DEF JobKeys, IdleWorker

\* Rows that are written whole.
LEMMA FixedRows ==
  /\ \A row \in {NoPortalJob, EndedJob, WaitingJob} : row \in PortalJobRows /\ row.attempts = 0
  /\ NoWork \in WorkRows
BY DEF NoPortalJob, EndedJob, WaitingJob, PortalJobRows, JobActive, NoWork, WorkRows, WorkTypes

\* What a change of status leaves of the sessions.
LEMMA SessionRowsKeep ==
  ASSUME NEW f \in [Sessions -> SessionRows], NEW s, NEW x \in SessionStatuses
  PROVE  /\ [f EXCEPT ![s].status = x] \in [Sessions -> SessionRows]
         /\ \A r \in Sessions : /\ [f EXCEPT ![s].status = x][r].live = f[r].live
                                /\ [f EXCEPT ![s].status = x][r].mine = f[r].mine
<1>1. ASSUME NEW r \in Sessions
      PROVE  /\ f[r] \in SessionRows /\ [f[r] EXCEPT !.status = x] \in SessionRows
             /\ [f[r] EXCEPT !.status = x].live = f[r].live /\ [f[r] EXCEPT !.status = x].mine = f[r].mine
    BY DEF SessionRows, SessionStatuses
<1> QED
    BY <1>1

\* A browser that goes up or down leaves the sessions' workers alone.
LEMMA BrowserRowsKeep ==
  ASSUME NEW f \in [Sessions -> SessionRows], NEW s, NEW b \in BOOLEAN
  PROVE  /\ [f EXCEPT ![s].live = b] \in [Sessions -> SessionRows]
         /\ \A r \in Sessions : /\ [f EXCEPT ![s].live = b][r].mine = f[r].mine
                                /\ [f EXCEPT ![s].live = b][r].live = IF r = s THEN b ELSE f[r].live
<1>1. ASSUME NEW r \in Sessions
      PROVE  /\ f[r] \in SessionRows /\ [f[r] EXCEPT !.live = b] \in SessionRows
             /\ [f[r] EXCEPT !.live = b].mine = f[r].mine /\ [f[r] EXCEPT !.live = b].live = b
    BY DEF SessionRows
<1> QED
    BY <1>1

\* A browser is held under a session that names the worker: a status changes nothing of it, and
\* a browser may go up where the worker is named.
HeldByName(f) == \A r \in Sessions : f[r].live => f[r].mine

LEMMA HeldKeeps ==
  ASSUME NEW f \in [Sessions -> SessionRows], HeldByName(f), NEW s
  PROVE  /\ \A x \in SessionStatuses : HeldByName([f EXCEPT ![s].status = x])
         /\ s \in Sessions /\ f[s].mine => HeldByName([f EXCEPT ![s].live = TRUE])
<1>1. ASSUME NEW x \in SessionStatuses, NEW r \in Sessions, [f EXCEPT ![s].status = x][r].live
      PROVE  [f EXCEPT ![s].status = x][r].mine
    BY <1>1, SessionRowsKeep DEF HeldByName
<1>2. ASSUME f[s].mine, NEW r \in Sessions, [f EXCEPT ![s].live = TRUE][r].live
      PROVE  [f EXCEPT ![s].live = TRUE][r].mine
    <2>1. CASE r = s
        BY <1>2, <2>1, BrowserRowsKeep
    <2>2. CASE r # s
        BY <1>2, <2>2 DEF HeldByName
    <2> QED
        BY <2>1, <2>2
<1> QED
    BY <1>1, <1>2 DEF HeldByName

\* Jobs that keep their rows or get a fresh or final one stay counted, when the worker keeps
\* its job or has ended it.
LEMMA JobsKeep ==
  ASSUME SessionInv, pFaults' = pFaults,
         pjobs' \in [JobKeys -> {pjobs[k] : k \in JobKeys} \cup {NoPortalJob, EndedJob, WaitingJob}],
         \A k \in JobKeys : pjobs'[k] = pjobs[k] \/ pjobs'[k] \in {NoPortalJob, EndedJob, WaitingJob},
         \/ pw'.job = pw.job
         \/ pjobs'[pw.job] \in {NoPortalJob, EndedJob, WaitingJob}
  PROVE  pjobs' \in [JobKeys -> PortalJobRows] /\ AttemptsFollowFaults'
<1> USE DEF SessionInv, SessionTypeOK
<1>1. ASSUME NEW k \in JobKeys PROVE pjobs'[k] \in PortalJobRows
    BY FixedRows
<1>2. ASSUME NEW k \in JobKeys
      PROVE  /\ pjobs'[k].attempts <= pFaults + 1
             /\ pw'.job # k \/ pjobs'[k].status = "WAITING" => pjobs'[k].attempts <= pFaults
  <2>1. CASE pjobs'[k] \in {NoPortalJob, EndedJob, WaitingJob}
      BY <2>1, FixedRows
  <2>2. CASE pjobs'[k] = pjobs[k] /\ pjobs'[k] \notin {NoPortalJob, EndedJob, WaitingJob}
      BY <2>2 DEF AttemptsFollowFaults
  <2> QED
      BY <2>1, <2>2
<1>3. pjobs' \in [JobKeys -> PortalJobRows]
    BY <1>1
<1>4. AttemptsFollowFaults'
    BY <1>2 DEF AttemptsFollowFaults
<1> QED
    BY <1>3, <1>4

\* A worker that keeps its place, or leaves the browser, stays named.
LEMMA NamesKeep ==
  ASSUME SessionInv, \A r \in Sessions : bs'[r].mine = bs[r].mine,
         pw' = pw \/ pw'.pc \notin {"browser", "page"}
  PROVE  StartIsNamed'
<1>1. pw.pc \in {"browser", "page"} => pw.job \in JobKeys
    BY KeyParts DEF SessionInv, SessionTypeOK
<1>2. pw.pc = "browser" => pw.job[2] \in Sessions
    BY <1>1, KeyParts DEF SessionInv, StartIsNamed
<1> QED
    BY <1>2 DEF SessionInv, StartIsNamed

\* The session a job names.
LEMMA JobSession ==
  ASSUME SessionInv, pw # IdleWorker
  PROVE  /\ pw.job \in JobKeys /\ TheSession \in 0..MaxSessions
         /\ Kind = "START" => pw.job[1] = "START" /\ TheSession = pw.job[2] /\ TheSession \in Sessions
         /\ Kind \in {"CLOSE", "CLOSE_OWNER"} \/ Kind = "START" \/ pw.job[1] = "WORK"
         /\ pw' = [pw EXCEPT !.pc = "done"] => pw' \in [pc : {"done"}, job : JobKeys] /\ pw'.job = pw.job
<1>1. pw \in [pc : {"claimed", "browser", "page", "done"}, job : JobKeys]
    BY DEF SessionInv, SessionTypeOK
<1>2. work.type \in WorkTypes \cup {"-"} /\ work.session \in 0..MaxSessions
    BY DEF SessionInv, SessionTypeOK, WorkRows
<1>3. pw.job \in JobKeys
    BY <1>1
<1>4. TheSession \in 0..MaxSessions
    BY <1>2, <1>3, KeyParts DEF TheSession, Sessions
<1>5. Kind = "START" => pw.job[1] = "START" /\ TheSession = pw.job[2] /\ TheSession \in Sessions
    BY <1>2, <1>3, KeyParts DEF TheSession, Kind, WorkTypes
<1>6. Kind \in {"CLOSE", "CLOSE_OWNER"} \/ Kind = "START" \/ pw.job[1] = "WORK"
    BY <1>3, KeyParts DEF Kind
<1>7. pw' = [pw EXCEPT !.pc = "done"] => pw' \in [pc : {"done"}, job : JobKeys] /\ pw'.job = pw.job
    BY <1>1
<1> QED
    BY <1>3, <1>4, <1>5, <1>6, <1>7

LEMMA SessionInvInit == SessionInit => SessionInv
<1> SUFFICES ASSUME SessionInit PROVE SessionInv
    OBVIOUS
<1>1. bs \in [Sessions -> SessionRows] /\ login \in LoginRows
    BY DEF SessionInit, SessionRows, LoginRows
<1>2. pjobs \in [JobKeys -> PortalJobRows] /\ work \in WorkRows /\ \A k \in JobKeys : pjobs[k].attempts = 0
    BY FixedRows DEF SessionInit
<1>3. pFaults = 0 /\ pFaults \in 0..MaxPortalFaults
    BY DEF SessionInit
<1>4. governed \in BOOLEAN
    BY DEF SessionInit
<1>5. srun \in SessionRunStatuses /\ pw = IdleWorker /\ \A s \in Sessions : bs[s].live => bs[s].mine
    BY DEF SessionInit, SessionRunStatuses
<1>6. SessionTypeOK
    BY <1>1, <1>2, <1>3, <1>4, <1>5 DEF SessionTypeOK
<1>7. AttemptsFollowFaults
    BY <1>2, <1>3 DEF AttemptsFollowFaults
<1>8. StartIsNamed
    BY <1>5, KeyParts DEF StartIsNamed
<1> QED
    BY <1>6, <1>7, <1>8 DEF SessionInv

\* Statuses of the run that requests and jobs write.
LEMMA RunStatusesWritten == {"WAITING_OPERATOR", "BLOCKED", "OPEN", "CANCELLED", "SUBMITTED"} \subseteq SessionRunStatuses
BY DEF SessionRunStatuses, TerminalRun

\* A step that leaves the sessions' workers, the jobs and the worker alone.
LEMMA QuietStep ==
  ASSUME SessionInv, srun' \in SessionRunStatuses, bs' \in [Sessions -> SessionRows], login' \in LoginRows,
         \A r \in Sessions : bs'[r].live = bs[r].live /\ bs'[r].mine = bs[r].mine,
         UNCHANGED <<pw, governed, pFaults>>, work' \in WorkRows,
         pjobs' \in [JobKeys -> {pjobs[k] : k \in JobKeys} \cup {NoPortalJob, EndedJob, WaitingJob}],
         \A k \in JobKeys : pjobs'[k] = pjobs[k] \/ pjobs'[k] \in {NoPortalJob, EndedJob, WaitingJob}
  PROVE  SessionInv'
<1>1. pjobs' \in [JobKeys -> PortalJobRows] /\ AttemptsFollowFaults'
    BY JobsKeep
<1>2. StartIsNamed'
    BY NamesKeep
<1>3. SessionTypeOK'
    BY <1>1 DEF SessionInv, SessionTypeOK
<1> QED
    BY <1>1, <1>2, <1>3 DEF SessionInv

\* PortalEnqueue writes a fresh row or nothing.
LEMMA EnqueueWrites ==
  ASSUME SessionInv, NEW k \in JobKeys
  PROVE  /\ PortalEnqueue(pjobs, k) \in [JobKeys -> {pjobs[j] : j \in JobKeys} \cup {NoPortalJob, EndedJob, WaitingJob}]
         /\ \A j \in JobKeys : \/ PortalEnqueue(pjobs, k)[j] = pjobs[j]
                               \/ PortalEnqueue(pjobs, k)[j] \in {NoPortalJob, EndedJob, WaitingJob}
BY DEF PortalEnqueue, SessionInv, SessionTypeOK

LEMMA EnqueueWorkWrites ==
  ASSUME SessionInv, NEW type \in WorkTypes, NEW s \in 0..MaxSessions, NEW r \in BOOLEAN, EnqueueWork(type, s, r)
  PROVE  /\ work' \in WorkRows
         /\ pjobs' \in [JobKeys -> {pjobs[j] : j \in JobKeys} \cup {NoPortalJob, EndedJob, WaitingJob}]
         /\ \A j \in JobKeys : pjobs'[j] = pjobs[j] \/ pjobs'[j] \in {NoPortalJob, EndedJob, WaitingJob}
<1>1. work' \in WorkRows
    BY DEF EnqueueWork, WorkRows
<1>2. pjobs' = [pjobs EXCEPT ![<<"WORK", 0>>] = WaitingJob] /\ pjobs \in [JobKeys -> PortalJobRows]
    BY DEF EnqueueWork, SessionInv, SessionTypeOK
<1> QED
    BY <1>1, <1>2

\* Requests change statuses, open handoffs and enqueue jobs, and touch no browser.
LEMMA SessionRequestsKeep == ASSUME SessionInv, SessionRequests PROVE SessionInv'
<1> DEFINE JobsOrFresh == {pjobs[k] : k \in JobKeys} \cup {NoPortalJob, EndedJob, WaitingJob}
<1>0. /\ srun \in SessionRunStatuses /\ bs \in [Sessions -> SessionRows] /\ login \in LoginRows
      /\ work \in WorkRows /\ pjobs \in [JobKeys -> JobsOrFresh]
    BY DEF SessionInv, SessionTypeOK
<1>1. CASE SStartRun \/ SPause \/ RunIsSubmitted
    BY <1>0, <1>1, QuietStep, RunStatusesWritten DEF SStartRun, SPause, RunIsSubmitted
<1>2. CASE SResume
  <2>1. CASE srun' = "WAITING_OPERATOR" /\ UNCHANGED <<pjobs, work>>
      BY <1>0, <1>2, <2>1, QuietStep, RunStatusesWritten DEF SResume
  <2>2. ASSUME NEW s \in Current, EnqueueWork("RECONCILE", s, FALSE), srun' = "OPEN" PROVE SessionInv'
    <3>1. s \in 0..MaxSessions /\ "RECONCILE" \in WorkTypes
        BY DEF Current, Sessions, WorkTypes
    <3>2. /\ work' \in WorkRows /\ pjobs' \in [JobKeys -> JobsOrFresh]
          /\ \A j \in JobKeys : pjobs'[j] = pjobs[j] \/ pjobs'[j] \in {NoPortalJob, EndedJob, WaitingJob}
        BY <2>2, <3>1, EnqueueWorkWrites
    <3>3. srun' \in SessionRunStatuses /\ UNCHANGED <<bs, login, pw, governed, pFaults>>
        BY <1>2, <2>2, RunStatusesWritten DEF SResume
    <3> HIDE DEF JobsOrFresh
    <3> QED
        BY <1>0, <3>2, <3>3, QuietStep DEF JobsOrFresh
  <2> QED
      BY <1>2, <2>1, <2>2 DEF SResume
<1>3. CASE SCancel
  <2>1. ASSUME NEW k \in JobKeys
        PROVE  pjobs'[k] = pjobs[k] \/ pjobs'[k] \in {NoPortalJob, EndedJob, WaitingJob}
      BY <1>3 DEF SCancel, EndOf
  <2>2. pjobs' \in [JobKeys -> JobsOrFresh]
      BY <1>3, <2>1 DEF SCancel
  <2>3. work' \in WorkRows
      BY <1>0, <1>3, FixedRows DEF SCancel, WorkAfter
  <2>4. srun' \in SessionRunStatuses /\ UNCHANGED <<bs, login, pw, governed, pFaults>>
      BY <1>3, RunStatusesWritten DEF SCancel
  <2> QED
      BY <1>0, <2>1, <2>2, <2>3, <2>4, QuietStep
<1>4. ASSUME NEW s \in Sessions, NEW x \in SessionStatuses, bs' = [bs EXCEPT ![s].status = x],
             NEW k \in JobKeys, pjobs' \in {pjobs, PortalEnqueue(pjobs, k)},
             srun' \in SessionRunStatuses, UNCHANGED <<login, work, pw, governed, pFaults>>
      PROVE  SessionInv'
  <2>1. /\ bs' \in [Sessions -> SessionRows]
        /\ \A r \in Sessions : bs'[r].live = bs[r].live /\ bs'[r].mine = bs[r].mine
      BY <1>0, <1>4, SessionRowsKeep
  <2>2. /\ pjobs' \in [JobKeys -> JobsOrFresh]
        /\ \A j \in JobKeys : pjobs'[j] = pjobs[j] \/ pjobs'[j] \in {NoPortalJob, EndedJob, WaitingJob}
      BY <1>0, <1>4, EnqueueWrites
  <2> QED
      BY <1>0, <1>4, <2>1, <2>2, QuietStep
<1>5. ASSUME NEW s \in Sessions, SRequestSession(s) PROVE SessionInv'
    BY <1>0, <1>4, <1>5, KeyParts DEF SRequestSession, SessionStatuses, ActiveSession
<1>6. ASSUME NEW s \in Sessions, STakeControl(s) \/ SReturnControl(s) PROVE SessionInv'
    BY <1>0, <1>4, <1>6, KeyParts DEF STakeControl, SReturnControl, SessionStatuses, ActiveSession
<1>7. ASSUME NEW s \in Sessions, SCloseSession(s) PROVE SessionInv'
    BY <1>0, <1>4, <1>7, KeyParts, RunStatusesWritten DEF SCloseSession, SessionStatuses, ActiveSession
<1>8. ASSUME NEW s \in Sessions, NEW type \in WorkTypes, SQueueWork(type, s) PROVE SessionInv'
  <2>1. s \in 0..MaxSessions
      BY DEF Sessions
  <2>5. EnqueueWork(type, s, FALSE)
      BY <1>8 DEF SQueueWork
  <2>4. srun' \in SessionRunStatuses
      BY <1>0, <1>8, RunStatusesWritten DEF SQueueWork
  <2>2. /\ work' \in WorkRows /\ pjobs' \in [JobKeys -> JobsOrFresh]
        /\ \A j \in JobKeys : pjobs'[j] = pjobs[j] \/ pjobs'[j] \in {NoPortalJob, EndedJob, WaitingJob}
      BY <2>1, <2>5, EnqueueWorkWrites
  <2>3. UNCHANGED <<bs, login, pw, governed, pFaults>>
      BY <1>8 DEF SQueueWork
  <2> QED
      BY <1>0, <2>4, <2>2, <2>3, QuietStep
<1>9. CASE SAcceptHandoff
  <2>1. "ACTIVE_HUMAN_CONTROL" \in SessionStatuses
      BY DEF SessionStatuses, ActiveSession
  <2>4. bs' = [bs EXCEPT ![login.session].status = "ACTIVE_HUMAN_CONTROL"]
      BY <1>9 DEF SAcceptHandoff
  <2>2. /\ bs' \in [Sessions -> SessionRows]
        /\ \A r \in Sessions : bs'[r].live = bs[r].live /\ bs'[r].mine = bs[r].mine
      BY <1>0, <2>1, <2>4, SessionRowsKeep
  <2>3. login' \in LoginRows
      BY <1>0, <1>9 DEF SAcceptHandoff, LoginRows, OpenHandoff
  <2> QED
      BY <1>0, <1>9, <2>2, <2>3, QuietStep DEF SAcceptHandoff
<1>10. CASE SDeclineHandoff
  <2>1. login' \in LoginRows
      BY <1>0, <1>10 DEF SDeclineHandoff, LoginRows
  <2> QED
      BY <1>0, <1>10, <2>1, QuietStep, RunStatusesWritten DEF SDeclineHandoff
<1>11. CASE SHandoffDone
  <2>1. login.session \in 0..MaxSessions /\ "RECONCILE" \in WorkTypes /\ EnqueueWork("RECONCILE", login.session, TRUE)
      BY <1>0, <1>11 DEF SHandoffDone, LoginRows, WorkTypes
  <2>2. /\ work' \in WorkRows /\ pjobs' \in [JobKeys -> JobsOrFresh]
        /\ \A j \in JobKeys : pjobs'[j] = pjobs[j] \/ pjobs'[j] \in {NoPortalJob, EndedJob, WaitingJob}
      BY <2>1, EnqueueWorkWrites
  <2> QED
      BY <1>0, <1>11, <2>2, QuietStep DEF SHandoffDone
<1> QED
    BY <1>1, <1>2, <1>3, <1>5, <1>6, <1>7, <1>8, <1>9, <1>10, <1>11 DEF SessionRequests

\* A step with which the worker's job comes to its end or is given up: what it wrote for the
\* sessions keeps their rows and names the worker of every live browser.
LEMMA WorkerStep ==
  ASSUME SessionInv, srun' \in SessionRunStatuses, bs' \in [Sessions -> SessionRows], login' \in LoginRows,
         \A r \in Sessions : bs'[r].live => bs'[r].mine, UNCHANGED <<governed, pFaults>>, work' \in WorkRows,
         pjobs' \in [JobKeys -> {pjobs[k] : k \in JobKeys} \cup {NoPortalJob, EndedJob, WaitingJob}],
         \A k \in JobKeys : pjobs'[k] = pjobs[k] \/ pjobs'[k] \in {NoPortalJob, EndedJob, WaitingJob},
         \/ pw' = IdleWorker /\ pjobs'[pw.job] \in {NoPortalJob, EndedJob, WaitingJob}
         \/ pw' \in [pc : {"done"}, job : JobKeys] /\ pw'.job = pw.job
  PROVE  SessionInv'
<1>1. pjobs' \in [JobKeys -> PortalJobRows] /\ AttemptsFollowFaults'
    BY JobsKeep
<1>2. pw'.pc \in {"idle", "done"}
    BY KeyParts
<1>3. StartIsNamed'
    BY <1>2 DEF StartIsNamed
<1>4. pw' = IdleWorker \/ pw' \in [pc : {"claimed", "browser", "page", "done"}, job : JobKeys]
    OBVIOUS
<1>5. governed' \in BOOLEAN /\ pFaults' \in 0..MaxPortalFaults
    BY DEF SessionInv, SessionTypeOK
<1>6. SessionTypeOK'
    BY <1>1, <1>4, <1>5 DEF SessionTypeOK
<1> QED
    BY <1>1, <1>3, <1>6 DEF SessionInv

\* The end of a job is a final row, or none.
LEMMA EndWrites ==
  ASSUME SessionInv, pw # IdleWorker, pjobs' = [pjobs EXCEPT ![pw.job] = EndOf(pw.job)],
         work' = WorkAfter(pjobs')
  PROVE  /\ work' \in WorkRows /\ pjobs'[pw.job] \in {NoPortalJob, EndedJob, WaitingJob}
         /\ pjobs' \in [JobKeys -> {pjobs[j] : j \in JobKeys} \cup {NoPortalJob, EndedJob, WaitingJob}]
         /\ \A j \in JobKeys : pjobs'[j] = pjobs[j] \/ pjobs'[j] \in {NoPortalJob, EndedJob, WaitingJob}
<1>1. pw.job \in JobKeys /\ pjobs \in [JobKeys -> PortalJobRows] /\ work \in WorkRows
    BY JobSession DEF SessionInv, SessionTypeOK
<1>2. work' \in WorkRows
    BY <1>1, FixedRows DEF WorkAfter
<1>3. EndOf(pw.job) \in {NoPortalJob, EndedJob, WaitingJob}
    BY DEF EndOf
<1> QED
    BY <1>1, <1>2, <1>3

\* A conflict ends the job; the sessions are the caller's.
LEMMA ConflictKeeps ==
  ASSUME SessionInv, pw # IdleWorker, Conflict, bs' \in [Sessions -> SessionRows],
         \A r \in Sessions : bs'[r].live => bs'[r].mine
  PROVE  SessionInv'
<1>1. /\ pjobs' = [pjobs EXCEPT ![pw.job] = EndOf(pw.job)] /\ work' = WorkAfter(pjobs')
      /\ srun' = "OPEN" /\ pw' = IdleWorker /\ UNCHANGED <<login, governed, pFaults>>
    BY DEF Conflict
<1>2. srun' \in SessionRunStatuses /\ login' \in LoginRows
    BY <1>1, RunStatusesWritten DEF SessionInv, SessionTypeOK
<1> QED
    BY <1>1, <1>2, EndWrites, WorkerStep

\* Verified sessions keep their rows, their browsers and their workers; so does the handoff.
LEMMA VerifiedKeep ==
  ASSUME SessionInv
  PROVE  /\ SessionsVerified \in [Sessions -> SessionRows] /\ LoginVerified \in LoginRows
         /\ \A r \in Sessions : /\ SessionsVerified[r].live = bs[r].live
                                /\ SessionsVerified[r].mine = bs[r].mine
<1>1. bs \in [Sessions -> SessionRows] /\ login \in LoginRows
    BY DEF SessionInv, SessionTypeOK
<1>2. "ACTIVE_AUTOMATION" \in SessionStatuses
    BY DEF SessionStatuses, ActiveSession
<1>3. LoginVerified \in LoginRows
    BY <1>1 DEF LoginVerified, LoginRows
<1>4. CASE work.reported
    BY <1>1, <1>2, <1>3, <1>4, SessionRowsKeep DEF SessionsVerified
<1>5. CASE ~work.reported
    BY <1>1, <1>3, <1>5 DEF SessionsVerified
<1> QED
    BY <1>4, <1>5

LEMMA RequestLoginRow ==
  ASSUME NEW s \in 0..MaxSessions, NEW h \in LoginRows PROVE RequestLogin(s, h) \in LoginRows
BY DEF RequestLogin, LoginRows, OpenHandoff

\* The worker's steps between a claim and its end: a browser is held only under a session that
\* names the worker.
LEMMA WorkerStepsKeep == ASSUME SessionInv, WorkerSteps PROVE SessionInv'
<1> DEFINE JobsOrFresh == {pjobs[k] : k \in JobKeys} \cup {NoPortalJob, EndedJob, WaitingJob}
           JobsKept == /\ pjobs' \in [JobKeys -> JobsOrFresh]
                       /\ \A k \in JobKeys : \/ pjobs'[k] = pjobs[k]
                                            \/ pjobs'[k] \in {NoPortalJob, EndedJob, WaitingJob}
           Ends == pw' \in [pc : {"done"}, job : JobKeys] /\ pw'.job = pw.job
<1>0. /\ srun \in SessionRunStatuses /\ bs \in [Sessions -> SessionRows] /\ login \in LoginRows
      /\ work \in WorkRows /\ pjobs \in [JobKeys -> PortalJobRows]
      /\ \A s \in Sessions : bs[s].live => bs[s].mine
    BY DEF SessionInv, SessionTypeOK
<1>a. pw.pc # "idle"
    BY KeyParts DEF WorkerSteps, WContext, WContextFails, WClose, WStarted, WStartRefused, WPageMismatch,
       WPlainPage, WOperatorPage, WForeignPage, WEdit, WEditRefused, WHandoffRefused, WMark, IsReconcile
<1>b. pw # IdleWorker
    BY <1>a, KeyParts
<1>c. /\ pw.job \in JobKeys /\ TheSession \in 0..MaxSessions
      /\ Kind = "START" => pw.job[1] = "START" /\ TheSession = pw.job[2] /\ TheSession \in Sessions
      /\ WorkerAt("done") => Ends
    BY <1>b, JobSession DEF WorkerAt
<1>d. UNCHANGED pjobs => JobsKept
    BY <1>0
<1>e. pw.pc = "browser" => TheSession \in Sessions /\ bs[TheSession].mine
    BY <1>c, KeyParts DEF SessionInv, StartIsNamed, TheSession
<1>f. pw \in [pc : {"claimed", "browser", "page", "done"}, job : JobKeys]
    BY <1>b DEF SessionInv, SessionTypeOK
<1>h. HeldByName(bs)
    BY <1>0 DEF HeldByName
<1>g. ASSUME UNCHANGED <<governed, pFaults>>, Ends, JobsKept, work' \in WorkRows, srun' \in SessionRunStatuses,
             login' \in LoginRows, bs' \in [Sessions -> SessionRows],
             \A r \in Sessions : bs'[r].live => bs'[r].mine
      PROVE  SessionInv'
    BY <1>g, WorkerStep
<1>1. CASE WContext
  <2>1. bs' \in [Sessions -> SessionRows] /\ \A r \in Sessions : bs'[r].live => bs'[r].mine
    <3>1. ASSUME NEW r \in Sessions
          PROVE  /\ [bs[r] EXCEPT !.status = "STARTING", !.mine = TRUE] \in SessionRows
                 /\ [bs[r] EXCEPT !.status = "STARTING", !.mine = TRUE].mine
        BY <1>0 DEF SessionRows, ActiveSession
    <3>2. CASE UNCHANGED bs
        BY <1>0, <3>2
    <3>3. CASE bs' = [bs EXCEPT ![TheSession].status = "STARTING", ![TheSession].mine = TRUE]
      <4>1. \A r \in Sessions : bs'[r] = IF r = TheSession THEN [bs[r] EXCEPT !.status = "STARTING", !.mine = TRUE]
                                                        ELSE bs[r]
          BY <1>0, <3>3
      <4>2. bs' = [r \in Sessions |-> bs'[r]]
          BY <1>0, <3>3
      <4> QED
          BY <1>0, <3>1, <4>1, <4>2
    <3> QED
        BY <1>1, <3>2, <3>3 DEF WContext
  <2>2. /\ pw' \in [pc : {"claimed", "browser", "page", "done"}, job : JobKeys] /\ pw'.job = pw.job
        /\ pw'.pc \in {"browser", "page"} /\ pw'.pc = "browser" <=> Kind = "START"
      BY <1>f, <1>1 DEF WContext, WorkerAt
  <2>3. UNCHANGED <<srun, login, pjobs, work, governed, pFaults>>
      BY <1>1 DEF WContext
  <2>4. Kind = "START" => bs'[TheSession].mine
      BY <1>0, <1>1, <1>c DEF WContext, SessionRows
  <2>5. StartIsNamed'
    <3>1. CASE Kind = "START"
        BY <1>c, <2>2, <2>4, <3>1 DEF StartIsNamed
    <3>2. CASE Kind # "START"
      <4>1. pw.job[1] = "WORK"
          BY <1>1, <1>b, <3>2, JobSession DEF WContext, IsClose
      <4> QED
          BY <2>2, <3>2, <4>1 DEF StartIsNamed
    <3> QED
        BY <3>1, <3>2
  <2>6. AttemptsFollowFaults'
      BY <2>2, <2>3 DEF AttemptsFollowFaults, SessionInv
  <2>7. SessionTypeOK'
      BY <2>1, <2>2, <2>3 DEF SessionInv, SessionTypeOK
  <2> QED
      BY <2>5, <2>6, <2>7 DEF SessionInv
<1>2. CASE WContextFails \/ WStartRefused \/ WPageMismatch \/ WEditRefused
  <2>1. Conflict /\ UNCHANGED bs
      BY <1>2 DEF WContextFails, WStartRefused, WPageMismatch, WEditRefused
  <2> QED
      BY <1>0, <1>b, <2>1, ConflictKeeps
<1>3. CASE WClose
  <2>1. \A r \in Sessions : /\ bs[r] \in SessionRows
                           /\ [bs[r] EXCEPT !.status = "CLOSED", !.live = FALSE] \in SessionRows
                           /\ [bs[r] EXCEPT !.status = "CLOSED", !.live = FALSE].live = FALSE
      BY <1>0 DEF SessionRows
  <2>2. bs' = [bs EXCEPT ![TheSession].status = "CLOSED", ![TheSession].live = FALSE]
      BY <1>3 DEF WClose
  <2>3. bs' = [r \in Sessions |-> IF r = TheSession THEN [bs[r] EXCEPT !.status = "CLOSED", !.live = FALSE] ELSE bs[r]]
      BY <1>0, <2>2
  <2>4. bs' \in [Sessions -> SessionRows] /\ \A r \in Sessions : bs'[r].live => bs'[r].mine
      BY <1>0, <2>1, <2>3
  <2>5. UNCHANGED <<srun, login, pjobs, work, governed, pFaults>> /\ WorkerAt("done")
      BY <1>3 DEF WClose
  <2> QED
      BY <1>0, <1>c, <1>d, <1>g, <2>4, <2>5
<1>4. CASE WStarted
  <2> DEFINE up == [bs EXCEPT ![TheSession].live = TRUE]
             on == [up EXCEPT ![TheSession].status = "ACTIVE_AUTOMATION"]
  <2>1. /\ pw.pc = "browser" /\ bs' \in {up, on} /\ login' \in {login, RequestLogin(TheSession, login)}
        /\ srun' = "OPEN" /\ WorkerAt("done") /\ UNCHANGED <<pjobs, work, governed, pFaults>>
      BY <1>4 DEF WStarted
  <2>2. up \in [Sessions -> SessionRows] /\ HeldByName(up)
      BY <1>0, <1>e, <1>h, <2>1, BrowserRowsKeep, HeldKeeps
  <2> HIDE DEF up
  <2>3. "ACTIVE_AUTOMATION" \in SessionStatuses
      BY DEF SessionStatuses, ActiveSession
  <2>4. on \in [Sessions -> SessionRows] /\ HeldByName(on)
      BY <2>2, <2>3, SessionRowsKeep, HeldKeeps
  <2> HIDE DEF on
  <2>5. login' \in LoginRows
      BY <1>0, <1>c, <2>1, RequestLoginRow
  <2> QED
      BY <1>0, <1>c, <1>d, <1>g, <2>1, <2>2, <2>4, <2>5, RunStatusesWritten DEF HeldByName
<1>5. CASE WPlainPage \/ WOperatorPage
  <2>1. /\ bs' = SessionsVerified /\ login' \in {LoginVerified, RequestLogin(TheSession, LoginVerified)}
        /\ WorkerAt("done") /\ srun' \in {srun, "OPEN"} /\ UNCHANGED <<pjobs, work, governed, pFaults>>
      BY <1>5 DEF WPlainPage, WOperatorPage
  <2>2. login' \in LoginRows
      BY <1>c, <2>1, VerifiedKeep, RequestLoginRow
  <2>3. bs' \in [Sessions -> SessionRows] /\ \A r \in Sessions : bs'[r].live => bs'[r].mine
      BY <1>0, <2>1, VerifiedKeep
  <2> QED
      BY <1>0, <1>c, <1>d, <1>g, <2>1, <2>2, <2>3, RunStatusesWritten
<1>6. CASE WForeignPage
  <2>1. /\ bs' = [SessionsVerified EXCEPT ![TheSession].status = "PAUSED"] /\ login' = LoginVerified
        /\ pjobs' = PortalEnqueue(pjobs, <<"CLOSE_OWNER", TheSession>>)
        /\ WorkerAt("done") /\ srun' = "OPEN" /\ UNCHANGED <<work, governed, pFaults>>
      BY <1>6 DEF WForeignPage
  <2>2. "PAUSED" \in SessionStatuses
      BY DEF SessionStatuses, ActiveSession
  <2>5. SessionsVerified \in [Sessions -> SessionRows] /\ HeldByName(SessionsVerified)
      BY <1>0, VerifiedKeep DEF HeldByName
  <2>6. bs' \in [Sessions -> SessionRows] /\ HeldByName(bs')
      BY <2>1, <2>2, <2>5, SessionRowsKeep, HeldKeeps
  <2>3. bs' \in [Sessions -> SessionRows] /\ \A r \in Sessions : bs'[r].live => bs'[r].mine
      BY <2>6 DEF HeldByName
  <2>4. JobsKept
    <3>1. CASE TheSession \in Sessions
        BY <2>1, <3>1, KeyParts, EnqueueWrites
    <3>2. CASE TheSession \notin Sessions
      <4>1. <<"CLOSE_OWNER", TheSession>> \notin JobKeys
          BY <3>2 DEF JobKeys
      <4>2. pjobs' = pjobs
          BY <1>0, <2>1, <4>1 DEF PortalEnqueue
      <4> QED
          BY <1>d, <4>2
    <3> QED
        BY <3>1, <3>2
  <2> QED
      BY <1>0, <1>c, <1>g, <2>1, <2>3, <2>4, VerifiedKeep, RunStatusesWritten
<1>7. CASE WEdit
    BY <1>0, <1>7, <1>c, <1>d, <1>g, RunStatusesWritten DEF WEdit
<1>8. CASE WHandoffRefused
  <2>1. Conflict /\ (IsReconcile \/ pw.pc = "browser")
      BY <1>8 DEF WHandoffRefused
  <2>2. bs' = IF Kind = "START" THEN [bs EXCEPT ![TheSession].live = TRUE] ELSE bs
      BY <1>8 DEF WHandoffRefused
  <2>3. bs' \in [Sessions -> SessionRows] /\ \A r \in Sessions : bs'[r].live => bs'[r].mine
    <3>1. CASE Kind # "START"
        BY <1>0, <2>2, <3>1
    <3>2. CASE Kind = "START"
      <4>1. pw.pc = "browser"
          BY <2>1, <3>2 DEF IsReconcile
      <4>2. bs' = [bs EXCEPT ![TheSession].live = TRUE]
          BY <2>2, <3>2
      <4>3. bs' \in [Sessions -> SessionRows] /\ HeldByName(bs')
          BY <1>0, <1>e, <1>h, <4>1, <4>2, BrowserRowsKeep, HeldKeeps
      <4> QED
          BY <4>3 DEF HeldByName
    <3> QED
        BY <3>1, <3>2
  <2> QED
      BY <1>b, <2>1, <2>3, ConflictKeeps
<1>9. CASE WMark
  <2>1. /\ pjobs' = [pjobs EXCEPT ![pw.job] = EndOf(pw.job)] /\ work' = WorkAfter(pjobs')
        /\ pw' = IdleWorker /\ UNCHANGED <<srun, bs, login, governed, pFaults>>
      BY <1>9 DEF WMark
  <2> QED
      BY <1>0, <1>b, <2>1, EndWrites, WorkerStep
<1> QED
    BY <1>1, <1>2, <1>3, <1>4, <1>5, <1>6, <1>7, <1>8, <1>9 DEF WorkerSteps

\* A claim counts one attempt; the worker's own job is the one that may be ahead of the faults.
LEMMA ClaimKeeps == ASSUME SessionInv, NEW k \in JobKeys, WClaim(k) PROVE SessionInv'
<1>1. /\ pw = IdleWorker /\ pjobs[k].status = "WAITING" /\ pw' = [pc |-> "claimed", job |-> k]
      /\ pjobs' = [pjobs EXCEPT ![k].status = "RUNNING", ![k].attempts = @ + 1]
      /\ UNCHANGED <<srun, bs, login, work, governed, pFaults>>
    BY DEF WClaim
<1>2. pjobs \in [JobKeys -> PortalJobRows] /\ pFaults \in 0..MaxPortalFaults
    BY DEF SessionInv, SessionTypeOK
<1>3. pjobs[k].attempts \in 0..(3 + MaxPortalFaults) /\ pjobs[k].attempts <= pFaults
    BY <1>1, <1>2 DEF SessionInv, AttemptsFollowFaults, PortalJobRows
<1>4. pjobs[k].attempts + 1 \in 0..(3 + MaxPortalFaults) /\ pjobs[k].attempts + 1 <= pFaults + 1
    BY <1>2, <1>3, SessionAssumption
<1>5. /\ pjobs'[k].status = "RUNNING" /\ pjobs'[k].attempts = pjobs[k].attempts + 1
      /\ pjobs'[k] \in PortalJobRows
    BY <1>1, <1>2, <1>4 DEF PortalJobRows, JobActive
<1>6. pjobs' = [pjobs EXCEPT ![k] = pjobs'[k]]
    BY <1>1, <1>2
<1>7. pjobs' \in [JobKeys -> PortalJobRows]
    BY <1>2, <1>5, <1>6
<1>8. ASSUME NEW j \in JobKeys
      PROVE  /\ pjobs'[j].attempts <= pFaults' + 1
             /\ pw'.job # j \/ pjobs'[j].status = "WAITING" => pjobs'[j].attempts <= pFaults'
  <2>1. CASE j = k
      BY <1>1, <1>4, <1>5, <2>1
  <2>2. CASE j # k
      BY <1>1, <1>2, <2>2, KeyParts DEF SessionInv, AttemptsFollowFaults
  <2> QED
      BY <2>1, <2>2
<1>9. AttemptsFollowFaults'
    BY <1>8 DEF AttemptsFollowFaults
<1>10. StartIsNamed'
    BY <1>1 DEF StartIsNamed
<1>11. SessionTypeOK'
    BY <1>1, <1>7 DEF SessionInv, SessionTypeOK
<1> QED
    BY <1>9, <1>10, <1>11 DEF SessionInv

\* One more fault: whatever was claimed before is within the count.
LEMMA FaultCounts ==
  ASSUME SessionInv, pFaults < MaxPortalFaults, pFaults' = pFaults + 1
  PROVE  /\ pFaults' \in 0..MaxPortalFaults
         /\ \A k \in JobKeys : pjobs[k].attempts <= pFaults' /\ pjobs[k].attempts <= pFaults' + 1
         /\ 0 <= pFaults' /\ 0 <= pFaults' + 1
<1>1. pFaults \in 0..MaxPortalFaults
    BY DEF SessionInv, SessionTypeOK
<1>2. \A k \in JobKeys : pjobs[k].attempts \in Nat
    BY SessionAssumption DEF SessionInv, SessionTypeOK, PortalJobRows
<1>3. \A k \in JobKeys : pjobs[k].attempts <= pFaults'
    BY DEF SessionInv, AttemptsFollowFaults
<1> QED
    BY <1>1, <1>2, <1>3, SessionAssumption

LEMMA FaultsKeep ==
  ASSUME SessionInv, WBrowserError \/ WCrash \/ GovernanceWithdrawn PROVE SessionInv'
<1>0. /\ srun \in SessionRunStatuses /\ bs \in [Sessions -> SessionRows] /\ login \in LoginRows
      /\ work \in WorkRows /\ pjobs \in [JobKeys -> PortalJobRows] /\ governed \in BOOLEAN
      /\ HeldByName(bs)
    BY DEF SessionInv, SessionTypeOK, HeldByName
<1>a. pFaults < MaxPortalFaults /\ pFaults' = pFaults + 1
    BY DEF WBrowserError, WCrash, GovernanceWithdrawn
<1>1. CASE WBrowserError
  <2>1. /\ pw.pc \in {"browser", "page"} /\ pw' = IdleWorker /\ UNCHANGED <<srun, login, governed>>
        /\ work' = WorkAfter(pjobs')
      BY <1>1 DEF WBrowserError
  <2>2. pw # IdleWorker
      BY <2>1, KeyParts
  <2>3. pw.job \in JobKeys
      BY <2>2, JobSession
  <2>4. work' \in WorkRows
      BY <1>0, <2>1, FixedRows DEF WorkAfter
  <2>5. PICK row \in {[pjobs[pw.job] EXCEPT !.status = "WAITING"], EndOf(pw.job)} :
            pjobs' = [pjobs EXCEPT ![pw.job] = row]
      BY <1>0, <1>1, <2>3 DEF WBrowserError
  <2>6. row \in PortalJobRows /\ (row.attempts = 0 \/ row.attempts = pjobs[pw.job].attempts)
    <3>1. CASE row = [pjobs[pw.job] EXCEPT !.status = "WAITING"]
        BY <1>0, <2>3, <3>1 DEF PortalJobRows, JobActive
    <3>2. CASE row = EndOf(pw.job)
        BY <3>2, FixedRows DEF EndOf
    <3> QED
        BY <2>5, <3>1, <3>2
  <2>7. pjobs' \in [JobKeys -> PortalJobRows]
      BY <1>0, <2>5, <2>6
  <2>8. \A k \in JobKeys : pjobs'[k].attempts = 0 \/ pjobs'[k].attempts = pjobs[k].attempts
      BY <1>0, <2>5, <2>6
  <2>9. AttemptsFollowFaults'
      BY <1>a, <2>8, FaultCounts DEF AttemptsFollowFaults
  <2>10. bs' \in [Sessions -> SessionRows] /\ HeldByName(bs')
    <3>1. CASE UNCHANGED bs
        BY <1>0, <3>1
    <3>2. CASE Kind = "START" /\ bs' = [bs EXCEPT ![TheSession].live = TRUE]
      <4>1. pw.job[1] = "START" /\ TheSession = pw.job[2] /\ TheSession \in Sessions
          BY <2>2, <3>2, JobSession
      <4>2. bs[TheSession].mine
          BY <2>1, <4>1 DEF SessionInv, StartIsNamed
      <4> QED
          BY <1>0, <3>2, <4>1, <4>2, BrowserRowsKeep, HeldKeeps
    <3> QED
        BY <1>1, <3>1, <3>2 DEF WBrowserError
  <2>11. StartIsNamed'
      BY <2>1, KeyParts DEF StartIsNamed
  <2>12. SessionTypeOK'
      BY <1>0, <1>a, <2>1, <2>4, <2>7, <2>10, FaultCounts DEF SessionTypeOK, HeldByName
  <2> QED
      BY <2>9, <2>11, <2>12 DEF SessionInv
<1>2. CASE WCrash
  <2>1. /\ pw' = IdleWorker /\ UNCHANGED <<srun, login, pjobs, work, governed>>
        /\ bs' = [s \in Sessions |-> [bs[s] EXCEPT !.live = FALSE, !.mine = FALSE]]
      BY <1>2 DEF WCrash
  <2>2. ASSUME NEW s \in Sessions
        PROVE  /\ [bs[s] EXCEPT !.live = FALSE, !.mine = FALSE] \in SessionRows
               /\ ~[bs[s] EXCEPT !.live = FALSE, !.mine = FALSE].live
      BY <1>0 DEF SessionRows
  <2>3. bs' \in [Sessions -> SessionRows] /\ \A s \in Sessions : ~bs'[s].live
      BY <2>1, <2>2
  <2>4. AttemptsFollowFaults'
      BY <1>a, <2>1, FaultCounts DEF AttemptsFollowFaults
  <2>5. StartIsNamed'
      BY <2>1, KeyParts DEF StartIsNamed
  <2>6. SessionTypeOK'
      BY <1>0, <1>a, <2>1, <2>3, FaultCounts DEF SessionTypeOK
  <2> QED
      BY <2>4, <2>5, <2>6 DEF SessionInv
<1>3. CASE GovernanceWithdrawn
  <2>1. UNCHANGED <<bs, login, pjobs, work, pw>> /\ srun' \in SessionRunStatuses
      BY <1>0, <1>3, RunStatusesWritten DEF GovernanceWithdrawn
  <2>2. governed' \in BOOLEAN
      BY <1>3 DEF GovernanceWithdrawn
  <2>3. AttemptsFollowFaults'
      BY <1>a, <2>1, FaultCounts DEF AttemptsFollowFaults
  <2>4. StartIsNamed'
      BY <2>1 DEF SessionInv, StartIsNamed
  <2>5. SessionTypeOK'
      BY <1>a, <2>1, <2>2, FaultCounts DEF SessionInv, SessionTypeOK
  <2> QED
      BY <2>3, <2>4, <2>5 DEF SessionInv
<1> QED
    BY <1>1, <1>2, <1>3

\* Expiry, by the worker or by the scheduler, and the recovery of a lease nobody holds.
LEMMA ExpiryKeeps ==
  ASSUME SessionInv
  PROVE  /\ \A s \in Sessions : WExpireSession(s) \/ ScheduledExpiry(s) => SessionInv'
         /\ \A k \in JobKeys : RecoverPortalLease(k) => SessionInv'
<1>0. /\ srun \in SessionRunStatuses /\ bs \in [Sessions -> SessionRows] /\ login \in LoginRows
      /\ work \in WorkRows /\ pjobs \in [JobKeys -> PortalJobRows] /\ governed \in BOOLEAN
      /\ HeldByName(bs)
    BY DEF SessionInv, SessionTypeOK, HeldByName
<1>1. ASSUME NEW s \in Sessions, WExpireSession(s) PROVE SessionInv'
  <2>1. /\ bs' = [bs EXCEPT ![s].status = "EXPIRED", ![s].live = FALSE]
        /\ srun' \in {srun, "BLOCKED"} /\ UNCHANGED <<login, pjobs, work, pw, governed, pFaults>>
      BY <1>1 DEF WExpireSession
  <2>2. ASSUME NEW r \in Sessions
        PROVE  /\ [bs[r] EXCEPT !.status = "EXPIRED", !.live = FALSE] \in SessionRows
               /\ ~[bs[r] EXCEPT !.status = "EXPIRED", !.live = FALSE].live
               /\ [bs[r] EXCEPT !.status = "EXPIRED", !.live = FALSE].mine = bs[r].mine
      BY <1>0 DEF SessionRows
  <2>3. bs' = [bs EXCEPT ![s] = [bs[s] EXCEPT !.status = "EXPIRED", !.live = FALSE]]
      BY <1>0, <2>1
  <2>4. /\ bs' \in [Sessions -> SessionRows] /\ ~bs'[s].live /\ bs'[s].mine = bs[s].mine
        /\ \A r \in Sessions : r # s => bs'[r] = bs[r]
      BY <1>0, <2>2, <2>3
  <2>5. \A r \in Sessions : bs'[r].live => bs'[r].mine
      BY <1>0, <2>4 DEF HeldByName
  <2>6. \A r \in Sessions : bs'[r].mine = bs[r].mine
      BY <2>4
  <2>7. StartIsNamed'
      BY <2>1, <2>6, NamesKeep
  <2>8. AttemptsFollowFaults'
      BY <2>1 DEF SessionInv, AttemptsFollowFaults
  <2>9. srun' \in SessionRunStatuses
      BY <1>0, <2>1, RunStatusesWritten
  <2>10. SessionTypeOK'
      BY <2>1, <2>4, <2>5, <2>9 DEF SessionInv, SessionTypeOK
  <2> QED
      BY <2>7, <2>8, <2>10 DEF SessionInv
<1>2. ASSUME NEW s \in Sessions, ScheduledExpiry(s) PROVE SessionInv'
  <2>1. /\ bs' = [bs EXCEPT ![s].status = "EXPIRED"] /\ pjobs' = PortalEnqueue(pjobs, <<"CLOSE", s>>)
        /\ UNCHANGED <<srun, login, work, pw, governed, pFaults>>
      BY <1>2 DEF ScheduledExpiry
  <2>2. "EXPIRED" \in SessionStatuses /\ <<"CLOSE", s>> \in JobKeys
      BY KeyParts DEF SessionStatuses
  <2>3. /\ bs' \in [Sessions -> SessionRows]
        /\ \A r \in Sessions : bs'[r].live = bs[r].live /\ bs'[r].mine = bs[r].mine
      BY <1>0, <2>1, <2>2, SessionRowsKeep
  <2> QED
      BY <1>0, <2>1, <2>2, <2>3, EnqueueWrites, QuietStep
<1>3. ASSUME NEW k \in JobKeys, RecoverPortalLease(k) PROVE SessionInv'
  <2>1. /\ pw.job # k /\ pjobs' = [pjobs EXCEPT ![k].status = "WAITING"]
        /\ UNCHANGED <<srun, bs, login, work, pw, governed, pFaults>>
      BY <1>3 DEF RecoverPortalLease
  <2>2. pjobs'[k] \in PortalJobRows /\ pjobs'[k].attempts = pjobs[k].attempts
      BY <1>0, <2>1 DEF PortalJobRows, JobActive
  <2>3. \A j \in JobKeys : j # k => pjobs'[j] = pjobs[j]
      BY <1>0, <2>1
  <2>4. pjobs' \in [JobKeys -> PortalJobRows]
      BY <1>0, <2>1, <2>2, <2>3
  <2>5. AttemptsFollowFaults'
      BY <2>1, <2>2, <2>3 DEF SessionInv, AttemptsFollowFaults
  <2>6. StartIsNamed'
      BY <2>1 DEF SessionInv, StartIsNamed
  <2>7. SessionTypeOK'
      BY <2>1, <2>4 DEF SessionInv, SessionTypeOK
  <2> QED
      BY <2>5, <2>6, <2>7 DEF SessionInv
<1> QED
    BY <1>1, <1>2, <1>3

LEMMA SessionInvStep == SessionInv /\ [SessionNext]_sessionVars => SessionInv'
<1> SUFFICES ASSUME SessionInv, [SessionNext]_sessionVars PROVE SessionInv'
    OBVIOUS
<1>1. CASE UNCHANGED sessionVars
    BY <1>1 DEF sessionVars, SessionInv, SessionTypeOK, AttemptsFollowFaults, StartIsNamed
<1> QED
    BY <1>1, SessionRequestsKeep, WorkerStepsKeep, ClaimKeeps, FaultsKeep, ExpiryKeeps DEF SessionNext

\* A browser the worker holds always belongs to a session that names this worker, and no job is
\* claimed more often than something failed, plus once (PortalBrowserWorker, claim_next).
THEOREM BrowsersAreNamed == SessionSpec => [](SessionTypeOK /\ AttemptsFollowFaults)
BY SessionInvInit, SessionInvStep, PTL DEF SessionSpec, SessionInv
-----------------------------------------------------------------------------
LEMMA PortalStep ==
  RunInv /\ SessionInv /\ [PortalMCNext]_<<focus, sessionVars, portalVars>> => (RunInv /\ SessionInv)'
<1> SUFFICES ASSUME RunInv, SessionInv, [PortalMCNext]_<<focus, sessionVars, portalVars>>
             PROVE  (RunInv /\ SessionInv)'
    OBVIOUS
<1>1. [SessionNext]_sessionVars /\ [PortalNext]_portalVars
    BY DEF PortalMCNext
<1> QED
    BY <1>1, RunInvStep, SessionInvStep

\* The invariant of portal assistance: run and sessions together, for every number of sessions,
\* faults and handoffs.
THEOREM PortalSafe == PortalMCSpec => []PortalInv
<1>1. PortalMCInit => RunInv /\ SessionInv
    BY RunInvInit, SessionInvInit DEF PortalMCInit
<1>2. RunInv /\ SessionInv => PortalInv
    BY DEF RunInv, SessionInv, PortalInv
<1> QED
    BY <1>1, <1>2, PortalStep, PTL DEF PortalMCSpec
=============================================================================
