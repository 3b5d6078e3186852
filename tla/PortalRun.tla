------------------------------ MODULE PortalRun ------------------------------
(***************************************************************************)
(* The filing of one portal run: its entry and validation results, the     *)
(* pre-submission snapshot, attestation and payment, the final-submit      *)
(* handoff and the capture of the result. Source: app/services/            *)
(* portal_run_service.py, portal_entry_service.py,                         *)
(* submission_evidence_service.py and the handlers of                      *)
(* app/workers/portal_jobs.py that write these rows.                       *)
(*                                                                         *)
(* Browser sessions are module PortalSession's part: here the worker's     *)
(* page is whatever it is when it is looked at, and a job may fail for its *)
(* session. A request is one transaction; a job's effect and its mark are  *)
(* two, and a crashed job runs again.                                      *)
(***************************************************************************)
EXTENDS Naturals

CONSTANTS
  MaxHandoffs,      \* bound: final-submit handoffs of the run
  MaxRunFaults      \* bound: crashes of the worker

ASSUME PortalRunAssumption == MaxHandoffs \in Nat /\ MaxRunFaults \in Nat

VARIABLES
  prun,       \* portal_runs.status
  pcase,      \* the compliance case's stage
  clean,      \* every field and document verified, no blocking validation message
  snap,       \* pre_submission_snapshots: the latest, and whether one is APPROVED
  attest,     \* portal_attestation_records.status
  pay,        \* portal_payment_records.status
  fin,        \* the latest FINAL_SUBMIT handoff
  evid,       \* submission_evidence rows written by capture_submission_result
  capture,    \* the capture job of that handoff
  edit,       \* an entry, upload, validation or reconciliation job
  rFaults

portalVars == <<prun, pcase, clean, snap, attest, pay, fin, evid, capture, edit, rFaults>>

\* OPEN stands for the statuses no guard tells apart: SESSION_ACTIVE, WAITING_*, *_IN_PROGRESS,
\* VALIDATION_REQUIRED, DISCREPANCIES_FOUND, the two review statuses, SUBMISSION_RESULT_PENDING,
\* SUBMISSION_FAILED, BLOCKED and FAILED_REVIEW.
RunStatuses == {"OPEN", "CANCELLED", "SUBMITTED"}
FinalRows == [status : {"NONE", "REQUESTED", "ACTIVE", "COMPLETED", "DECLINED"},
              gen : 0..MaxHandoffs]
\* latest: the last snapshot's status; approved: one of them is APPROVED.
SnapshotRows == [latest : {"NONE", "READY_FOR_REVIEW", "DECIDED"}, approved : BOOLEAN]
AttestStatuses == {"NONE", "WAITING", "COMPLETED_BY_HUMAN"}
PaymentStatuses == {"NONE", "REVIEW_REQUIRED", "APPROVED", "PAID_EXTERNALLY"}
\* applied: the transaction of the result is committed, the job's own mark is not.
RunJobStatus == {"NONE", "WAITING", "RUNNING", "applied", "ENDED"}
\* PAGE stands for NAVIGATE_PORTAL and RECONCILE_SESSION.
EditRows == [type : {"-", "ENTER", "UPLOAD", "VALIDATE", "PAGE"}, status : RunJobStatus]
NoEdit == [type |-> "-", status |-> "NONE"]

\* Rows keep their types, and a reviewer's approval is of the latest snapshot or was decided
\* before it.
PortalTypeOK ==
  /\ prun \in RunStatuses /\ pcase \in {"SUBMISSION_PENDING", "SUBMITTED"} /\ clean \in BOOLEAN
  /\ snap \in SnapshotRows /\ attest \in AttestStatuses /\ pay \in PaymentStatuses /\ evid \in Nat
  /\ fin \in FinalRows /\ capture \in RunJobStatus /\ edit \in EditRows
  /\ rFaults \in 0..MaxRunFaults
  /\ capture # "NONE" => fin.status \in {"ACTIVE", "COMPLETED", "DECLINED"}

PortalInit ==
  /\ prun = "OPEN" /\ pcase = "SUBMISSION_PENDING" /\ clean = FALSE
  /\ snap = [latest |-> "NONE", approved |-> FALSE]
  /\ attest = "NONE" /\ pay = "NONE" /\ fin = [status |-> "NONE", gen |-> 0] /\ evid = 0
  /\ capture = "NONE" /\ edit = NoEdit /\ rFaults = 0
-----------------------------------------------------------------------------
\* _invalidate_snapshot: only an APPROVED snapshot is superseded.
InvalidateSnapshot == snap' = [snap EXCEPT !.approved = FALSE]
StatusAfterInvalidation == IF snap.approved THEN "OPEN" ELSE prun

\* update_run: any edit invalidates the approval.
PUpdate ==
  /\ prun = "OPEN" /\ snap.approved /\ InvalidateSnapshot
  /\ UNCHANGED <<prun, pcase, clean, attest, pay, fin, evid, capture, edit, rFaults>>

\* cancel: waiting jobs are cancelled, a running one is not.
PCancel ==
  /\ prun = "OPEN" /\ prun' = "CANCELLED"
  /\ capture' = (IF capture = "WAITING" THEN "ENDED" ELSE capture)
  /\ edit' = (IF edit.status = "WAITING" THEN NoEdit ELSE edit)
  /\ UNCHANGED <<pcase, clean, snap, attest, pay, fin, evid, rFaults>>

\* queue_field_entry, queue_document_upload, queue_validation, queue_navigation: the run's
\* status is not a condition. An upload requires its documents to be verified again. (One such
\* job at a time is followed.)
PQueue(type) ==
  /\ edit = NoEdit /\ edit' = [type |-> type, status |-> "WAITING"]
  /\ UNCHANGED <<pcase, snap, attest, pay, fin, evid, capture, rFaults>>
PQueueFieldEntry == PQueue("ENTER") /\ prun' = "OPEN" /\ UNCHANGED clean
PQueueDocumentUpload == PQueue("UPLOAD") /\ prun' = "OPEN" /\ clean' = FALSE
PQueueValidation == PQueue("VALIDATE") /\ UNCHANGED <<prun, clean>>
PQueueNavigation == PQueue("PAGE") /\ UNCHANGED <<prun, clean>>

\* record_human_field_observation. (Its counterpart for documents, verify_document, ends
\* without a commit: the request changes nothing.)
PObserveField ==
  /\ clean' \in {clean, FALSE} /\ (clean' # clean \/ snap.approved)
  /\ InvalidateSnapshot /\ prun' = StatusAfterInvalidation
  /\ UNCHANGED <<pcase, attest, pay, fin, evid, capture, edit, rFaults>>

\* create_snapshot: a new one neither supersedes nor checks an APPROVED one.
PCreateSnapshot ==
  /\ snap' = [snap EXCEPT !.latest = IF clean THEN "READY_FOR_REVIEW" ELSE "DECIDED"]
  /\ prun' = "OPEN"
  /\ UNCHANGED <<pcase, clean, attest, pay, fin, evid, capture, edit, rFaults>>

\* approve_snapshot, by somebody else than its creator: the hash is that of the stored
\* manifests; the fields are not read again.
PApproveSnapshot ==
  /\ snap.latest = "READY_FOR_REVIEW"
  /\ snap' = [latest |-> "DECIDED", approved |-> TRUE] /\ prun' = "OPEN"
  /\ UNCHANGED <<pcase, clean, attest, pay, fin, evid, capture, edit, rFaults>>

PRejectSnapshot ==
  /\ snap.latest = "READY_FOR_REVIEW"
  /\ snap' = [snap EXCEPT !.latest = "DECIDED"] /\ prun' = "OPEN"
  /\ UNCHANGED <<pcase, clean, attest, pay, fin, evid, capture, edit, rFaults>>
-----------------------------------------------------------------------------
\* record_attestation_completion (record_signature_completion writes its handoff alike): the
\* run goes back to WAITING_OPERATOR whatever it was.
PCompleteAttestation ==
  /\ attest = "WAITING" /\ attest' = "COMPLETED_BY_HUMAN" /\ prun' \in {prun, "OPEN"}
  /\ UNCHANGED <<pcase, clean, snap, pay, fin, evid, capture, edit, rFaults>>

PApprovePayment ==
  /\ pay = "REVIEW_REQUIRED" /\ pay' = "APPROVED"
  /\ UNCHANGED <<prun, pcase, clean, snap, attest, fin, evid, capture, edit, rFaults>>

PRecordPayment ==
  /\ pay = "APPROVED" /\ pay' = "PAID_EXTERNALLY" /\ prun' \in {prun, "OPEN"}
  /\ UNCHANGED <<pcase, clean, snap, attest, fin, evid, capture, edit, rFaults>>

FinalOpen == fin.status \in {"REQUESTED", "ACTIVE"}
ReadyToSubmit == snap.approved /\ attest # "WAITING" /\ pay \in {"NONE", "PAID_EXTERNALLY"}
\* create_handoff: an open handoff of the type is returned as it is. (The model follows one
\* capture job at a time: a new handoff waits for that of the one before.)
CreateFinalHandoff ==
  /\ ~FinalOpen /\ fin.gen < MaxHandoffs /\ capture \in {"NONE", "ENDED"}
  /\ fin' = [status |-> "REQUESTED", gen |-> fin.gen + 1] /\ capture' = "NONE"

\* request_final_submit_handoff.
PRequestFinalSubmit ==
  /\ ReadyToSubmit /\ CreateFinalHandoff /\ prun' = "OPEN"
  /\ UNCHANGED <<pcase, clean, snap, attest, pay, evid, edit, rFaults>>

PAcceptHandoff ==
  /\ fin.status = "REQUESTED" /\ fin' = [fin EXCEPT !.status = "ACTIVE"]
  /\ UNCHANGED <<prun, pcase, clean, snap, attest, pay, evid, capture, edit, rFaults>>

PDeclineHandoff ==
  /\ FinalOpen /\ fin' = [fin EXCEPT !.status = "DECLINED"] /\ prun' = "OPEN"
  /\ UNCHANGED <<pcase, clean, snap, attest, pay, evid, capture, edit, rFaults>>

\* request_submission_reconciliation: the person reports; one capture job per handoff, whatever
\* became of it.
PReportSubmission ==
  /\ fin.status = "ACTIVE" /\ prun # "SUBMITTED" /\ prun' = "OPEN"
  /\ capture' = (IF capture = "NONE" THEN "WAITING" ELSE capture)
  /\ UNCHANGED <<pcase, clean, snap, attest, pay, fin, evid, edit, rFaults>>
-----------------------------------------------------------------------------
\* The worker, one job at a time.
WorkerBusy == {"RUNNING", "applied"} \cap {capture, edit.status} # {}
RClaim ==
  /\ ~WorkerBusy
  /\ \/ capture = "WAITING" /\ capture' = "RUNNING" /\ UNCHANGED edit
     \/ edit.status = "WAITING" /\ edit' = [edit EXCEPT !.status = "RUNNING"] /\ UNCHANGED capture
  /\ UNCHANGED <<prun, pcase, clean, snap, attest, pay, fin, evid, rFaults>>

\* A StateConflictError or a last failure: the rows are rolled back, the job ends, and
\* _fail_run_review writes whatever status the run has.
RFails ==
  /\ \/ capture = "RUNNING" /\ capture' = "ENDED" /\ UNCHANGED edit
     \/ edit.status = "RUNNING" /\ edit' = NoEdit /\ UNCHANGED capture
  /\ prun' = "OPEN"
  /\ UNCHANGED <<pcase, clean, snap, attest, pay, fin, evid, rFaults>>

Applies(type) == edit = [type |-> type, status |-> "RUNNING"]
                   /\ edit' = [edit EXCEPT !.status = "applied"] /\ prun' = "OPEN"

\* ENTER_FIELDS: every entered value is read back; any change of a field supersedes the
\* approved snapshot. The run's status is written whatever it has become.
REnterFields ==
  /\ Applies("ENTER")
  /\ \/ clean' \in BOOLEAN /\ InvalidateSnapshot
     \/ UNCHANGED <<clean, snap>>
  /\ UNCHANGED <<pcase, attest, pay, fin, evid, capture, rFaults>>

\* UPLOAD_DOCUMENTS: likewise, for the documents.
RUploadDocuments ==
  /\ Applies("UPLOAD")
  /\ \/ clean' \in BOOLEAN /\ InvalidateSnapshot
     \/ UNCHANGED <<clean, snap>>
  /\ UNCHANGED <<pcase, attest, pay, fin, evid, capture, rFaults>>

\* RUN_PORTAL_VALIDATION through capture_validation.
RValidate ==
  /\ Applies("VALIDATE") /\ clean' \in BOOLEAN /\ InvalidateSnapshot
  /\ UNCHANGED <<pcase, attest, pay, fin, evid, capture, rFaults>>

\* A page that asks for nobody; the run's status stays.
RPlainPage ==
  /\ edit = [type |-> "PAGE", status |-> "RUNNING"] /\ edit' = [edit EXCEPT !.status = "applied"]
  /\ UNCHANGED <<prun, pcase, clean, snap, attest, pay, fin, evid, capture, rFaults>>

\* _reconcile on an attestation page: the record is made once per text.
RAttestationPage ==
  /\ Applies("PAGE") /\ attest' = (IF attest = "NONE" THEN "WAITING" ELSE attest)
  /\ UNCHANGED <<pcase, clean, snap, pay, fin, evid, capture, rFaults>>

\* _reconcile on a payment page: a changed fee reopens an approved payment.
RPaymentPage ==
  /\ Applies("PAGE")
  /\ pay' = (IF pay \in {"NONE", "APPROVED"} THEN "REVIEW_REQUIRED" ELSE pay)
  /\ UNCHANGED <<pcase, clean, snap, attest, fin, evid, capture, rFaults>>

\* _reconcile on a page of the category final_submit: the handoff is created as for any other
\* human-only page.
RFinalPage ==
  /\ Applies("PAGE") /\ CreateFinalHandoff
  /\ UNCHANGED <<pcase, clean, snap, attest, pay, evid, rFaults>>

AdvanceAnyCase == TRUE
\* _advance_case: submission evidence cannot bypass stages.
AdvanceCase == pcase = "SUBMISSION_PENDING"
\* capture_submission_result's conditions on the handoff and the run.
CaptureAllowed == fin.status \in {"ACTIVE", "COMPLETED"} /\ prun # "SUBMITTED"

\* CAPTURE_SUBMISSION_RESULT: ambiguous, failed, or confirmed with evidence and the case.
RCapture ==
  /\ capture = "RUNNING" /\ capture' = "applied"
  /\ \/ prun' = "OPEN" /\ UNCHANGED <<pcase, fin, evid>>
     \/ /\ CaptureAllowed /\ prun' = "OPEN"
        /\ fin' = [fin EXCEPT !.status = "COMPLETED"] /\ UNCHANGED <<pcase, evid>>
     \/ /\ CaptureAllowed /\ AdvanceCase /\ prun' = "SUBMITTED"
        /\ fin' = [fin EXCEPT !.status = "COMPLETED"]
        /\ evid' = evid + 1 /\ pcase' = "SUBMITTED"
  /\ UNCHANGED <<clean, snap, attest, pay, edit, rFaults>>

\* mark_completed, mark_waiting_human: a commit of their own.
RMark ==
  /\ \/ capture = "applied" /\ capture' = "ENDED" /\ UNCHANGED edit
     \/ edit.status = "applied" /\ edit' = NoEdit /\ UNCHANGED capture
  /\ UNCHANGED <<prun, pcase, clean, snap, attest, pay, fin, evid, rFaults>>

\* The worker dies and the scheduler recovers the lease: the job runs again, a read-only job
\* with its one attempt included.
RCrash ==
  /\ WorkerBusy /\ rFaults < MaxRunFaults /\ rFaults' = rFaults + 1
  /\ capture' = (IF capture \in {"RUNNING", "applied"} THEN "WAITING" ELSE capture)
  /\ edit' = [edit EXCEPT !.status = IF @ \in {"RUNNING", "applied"} THEN "WAITING" ELSE @]
  /\ UNCHANGED <<prun, pcase, clean, snap, attest, pay, fin, evid>>
-----------------------------------------------------------------------------
RunRequests ==
  \/ PUpdate \/ PCancel \/ PObserveField
  \/ PQueueFieldEntry \/ PQueueDocumentUpload \/ PQueueValidation \/ PQueueNavigation
  \/ PCreateSnapshot \/ PApproveSnapshot \/ PRejectSnapshot
  \/ PAcceptHandoff \/ PDeclineHandoff

SubmissionRequests ==
  PCompleteAttestation \/ PApprovePayment \/ PRecordPayment \/ PRequestFinalSubmit \/ PReportSubmission

HandleJob ==
  \/ REnterFields \/ RUploadDocuments \/ RValidate \/ RCapture
  \/ RPlainPage \/ RAttestationPage \/ RPaymentPage \/ RFinalPage

PortalNext == RunRequests \/ SubmissionRequests \/ HandleJob \/ RClaim \/ RFails \/ RMark \/ RCrash

PortalSpec == PortalInit /\ [][PortalNext]_portalVars
-----------------------------------------------------------------------------
\* A filing is recorded once, together with the case's advance: not twice when the worker dies
\* between the evidence and the job's mark, not for a second handoff, and not when a late job
\* has overwritten the run's SUBMITTED.
SubmittedOnce == evid <= 1 /\ (evid = 1 <=> pcase = "SUBMITTED")
=============================================================================
