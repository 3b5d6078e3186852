--------------------------- MODULE ComplianceCase ---------------------------
(***************************************************************************)
(* One compliance case: the stage matrix of app/licensing/stages.py and    *)
(* ComplianceCaseService.transition, with the forms whose signature it     *)
(* looks at (app/services/form_preparation_service.py) and the submission  *)
(* evidence that moves the case too.                                       *)
(*                                                                         *)
(* transition reads the case, checks, and commits without a lock. Requests *)
(* are atomic here except for one slow one, read before and committed      *)
(* after what others do; the ORM's UPDATE writes only the columns that     *)
(* differ from what was read.                                              *)
(***************************************************************************)
Abort == {"BLOCKED", "CANCELLED"}
TERMINAL_STAGES == {"COMPLETED", "CANCELLED"}
SubmittedStages == {"SUBMITTED_TO_VENDOR", "SUBMITTED_TO_REGULATOR"}
POST_SIGNATURE_STAGES == SubmittedStages \cup {"SUBMISSION_PENDING"}

\* ALLOWED_TRANSITIONS, every stage but the terminal ones also into BLOCKED and CANCELLED.
Forward ==
  [ DUE_IDENTIFIED |-> {"CASE_PLANNING"},
    CASE_PLANNING |-> {"VENDOR_OUTREACH_PENDING", "DOCUMENT_CHECKLIST_RECEIVED",
                       "DOCUMENTS_PENDING", "INTERNAL_INFORMATION_PENDING", "FORM_RECEIVED"},
    VENDOR_OUTREACH_PENDING |-> {"VENDOR_OUTREACH_SENT"},
    VENDOR_OUTREACH_SENT |-> {"VENDOR_QUESTIONS", "DOCUMENT_CHECKLIST_RECEIVED", "FORM_RECEIVED"},
    VENDOR_QUESTIONS |-> {"INTERNAL_INFORMATION_PENDING", "ANSWERS_READY"},
    INTERNAL_INFORMATION_PENDING |-> {"ANSWERS_READY", "VENDOR_QUESTIONS"},
    ANSWERS_READY |-> {"ANSWERS_SENT", "INTERNAL_INFORMATION_PENDING"},
    ANSWERS_SENT |-> {"DOCUMENT_CHECKLIST_RECEIVED", "VENDOR_QUESTIONS", "FORM_RECEIVED"},
    DOCUMENT_CHECKLIST_RECEIVED |-> {"DOCUMENTS_PENDING", "PACKET_BUILDING"},
    DOCUMENTS_PENDING |-> {"PACKET_BUILDING"},
    PACKET_BUILDING |-> {"PACKET_READY_FOR_REVIEW", "DOCUMENTS_PENDING"},
    PACKET_READY_FOR_REVIEW |-> {"PACKET_APPROVED", "PACKET_BUILDING"},
    PACKET_APPROVED |-> {"PACKET_SENT", "PACKET_BUILDING"},
    PACKET_SENT |-> {"FORM_RECEIVED", "VENDOR_QUESTIONS", "VENDOR_VALIDATION", "SUBMISSION_PENDING"},
    FORM_RECEIVED |-> {"FORM_PREPARATION"},
    FORM_PREPARATION |-> {"FORM_MISSING_INFORMATION", "FORM_READY_FOR_REVIEW"},
    FORM_MISSING_INFORMATION |-> {"FORM_PREPARATION", "INTERNAL_INFORMATION_PENDING",
                                  "FORM_READY_FOR_REVIEW"},
    FORM_READY_FOR_REVIEW |-> {"SIGNATURE_PENDING", "SUBMISSION_PENDING", "FORM_PREPARATION"},
    SIGNATURE_PENDING |-> {"SIGNED_FORM_RECEIVED", "FORM_PREPARATION"},
    SIGNED_FORM_RECEIVED |-> {"SUBMISSION_PENDING"},
    SUBMISSION_PENDING |-> SubmittedStages,
    SUBMITTED_TO_VENDOR |-> {"VENDOR_VALIDATION", "SUBMITTED_TO_REGULATOR", "DEFICIENCY_RECEIVED"},
    SUBMITTED_TO_REGULATOR |-> {"REGULATOR_REVIEW", "DEFICIENCY_RECEIVED",
                                "RENEWED_EVIDENCE_RECEIVED"},
    VENDOR_VALIDATION |-> {"SUBMITTED_TO_REGULATOR", "REGULATOR_REVIEW", "DEFICIENCY_RECEIVED",
                           "FORM_PREPARATION"},
    REGULATOR_REVIEW |-> {"DEFICIENCY_RECEIVED", "RENEWED_EVIDENCE_RECEIVED"},
    DEFICIENCY_RECEIVED |-> {"INTERNAL_INFORMATION_PENDING", "DOCUMENTS_PENDING",
                             "FORM_PREPARATION", "PACKET_BUILDING"},
    RENEWED_EVIDENCE_RECEIVED |-> {"INVENTORY_UPDATE_PENDING"},
    INVENTORY_UPDATE_PENDING |-> {"COMPLETED"},
    BLOCKED |-> {"CASE_PLANNING", "VENDOR_OUTREACH_PENDING", "VENDOR_QUESTIONS",
                 "INTERNAL_INFORMATION_PENDING", "DOCUMENTS_PENDING", "PACKET_BUILDING",
                 "FORM_PREPARATION", "SIGNATURE_PENDING", "SUBMISSION_PENDING",
                 "REGULATOR_REVIEW"},
    COMPLETED |-> {}, CANCELLED |-> {} ]

Stages == DOMAIN Forward
ALLOWED_TRANSITIONS(s) ==
  IF s \in TERMINAL_STAGES THEN {} ELSE (Forward[s] \cup Abort) \ {s}

WaitingVendor == {"VENDOR_OUTREACH_SENT", "ANSWERS_SENT", "PACKET_SENT", "SUBMITTED_TO_VENDOR",
                  "VENDOR_VALIDATION"}
WaitingInternal == {"VENDOR_QUESTIONS", "INTERNAL_INFORMATION_PENDING", "DOCUMENTS_PENDING",
                    "FORM_MISSING_INFORMATION"}
STAGE_STATUS(s) ==
  CASE s = "DUE_IDENTIFIED" -> "OPEN"
    [] s \in WaitingVendor -> "WAITING_VENDOR"
    [] s \in WaitingInternal -> "WAITING_INTERNAL"
    [] s = "SIGNATURE_PENDING" -> "WAITING_SIGNATURE"
    [] s = "SUBMISSION_PENDING" -> "WAITING_SUBMISSION"
    [] s \in {"SUBMITTED_TO_REGULATOR", "REGULATOR_REVIEW"} -> "WAITING_REGULATOR"
    [] s \in TERMINAL_STAGES \cup {"BLOCKED"} -> s
    [] OTHER -> "IN_PROGRESS"

CaseStatuses == {STAGE_STATUS(s) : s \in Stages}
-----------------------------------------------------------------------------
VARIABLES
  ccase,      \* compliance_cases: current_stage, status, close_reason
  renewal,    \* the RENEWED_EVIDENCE_RECEIVED events of the append-only stage history
  caseForms,      \* signature_required and signed_document_id of the case's form instances
  duty,       \* status of the case's obligation
  slow        \* the transition that was checked and is not committed yet

caseVars == <<ccase, renewal, caseForms, duty, slow>>

CaseRows == [stage : Stages, status : CaseStatuses, closed : BOOLEAN]
\* proven: such an event names a document; unproven: events, but no document.
RenewalEvents == {"none", "unproven", "proven"}
CaseFormRows == [required : BOOLEAN, signed : BOOLEAN]
NoTransition == [to |-> "-", status |-> "-"]

\* Rows keep their types, a signature is only recorded for a form that needs one, and the
\* obligation is SATISFIED as soon as its case is COMPLETED.
CaseTypeOK ==
  /\ ccase \in CaseRows /\ renewal \in RenewalEvents /\ caseForms \in CaseFormRows
  /\ duty \in {"IN_CASE", "SATISFIED"}
  /\ slow = NoTransition \/ slow \in [to : Stages, status : CaseStatuses]
  /\ caseForms.signed => caseForms.required
  /\ ccase.stage = "COMPLETED" => duty = "SATISFIED"

\* open_case.
CaseInit ==
  /\ ccase = [stage |-> "DUE_IDENTIFIED", status |-> "OPEN", closed |-> FALSE]
  /\ renewal = "none" /\ caseForms = [required |-> FALSE, signed |-> FALSE]
  /\ duty = "IN_CASE" /\ slow = NoTransition
-----------------------------------------------------------------------------
RenewalNeedsNothing(to) == to \in {"VENDOR_OUTREACH_SENT", "ANSWERS_SENT"} \cup SubmittedStages
\* STAGE_EVIDENCE_REQUIREMENTS: the caller's payload must name a reference; what it is worth is
\* not looked at. The approved packet's and the signed form's are filled in when left out.
NeedsEvidence(to) ==
  to \in {"VENDOR_OUTREACH_SENT", "ANSWERS_SENT", "PACKET_APPROVED", "PACKET_SENT",
          "SIGNED_FORM_RECEIVED", "RENEWED_EVIDENCE_RECEIVED"} \cup SubmittedStages

EvidenceGiven(to, given) == given \/ (to = "SIGNED_FORM_RECEIVED" /\ caseForms.signed)

\* A form that needs a signature blocks the submission stages until one is signed.
SignatureSettled(to) == to \in POST_SIGNATURE_STAGES /\ caseForms.required => caseForms.signed

\* validate_transition.
ValidateTransition(from, to, given, reason) ==
  /\ to \in ALLOWED_TRANSITIONS(from)
  /\ NeedsEvidence(to) => EvidenceGiven(to, given)
  /\ SignatureSettled(to)
  /\ to = "COMPLETED" => renewal # "none" \/ reason \/ ccase.closed

\* The obligation of a completed case is satisfied in the same transaction.
ObligationAfter(to) == IF to = "COMPLETED" THEN "SATISFIED" ELSE duty

\* What transition writes: stage, the status that goes with it, the event, the obligation.
\* The status column is only part of the UPDATE where it differs from the one that was read.
Transitioned(read, to, given, reason) ==
  /\ ccase' = [stage |-> to, closed |-> ccase.closed \/ reason,
               status |-> IF STAGE_STATUS(to) = read THEN ccase.status ELSE STAGE_STATUS(to)]
  /\ renewal' = CASE to # "RENEWED_EVIDENCE_RECEIVED" -> renewal
                   [] to = "RENEWED_EVIDENCE_RECEIVED" /\ given -> "proven"
                   [] OTHER -> IF renewal = "proven" THEN renewal ELSE "unproven"
  /\ duty' = ObligationAfter(to)

\* A transition that nothing interleaves with; also _advance_case of the submission evidence.
TransitionCase ==
  /\ \E to \in Stages, given, reason \in BOOLEAN :
       /\ ValidateTransition(ccase.stage, to, given, reason)
       /\ Transitioned(ccase.status, to, given, reason)
  /\ UNCHANGED <<caseForms, slow>>

TransitionReads ==
  /\ slow = NoTransition
  /\ \E to \in Stages : /\ ValidateTransition(ccase.stage, to, TRUE, FALSE)
                        /\ slow' = [to |-> to, status |-> ccase.status]
  /\ UNCHANGED <<ccase, renewal, caseForms, duty>>

TransitionCommits ==
  /\ slow # NoTransition /\ Transitioned(slow.status, slow.to, TRUE, FALSE)
  /\ slow' = NoTransition /\ UNCHANGED caseForms

\* A form instance that needs a signature is created, and later signed.
FormNeedsSignature ==
  /\ ~caseForms.required /\ caseForms' = [required |-> TRUE, signed |-> FALSE]
  /\ UNCHANGED <<ccase, renewal, duty, slow>>

FormIsSigned ==
  /\ caseForms.required /\ ~caseForms.signed /\ caseForms' = [caseForms EXCEPT !.signed = TRUE]
  /\ UNCHANGED <<ccase, renewal, duty, slow>>

CaseNext ==
  \/ TransitionCase \/ TransitionReads \/ TransitionCommits
  \/ FormNeedsSignature \/ FormIsSigned

CaseSpec == CaseInit /\ [][CaseNext]_caseVars
-----------------------------------------------------------------------------
\* A case is completed only after an event that names a renewed-evidence document, whichever
\* way round through deficiencies and blocks it went and whatever a stale request commits:
\* neither being blocked nor a close reason loses the need for evidence.
CompletedHasEvidence == ccase.stage = "COMPLETED" => renewal = "proven"

\* Nobody submits while the case's forms are unsigned, unless the form came after the check of
\* a request that was slow to commit.
SubmissionIsSigned ==
  [][ccase'.stage \in POST_SIGNATURE_STAGES /\ ccase'.stage # ccase.stage /\ slow' = slow
       => (caseForms.required => caseForms.signed)]_caseVars

\* The invariant of a case: completed only on renewed evidence.
CaseInv == CaseTypeOK /\ CompletedHasEvidence
=============================================================================
