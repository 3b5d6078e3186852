--------------------------- MODULE FormPreparation ---------------------------
(***************************************************************************)
(* Controlled forms (app/services/form_preparation_service.py, app/forms)  *)
(* filled from the registry of reusable answers (app/services/             *)
(* information_registry_service.py, app/information_registry).             *)
(*                                                                         *)
(* One case of the legal entity "ours", one template, one registry         *)
(* definition that the mapped fields read.  Requests are atomic, except    *)
(* that creating an instance commits before it is prefilled; the           *)
(* PREPARE_FORM job reads the instance, downloads the template, renders,   *)
(* uploads, and keeps the status it read at first all along.               *)
(***************************************************************************)
EXTENDS Naturals, Sequences, FiniteSets

CONSTANTS
  FormFields,    \* fields of the template: key |-> [type, required]
  InfoPolicy,    \* reusable_policy of the definition
  Preparers,     \* licensing workers that may run PREPARE_FORM
  PatchStatuses, \* field statuses a patch gives: outstanding, signature or neither is all the code tells apart
  MaxInfos, MaxForms, MaxFormEdits

ASSUME FormBounds == MaxInfos \in Nat /\ MaxForms \in Nat /\ MaxFormEdits \in Nat

\* The deployed topology has one general worker, which handles one job at a time (railway.worker.json).
ASSUME OneGeneralWorker == Cardinality(Preparers) = 1
-----------------------------------------------------------------------------
ReusablePolicies == {"ENTITY_ONLY", "ALL_ENTITIES_APPROVED", "NOT_REUSABLE"}
InformationValueStatuses == {"DRAFT", "PENDING_APPROVAL", "APPROVED", "EXPIRED", "SUPERSEDED", "REJECTED"}
Freshness == {"FRESH", "STALE", "EXPIRED"}
FormTemplateStatuses == {"DRAFT", "PENDING_REVIEW", "ACTIVE"}
FormInstanceStatuses == {"DRAFT", "PREFILLED", "MISSING_INFORMATION", "READY_FOR_REVIEW",
  "SIGNATURE_PENDING", "SIGNED", "READY_FOR_SUBMISSION", "SUBMITTED_EXTERNALLY"}
FROZEN_INSTANCE_STATUSES == {"SIGNATURE_PENDING", "SIGNED", "READY_FOR_SUBMISSION", "SUBMITTED_EXTERNALLY"}
\* AUTO_FILLED and the statuses that a patch gives; "-": the row does not exist.
FormFieldValueStatuses == {"-", "AUTO_FILLED", "MANUALLY_FILLED", "NEEDS_INFORMATION",
  "NEEDS_REVIEW", "SIGNATURE_REQUIRED", "MANUAL_ONLY", "NOT_APPLICABLE"}
OUTSTANDING_FIELD_STATUSES == {"NEEDS_INFORMATION", "NEEDS_REVIEW"}
HUMAN_EXECUTION_FIELD_TYPES == {"SIGNATURE", "INITIALS", "ATTESTATION"}

ASSUME PatchAssumption == PatchStatuses \subseteq FormFieldValueStatuses \ {"-"}

Signs(f) == FormFields[f].type \in HUMAN_EXECUTION_FIELD_TYPES

VARIABLES
  infos,      \* information_values of the definition
  template,   \* form_templates.status
  mapping,    \* status of the active form_field_mapping of every field ("-": none)
  forms,      \* form_instances with their field values
  prepares,   \* PREPARE_FORM jobs
  drafts,     \* stored drafts: content |-> whether a reviewer approved the document
  formEdits   \* second thoughts so far: patches, rejections, renewed inspections, time

formVars == <<infos, template, mapping, forms, prepares, drafts, formEdits>>

InfoRows == [status : InformationValueStatuses, entity : {"ours", "theirs", "-"}, ver : 1..MaxInfos,
             cross : BOOLEAN, fresh : Freshness, approved : BOOLEAN]
\* A value is the registry row it was copied from, 0 for none, or one typed by hand.
TypedByHand == MaxInfos + 1
FieldRows == [status : FormFieldValueStatuses, val : 0..TypedByHand]
NoRows == [f \in DOMAIN FormFields |-> [status |-> "-", val |-> 0]]
Contents == [DOMAIN FormFields -> 0..TypedByHand]
NoDraft == [f \in DOMAIN FormFields |-> TypedByHand + 1]
\* A scan of the signed paper: bytes like no draft's.
Scan == [f \in DOMAIN FormFields |-> TypedByHand + 2]
FormRows == [status : FormInstanceStatuses, fields : [DOMAIN FormFields -> FieldRows],
             signature_required : BOOLEAN, snapshot : Contents \cup {NoDraft},
             draft : Contents \cup {NoDraft}, approved_draft : Contents \cup {NoDraft},
             signed : Contents \cup {NoDraft, Scan}]
PrepareRows == [form : 1..MaxForms, st : {"PENDING", "READ", "RENDERED", "COMPLETED", "FAILED_REVIEW"},
                seen : FormInstanceStatuses, content : Contents \cup {NoDraft}]

Outstanding(i) == {f \in DOMAIN FormFields : forms[i].fields[f].status \in OUTSTANDING_FIELD_STATUSES}

\* Rows keep their types, at most one value of a scope is APPROVED, and what a frozen form was
\* approved with is the reviewed document it holds.
FormTypeOK ==
  /\ infos \in Seq(InfoRows) /\ template \in FormTemplateStatuses
  /\ mapping \in [DOMAIN FormFields -> {"-", "PROPOSED", "APPROVED"}]
  /\ forms \in Seq(FormRows) /\ prepares \in Seq(PrepareRows)
  /\ DOMAIN drafts \subseteq Contents /\ \A d \in DOMAIN drafts : drafts[d] \in BOOLEAN
  /\ formEdits \in 0..MaxFormEdits
  /\ \A i, j \in DOMAIN infos :
       infos[i].status = "APPROVED" /\ infos[j].status = "APPROVED" /\ infos[i].entity = infos[j].entity => i = j
  /\ \A i \in DOMAIN forms : forms[i].status \in FROZEN_INSTANCE_STATUSES =>
       forms[i].approved_draft = forms[i].draft /\ forms[i].draft \in {d \in DOMAIN drafts : drafts[d]}

FormInit ==
  /\ infos = <<>> /\ template = "DRAFT" /\ mapping = [f \in DOMAIN FormFields |-> "-"]
  /\ forms = <<>> /\ prepares = <<>> /\ drafts = <<>> /\ formEdits = 0
-----------------------------------------------------------------------------
(* The information registry.                                               *)

InfoFrame == UNCHANGED <<template, mapping, forms, prepares, drafts>>
SecondThought == formEdits < MaxFormEdits /\ formEdits' = formEdits + 1

InfoHighest(e) == Cardinality({i \in DOMAIN infos : infos[i].entity = e})

ProposeValue(e) ==
  /\ Len(infos) < MaxInfos
  /\ e = "-" => InfoPolicy = "ALL_ENTITIES_APPROVED"
  /\ infos' = Append(infos, [status |-> "DRAFT", entity |-> e, ver |-> InfoHighest(e) + 1,
                             cross |-> FALSE, fresh |-> "FRESH", approved |-> FALSE])
  /\ UNCHANGED formEdits /\ InfoFrame

SubmitForApproval(i) ==
  /\ infos[i].status = "DRAFT" /\ infos' = [infos EXCEPT ![i].status = "PENDING_APPROVAL"]
  /\ UNCHANGED formEdits /\ InfoFrame

\* The approved value of the same scope, which approval supersedes.
SupersededBy(i) ==
  {j \in DOMAIN infos : j # i /\ infos[j].entity = infos[i].entity /\ infos[j].status = "APPROVED"}

ApproveValue(i, cross) ==
  /\ infos[i].status \in {"DRAFT", "PENDING_APPROVAL"}
  /\ cross => InfoPolicy = "ALL_ENTITIES_APPROVED"
  /\ infos' = [j \in DOMAIN infos |->
       CASE j = i -> [infos[j] EXCEPT !.status = "APPROVED", !.approved = TRUE, !.cross = @ \/ cross]
         [] j \in SupersededBy(i) -> [infos[j] EXCEPT !.status = "SUPERSEDED"]
         [] OTHER -> infos[j]]
  /\ UNCHANGED formEdits /\ InfoFrame

\* reject_value and supersede_value look at no status.
RejectValue(i) == SecondThought /\ infos' = [infos EXCEPT ![i].status = "REJECTED"] /\ InfoFrame
SupersedeValue(i) == SecondThought /\ infos' = [infos EXCEPT ![i].status = "SUPERSEDED"] /\ InfoFrame

\* Time passes the freshness of an approval, or the end of a value's validity.
ValueAges(i) ==
  /\ \/ infos[i].fresh = "FRESH" /\ infos' = [infos EXCEPT ![i].fresh = "STALE"]
     \/ infos[i].fresh # "EXPIRED" /\ infos' = [infos EXCEPT ![i].fresh = "EXPIRED"]
  /\ SecondThought /\ InfoFrame

ExpireStaleValues ==
  /\ \E i \in DOMAIN infos : infos[i].status = "APPROVED" /\ infos[i].fresh = "EXPIRED"
  /\ infos' = [i \in DOMAIN infos |->
       IF infos[i].status = "APPROVED" /\ infos[i].fresh = "EXPIRED"
       THEN [infos[i] EXCEPT !.status = "EXPIRED"] ELSE infos[i]]
  /\ UNCHANGED formEdits /\ InfoFrame

\* evaluate_reuse without a rejection, for a form of "ours".
EvaluateReuse(i) ==
  /\ infos[i].status = "APPROVED"
  /\ InfoPolicy # "NOT_REUSABLE"
  /\ \/ infos[i].entity = "-" /\ InfoPolicy = "ALL_ENTITIES_APPROVED" /\ infos[i].cross
     \/ infos[i].entity = "ours"
  /\ infos[i].fresh = "FRESH"

\* resolve_for_use: the usable value of the highest version; the database orders a tie.
ResolveForUse ==
  LET usable == {i \in DOMAIN infos : EvaluateReuse(i)}
  IN  {i \in usable : \A j \in usable : infos[i].ver >= infos[j].ver}
-----------------------------------------------------------------------------
(* The template and its mappings.                                          *)

TemplateFrame == UNCHANGED <<infos, forms, prepares, drafts>>

\* Inspecting an active template again takes it back to review.
InspectTemplate ==
  /\ template' = "PENDING_REVIEW"
  /\ IF template = "DRAFT" THEN UNCHANGED formEdits ELSE SecondThought
  /\ UNCHANGED mapping /\ TemplateFrame

ActivateTemplate ==
  /\ template # "DRAFT" /\ template' = "ACTIVE"
  /\ UNCHANGED <<mapping, formEdits>> /\ TemplateFrame

UpsertMapping(f, approve) ==
  /\ ~Signs(f)
  /\ mapping' = [mapping EXCEPT ![f] = IF approve THEN "APPROVED" ELSE IF @ = "-" THEN "PROPOSED" ELSE @]
  /\ UNCHANGED <<template, formEdits>> /\ TemplateFrame
-----------------------------------------------------------------------------
(* Instances.                                                              *)

FormFrame == UNCHANGED <<infos, template, mapping>>

CreateInstance ==
  /\ template = "ACTIVE" /\ Len(forms) < MaxForms
  /\ forms' = Append(forms, [status |-> "DRAFT", fields |-> NoRows, signature_required |-> FALSE,
                             snapshot |-> NoDraft, draft |-> NoDraft, approved_draft |-> NoDraft,
                             signed |-> NoDraft])
  /\ UNCHANGED <<prepares, drafts, formEdits>> /\ FormFrame

\* classify_unmapped
Unmapped(f) == [status |-> IF FormFields[f].required THEN "NEEDS_REVIEW" ELSE "MANUAL_ONLY", val |-> 0]

\* What prefill may write for a field.
PrefilledField(f) ==
  CASE Signs(f) -> {[status |-> "SIGNATURE_REQUIRED", val |-> 0]}
    [] ~Signs(f) /\ mapping[f] # "APPROVED" -> {Unmapped(f)}
    [] OTHER -> IF ResolveForUse = {} THEN {[status |-> "NEEDS_INFORMATION", val |-> 0]}
                ELSE {[status |-> "AUTO_FILLED", val |-> i] : i \in ResolveForUse}

SignatureRequired == \E f \in DOMAIN FormFields : Signs(f)

\* The second commit of the request that created the instance; a request that dies never gets here.
Prefill(i) ==
  /\ forms[i].status \notin FROZEN_INSTANCE_STATUSES /\ forms[i].fields = NoRows
  /\ \E rows \in [DOMAIN FormFields -> UNION {PrefilledField(f) : f \in DOMAIN FormFields}] :
       /\ \A f \in DOMAIN FormFields : rows[f] \in PrefilledField(f)
       /\ forms' = [forms EXCEPT ![i].fields = rows,
            ![i].signature_required = SignatureRequired,
            ![i].status = IF \E f \in DOMAIN FormFields : rows[f].status \in OUTSTANDING_FIELD_STATUSES
                          THEN "MISSING_INFORMATION" ELSE "PREFILLED"]
  /\ UNCHANGED <<prepares, drafts, formEdits>> /\ FormFrame

SetsAnyField(i, f) == forms[i].fields[f].status # "-"
\* set_field: what may be patched.
SettableField(i, f) ==
  /\ forms[i].status \notin FROZEN_INSTANCE_STATUSES
  /\ forms[i].fields[f].status # "-"

\* A value, or only a status: what the row holds stays then.
SetField(i, f, given, status) ==
  /\ SecondThought
  /\ SettableField(i, f)
  /\ Signs(f) => ~given
  /\ LET row == [status |-> status, val |-> IF given THEN TypedByHand ELSE forms[i].fields[f].val]
         after == [forms EXCEPT ![i].fields[f] = row]
         open == {g \in DOMAIN FormFields : after[i].fields[g].status \in OUTSTANDING_FIELD_STATUSES}
     IN  forms' = [after EXCEPT ![i].status =
                     IF open = {} /\ @ = "MISSING_INFORMATION" THEN "PREFILLED" ELSE @]
  /\ UNCHANGED <<prepares, drafts>> /\ FormFrame
-----------------------------------------------------------------------------
(* PREPARE_FORM.                                                           *)

Preparing == {j \in DOMAIN prepares : prepares[j].st \in {"READ", "RENDERED"}}

\* Every client key is a job of its own.
GenerateForm(i) ==
  /\ Len(prepares) < MaxForms + 1
  /\ prepares' = Append(prepares, [form |-> i, st |-> "PENDING", seen |-> "DRAFT", content |-> NoDraft])
  /\ UNCHANGED <<forms, drafts, formEdits>> /\ FormFrame

PrepareReads(j) ==
  /\ prepares[j].st = "PENDING" /\ Cardinality(Preparing) < Cardinality(Preparers)
  /\ LET form == forms[prepares[j].form]
     IN  prepares' = [prepares EXCEPT ![j].st = IF form.draft # NoDraft THEN "COMPLETED" ELSE "READ",
                                      ![j].seen = form.status]
  /\ UNCHANGED <<forms, drafts, formEdits>> /\ FormFrame

\* _field_values_for_fill and _partition: signatures stay blank.
Filled(i) ==
  [f \in DOMAIN FormFields |->
     IF Signs(f) \/ forms[i].fields[f].status = "SIGNATURE_REQUIRED" THEN 0 ELSE forms[i].fields[f].val]

\* generate_draft; the first commit of the upload makes it durable.
GenerateDraft(j) ==
  LET i == prepares[j].form
  IN  /\ prepares[j].st = "READ"
      /\ \/ /\ Outstanding(i) = {}
            /\ prepares' = [prepares EXCEPT ![j].st = "RENDERED", ![j].content = Filled(i)]
            /\ forms' = [forms EXCEPT ![i].snapshot = Filled(i),
                 ![i].status = IF prepares[j].seen \in {"PREFILLED", "DRAFT"} THEN "READY_FOR_REVIEW" ELSE @]
         \/ /\ Outstanding(i) # {} /\ UNCHANGED forms
            /\ prepares' = [prepares EXCEPT ![j].st = "FAILED_REVIEW"]
      /\ UNCHANGED <<drafts, formEdits>> /\ FormFrame

\* The upload: content that is in the catalogue already is linked, not stored again.
StoreGeneratedDocument(j) ==
  /\ prepares[j].st = "RENDERED"
  /\ prepares' = [prepares EXCEPT ![j].st = "COMPLETED"]
  /\ forms' = [forms EXCEPT ![prepares[j].form].draft = prepares[j].content]
  /\ drafts' = [d \in DOMAIN drafts \cup {prepares[j].content} |-> d \in DOMAIN drafts /\ drafts[d]]
  /\ UNCHANGED formEdits /\ FormFrame

\* A lost connection puts the job back, any other error ends it.
PrepareFails(j) ==
  /\ j \in Preparing
  /\ \E s \in {"PENDING", "FAILED_REVIEW"} : prepares' = [prepares EXCEPT ![j].st = s, ![j].content = NoDraft]
  /\ UNCHANGED <<forms, drafts, formEdits>> /\ FormFrame
-----------------------------------------------------------------------------
(* Approval, signature, submission.                                        *)

ApprovalFrame == UNCHANGED <<prepares, formEdits>> /\ FormFrame

ApproveDocument(d) ==
  /\ ~drafts[d] /\ drafts' = [drafts EXCEPT ![d] = TRUE]
  /\ UNCHANGED forms /\ ApprovalFrame

\* Where approval leads: to a signature when the template asks for one.
ApprovedStatus(i) == IF forms[i].signature_required THEN "SIGNATURE_PENDING" ELSE "READY_FOR_SUBMISSION"

\* The generated document exists and a reviewer approved it in the catalogue.
DraftReviewed(i) == forms[i].draft # NoDraft /\ drafts[forms[i].draft]

ApproveForSignature(i) ==
  /\ forms[i].status \in {"READY_FOR_REVIEW", "PREFILLED"}
  /\ Outstanding(i) = {}
  /\ DraftReviewed(i)
  /\ forms' = [forms EXCEPT ![i].approved_draft = forms[i].draft, ![i].status = ApprovedStatus(i)]
  /\ UNCHANGED drafts /\ ApprovalFrame

\* Any approved document of the entity whose bytes are not those of the approved draft.
RecordSignedDocument(i) ==
  /\ forms[i].status = "SIGNATURE_PENDING"
  /\ \E d \in {Scan} \cup {c \in DOMAIN drafts : drafts[c]} :
       /\ d # forms[i].approved_draft
       /\ forms' = [forms EXCEPT ![i].signed = d, ![i].status = "SIGNED"]
  /\ UNCHANGED drafts /\ ApprovalFrame

RecordExternalSubmission(i) ==
  /\ forms[i].signature_required => forms[i].signed # NoDraft
  /\ forms[i].status \in {"SIGNED", "READY_FOR_SUBMISSION"}
  /\ forms' = [forms EXCEPT ![i].status = "SUBMITTED_EXTERNALLY"]
  /\ UNCHANGED drafts /\ ApprovalFrame

FormNext ==
  \/ \E e \in {"ours", "theirs", "-"} : ProposeValue(e)
  \/ \E i \in DOMAIN infos :
       \/ SubmitForApproval(i) \/ RejectValue(i) \/ SupersedeValue(i) \/ ValueAges(i)
       \/ \E cross \in BOOLEAN : ApproveValue(i, cross)
  \/ ExpireStaleValues
  \/ InspectTemplate \/ ActivateTemplate
  \/ \E f \in DOMAIN FormFields, approve \in BOOLEAN : UpsertMapping(f, approve)
  \/ CreateInstance
  \/ \E i \in DOMAIN forms :
       \/ Prefill(i) \/ GenerateForm(i) \/ ApproveForSignature(i)
       \/ RecordSignedDocument(i) \/ RecordExternalSubmission(i)
       \/ \E f \in DOMAIN FormFields, given \in BOOLEAN, s \in PatchStatuses :
            SetField(i, f, given, s)
  \/ \E j \in DOMAIN prepares :
       PrepareReads(j) \/ GenerateDraft(j) \/ StoreGeneratedDocument(j) \/ PrepareFails(j)
  \/ \E d \in DOMAIN drafts : ApproveDocument(d)

FormSpec == FormInit /\ [][FormNext]_formVars
-----------------------------------------------------------------------------
\* A field that was filled automatically and not touched since holds a value that somebody
\* approved, for this legal entity or, by a manager, for all of them.
AutofillIsEntitled ==
  \A i \in DOMAIN forms, f \in DOMAIN FormFields :
    LET v == forms[i].fields[f].val
    IN  v \in DOMAIN infos => infos[v].approved /\ (infos[v].entity = "ours" \/ infos[v].cross)

\* app/forms/enums.py: once an instance is approved for signature its fields never change.
FrozenFieldsKeep ==
  [][\A i \in DOMAIN forms : forms[i].status \in FROZEN_INSTANCE_STATUSES =>
       forms'[i].fields = forms[i].fields /\ forms'[i].status \in FROZEN_INSTANCE_STATUSES]_formVars

\* A form whose fields were laid out is frozen with none outstanding, and one with a signature
\* field is submitted only with a signed document that is not the draft itself.
SubmittedIsSigned ==
  \A i \in DOMAIN forms :
    LET row == forms[i]
    IN  /\ row.status \in FROZEN_INSTANCE_STATUSES => Outstanding(i) = {}
        /\ row.status = "SUBMITTED_EXTERNALLY" /\ row.fields # NoRows
             /\ (\E f \in DOMAIN FormFields : Signs(f)) =>
             row.signed \notin {NoDraft, row.approved_draft}

\* The invariant of the forms: entitled values, and no unsigned submission.
FormInv == FormTypeOK /\ AutofillIsEntitled /\ SubmittedIsSigned
=============================================================================
