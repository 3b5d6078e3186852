-------------------------- MODULE DraftAttachments --------------------------
(***************************************************************************)
(* Controlled documents attached to one Outlook draft:                     *)
(* app/services/draft_attachment_service.py (select, remove),              *)
(* graph_draft_attachment_service.py (upload_pending, remove_uploaded,     *)
(* _reconcile_ambiguous_small_attachment).  An upload is not idempotent    *)
(* and its row is committed only when the whole job ends, so what a dead   *)
(* worker uploaded is known to Graph alone.                                *)
(***************************************************************************)
EXTENDS Naturals, Sequences, FiniteSets

CONSTANTS
  Docs,          \* controlled document versions, told apart by name and size
  MaxSelections, \* bound: attachment rows
  MaxUploads,    \* bound: UPLOAD_DRAFT_ATTACHMENTS jobs
  MaxAttFaults   \* bound: crashes and lost answers

ASSUME AttachmentAssumption ==
  {MaxSelections, MaxUploads, MaxAttFaults} \subseteq Nat /\ "gone" \notin Docs

VARIABLES
  atts,     \* rows of outbound_draft_attachments
  copies,   \* attachments of the Graph draft, by id: the document, or "gone"
  frozen,   \* the send is queued (_assert_mutable refuses)
  up,       \* the upload worker's session
  rm,       \* the request that removes an attachment
  late,     \* rows whose copy was deleted after the send was queued (history)
  uploads, attFaults

attVars == <<atts, copies, frozen, up, rm, late, uploads, attFaults>>

AttStatuses == {"VALIDATED", "GRAPH_UPLOADED", "FAILED_REVIEW", "REMOVED"}
AttRows == [doc : Docs, status : AttStatuses, gid : Nat, removed : BOOLEAN]
NoUpload == [pc |-> "idle", todo |-> {}, row |-> 0, ok |-> <<>>]
NoRemoval == [pc |-> "idle", row |-> 0]

\* Rows and sessions keep their types; a row known to Graph was uploaded or removed.
AttTypeOK ==
  /\ atts \in Seq(AttRows) /\ Len(atts) <= MaxSelections
  /\ copies \in Seq(Docs \cup {"gone"}) /\ frozen \in BOOLEAN
  /\ up \in [pc : {"idle", "next", "post", "doubt"}, todo : SUBSET (1..MaxSelections),
             row : 0..MaxSelections, ok : Seq((1..MaxSelections) \X Nat)]
  /\ rm \in [pc : {"idle", "delete", "close"}, row : 0..MaxSelections]
  /\ late \subseteq DOMAIN atts
  /\ \A i \in DOMAIN atts : atts[i].status = "GRAPH_UPLOADED" => atts[i].gid \in DOMAIN copies
  /\ uploads \in Nat /\ attFaults \in Nat

AttInit ==
  /\ atts = <<>> /\ copies = <<>> /\ frozen = FALSE
  /\ up = NoUpload /\ rm = NoRemoval /\ late = {} /\ uploads = 0 /\ attFaults = 0

\* removed_at IS NULL; the status alone may be overwritten by an upload that ends later.
LiveAtts == {i \in DOMAIN atts : ~atts[i].removed}
CopiesOf(d) == {c \in DOMAIN copies : copies[c] = d}

\* DraftAttachmentService.select, once the document may be transmitted and fits.
SelectAttachment(d) ==
  /\ ~frozen /\ Len(atts) < MaxSelections
  /\ \A i \in LiveAtts : atts[i].doc # d
  /\ atts' = Append(atts, [doc |-> d, status |-> "VALIDATED", gid |-> 0,
                          removed |-> FALSE])
  /\ UNCHANGED <<copies, frozen, up, rm, late, uploads, attFaults>>

\* submit, approve and queue: every live row is uploaded, and Graph has just those.
QueueSend ==
  /\ ~frozen
  /\ \A i \in LiveAtts : atts[i].status = "GRAPH_UPLOADED"
  /\ {c \in DOMAIN copies : copies[c] # "gone"} = {atts[i].gid : i \in LiveAtts}
  /\ frozen' = TRUE
  /\ UNCHANGED <<atts, copies, up, rm, late, uploads, attFaults>>

(***************************************************************************)
(* GraphDraftAttachmentService.upload_pending                              *)
(***************************************************************************)

\* The job selects the VALIDATED rows once.
UploadStarts ==
  /\ up.pc = "idle" /\ uploads < MaxUploads
  /\ uploads' = uploads + 1
  /\ up' = [NoUpload EXCEPT !.pc = "next",
              !.todo = {i \in DOMAIN atts : atts[i].status = "VALIDATED" /\ i \in LiveAtts}]
  /\ UNCHANGED <<atts, copies, frozen, rm, late, attFaults>>

\* A commit writes the rows this session changed: those uploaded, and one it refuses.
Committed(refused) ==
  [i \in DOMAIN atts |->
     IF \E k \in DOMAIN up.ok : up.ok[k][1] = i
     THEN [atts[i] EXCEPT !.status = "GRAPH_UPLOADED",
             !.gid = up.ok[CHOOSE k \in DOMAIN up.ok : up.ok[k][1] = i][2]]
     ELSE IF i \in refused THEN [atts[i] EXCEPT !.status = "FAILED_REVIEW"] ELSE atts[i]]

\* Mutant: a copy that Graph already has does not stop the upload.
UploadChecksNothing(i) ==
  /\ up.pc = "next" /\ i \in up.todo
  /\ up' = [up EXCEPT !.pc = "post", !.row = i]
  /\ UNCHANGED <<atts, copies, frozen, rm, late, uploads, attFaults>>

\* Before a row: a matching copy that no row accounts for, a document that may no longer
\* be transmitted or a changed hash end the job with the row left for review.
UploadChecks(i) ==
  /\ up.pc = "next" /\ i \in up.todo
  /\ \/ /\ CopiesOf(atts[i].doc) = {}
        /\ up' = [up EXCEPT !.pc = "post", !.row = i] /\ UNCHANGED atts
     \/ atts' = Committed({i}) /\ up' = NoUpload
  /\ UNCHANGED <<copies, frozen, rm, late, uploads, attFaults>>

Uploaded(c) == [up EXCEPT !.pc = "next", !.todo = @ \ {up.row},
                          !.ok = Append(@, <<up.row, c>>)]

\* add_small or upload_large; a lost answer leaves the session in doubt.
UploadPosts ==
  /\ up.pc = "post"
  /\ \/ /\ copies' = Append(copies, atts[up.row].doc)
        /\ up' = Uploaded(Len(copies) + 1)
        /\ UNCHANGED attFaults
     \/ /\ attFaults < MaxAttFaults /\ attFaults' = attFaults + 1
        /\ copies' \in {copies, Append(copies, atts[up.row].doc)}
        /\ up' = [up EXCEPT !.pc = "doubt"]
  /\ UNCHANGED <<atts, frozen, rm, late, uploads>>

\* _reconcile_ambiguous_small_attachment: exactly one copy is taken for the upload.
UploadResolves ==
  /\ up.pc = "doubt"
  /\ IF Cardinality(CopiesOf(atts[up.row].doc)) = 1
     THEN /\ \E c \in CopiesOf(atts[up.row].doc) : up' = Uploaded(c)
          /\ UNCHANGED atts
     ELSE atts' = Committed({up.row}) /\ up' = NoUpload
  /\ UNCHANGED <<copies, frozen, rm, late, uploads, attFaults>>

UploadEnds ==
  /\ up.pc = "next" /\ up.todo = {}
  /\ atts' = Committed({}) /\ up' = NoUpload
  /\ UNCHANGED <<copies, frozen, rm, late, uploads, attFaults>>

\* The worker dies, or any other error rolls its transaction back.
UploadCrash ==
  /\ up.pc # "idle" /\ attFaults < MaxAttFaults
  /\ attFaults' = attFaults + 1 /\ up' = NoUpload
  /\ UNCHANGED <<atts, copies, frozen, rm, late, uploads>>

(***************************************************************************)
(* remove_attachment: remove_uploaded, then DraftAttachmentService.remove  *)
(***************************************************************************)

\* The checks under the lock, which is released before Graph is called.
RemoveStarts(i) ==
  /\ rm.pc = "idle" /\ ~frozen /\ i \in LiveAtts
  /\ rm' = [pc |-> IF atts[i].gid # 0 THEN "delete" ELSE "close", row |-> i]
  /\ UNCHANGED <<atts, copies, frozen, up, late, uploads, attFaults>>

\* The DELETE; an id Graph no longer has counts as deleted.
RemoveDeletes ==
  /\ rm.pc = "delete"
  /\ copies' = [copies EXCEPT ![atts[rm.row].gid] = "gone"]
  /\ late' = IF frozen THEN late \cup {rm.row} ELSE late
  /\ rm' = [rm EXCEPT !.pc = "close"]
  /\ UNCHANGED <<atts, frozen, up, uploads, attFaults>>

\* The row is closed if the revision and the status still allow it.
RemoveCloses ==
  /\ rm.pc = "close"
  /\ rm' = NoRemoval
  /\ \/ ~frozen /\ atts' = [atts EXCEPT ![rm.row] = [@ EXCEPT !.status = "REMOVED", !.removed = TRUE]]
     \/ UNCHANGED atts   \* the revision changed meanwhile: refused
  /\ UNCHANGED <<copies, frozen, up, late, uploads, attFaults>>

AttNext ==
  \/ \E d \in Docs : SelectAttachment(d)
  \/ QueueSend
  \/ UploadStarts \/ UploadPosts \/ UploadResolves \/ UploadEnds \/ UploadCrash
  \/ \E i \in DOMAIN atts : UploadChecks(i) \/ RemoveStarts(i)
  \/ RemoveDeletes \/ RemoveCloses

AttSpec == AttInit /\ [][AttNext]_attVars

\* Whatever dies or is lost between an upload and its commit, and however often a
\* document is removed and selected again, Graph never holds two copies of it.
NoSecondCopy == \A d \in Docs : Cardinality(CopiesOf(d)) <= 1

\* A queued send has every attachment the reviewers saw.  Only a removal that had passed
\* its checks before the send was queued can still take a copy away (the preflight of
\* OutboundSend compares the sets once more).
QueuedIsComplete ==
  frozen => \A i \in LiveAtts : copies[atts[i].gid] = atts[i].doc \/ i \in late

\* The invariant of the attachments: no second copy in Graph, and none missing of a queued send.
AttachmentsInv == AttTypeOK /\ NoSecondCopy /\ QueuedIsComplete
=============================================================================
