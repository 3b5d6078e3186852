--------------------------- MODULE DocumentCatalog ---------------------------
(***************************************************************************)
(* The governed document catalogue: uploads into SharePoint                *)
(* (app/services/document_upload.py), review and reuse approval            *)
(* (document_catalog.py, app/api/v1/documents.py), expiry, and the         *)
(* reconciliation of a drive by its delta feed (document_reconciliation.py *)
(* as run by app/workers/document_jobs.py).                                *)
(*                                                                         *)
(* A review endpoint reads the document, checks permissions, then reads it *)
(* again FOR UPDATE; the second read does not refresh the row the session  *)
(* already holds, so the reviewer decides on the first one, and a column   *)
(* set to the value the session saw is not written.                        *)
(***************************************************************************)
EXTENDS Naturals, Sequences

CONSTANTS
  DocReviewers,    \* people using the review endpoints
  DocUploaders,    \* requests and jobs that upload
  Texts,           \* what files may hold, told apart by their SHA-256
  MaxDocRows, MaxItems, MaxFeed,
  MaxDecisions,    \* review requests, metadata edits and expiry dates that pass
  MaxDocFaults     \* failed uploads, dead processes, expired delta tokens

ASSUME DocBounds == {MaxDocRows, MaxItems, MaxFeed, MaxDecisions, MaxDocFaults} \subseteq Nat
-----------------------------------------------------------------------------
LifecycleStatuses == {"ACTIVE", "EXPIRED", "SUPERSEDED", "QUARANTINED", "DELETED_EXTERNALLY"}
ApprovalStatuses == {"UNREVIEWED", "PENDING_REVIEW", "APPROVED", "REJECTED"}
StorageStatuses == {"UPLOADING", "AVAILABLE", "FAILED", "QUARANTINED", "DELETED_EXTERNALLY"}

VARIABLES
  docRows,     \* documents, each with its only version
  items,       \* the SharePoint drive: items by the order they were created
  feed,        \* the delta feed: items in the order they changed
  delta,       \* sharepoint_sync_states: how far the checkpoint goes, needs_rebaseline
  reconcile,   \* the reconciliation in progress: what the pages said
  uploads,     \* uploads in progress
  seen,        \* what a review request read of its document
  decisions, docFaults

docVars == <<docRows, items, feed, delta, reconcile, uploads, seen, decisions, docFaults>>

\* item = 0: the placeholder "pending:..."; text "?": the placeholder hash of an imported file.
DocumentRows == [life : LifecycleStatuses, approval : ApprovalStatuses, reuse : BOOLEAN,
                 restricted : BOOLEAN, past : BOOLEAN, text : Texts \cup {"?"},
                 item : 0..MaxItems, storage : StorageStatuses, current : BOOLEAN]
ItemRows == [text : Texts \cup {"foreign"}, alive : BOOLEAN]
NoReconcile == [on |-> FALSE, upTo |-> 0, alive |-> {}, gone |-> {}]
UploadRows == [st : {"-", "CREATED", "PUT"}, doc : 0..MaxDocRows, item : 0..MaxItems]
NoView == [doc |-> 0]

CatalogInit ==
  /\ docRows = <<>> /\ items = <<>> /\ feed = <<>> /\ decisions = 0 /\ docFaults = 0
  /\ delta = [upTo |-> 0, rebaseline |-> FALSE] /\ reconcile = NoReconcile
  /\ uploads = [u \in DocUploaders |-> [st |-> "-", doc |-> 0, item |-> 0]]
  /\ seen = [r \in DocReviewers |-> NoView]

\* Rows keep their types, and an uploaded document has a current version only once the drive
\* holds an item with exactly its bytes.
DocTypeOK ==
  /\ docRows \in Seq(DocumentRows) /\ items \in Seq(ItemRows) /\ feed \in Seq(DOMAIN items)
  /\ delta.upTo \in 0..Len(feed) /\ decisions \in 0..MaxDecisions /\ docFaults \in 0..MaxDocFaults
  /\ uploads \in [DocUploaders -> UploadRows]
  /\ \A d \in DOMAIN docRows : docRows[d].current /\ docRows[d].text # "?" =>
       docRows[d].item \in DOMAIN items /\ items[docRows[d].item].text = docRows[d].text

\* A person decides, a calendar day comes.
Decides == decisions < MaxDecisions /\ decisions' = decisions + 1
DocFault == docFaults < MaxDocFaults /\ docFaults' = docFaults + 1
-----------------------------------------------------------------------------
(* Uploads.                                                                *)

NewDocument(t, i, s, c) ==
  [life |-> "ACTIVE", approval |-> "UNREVIEWED", reuse |-> FALSE, restricted |-> FALSE,
   past |-> FALSE, text |-> t, item |-> i, storage |-> s, current |-> c]

\* find_exact_hash: any document with these bytes, whatever became of it. A duplicate is linked.
KnownText(t) == \E d \in DOMAIN docRows : docRows[d].text = t

UploadStarts(u, t) ==
  /\ uploads[u].st = "-" /\ ~KnownText(t) /\ Len(docRows) < MaxDocRows
  /\ docRows' = Append(docRows, NewDocument(t, 0, "UPLOADING", FALSE))
  /\ uploads' = [uploads EXCEPT ![u] = [st |-> "CREATED", doc |-> Len(docRows) + 1, item |-> 0]]
  /\ UNCHANGED <<items, feed, delta, reconcile, seen, decisions, docFaults>>

CreateItem(t) ==
  /\ Len(items) < MaxItems /\ Len(feed) < MaxFeed
  /\ items' = Append(items, [text |-> t, alive |-> TRUE])
  /\ feed' = Append(feed, Len(items) + 1)

\* put_stream: the item is in the drive, no row names it yet.
PutStream(u) ==
  /\ uploads[u].st = "CREATED"
  /\ \/ CreateItem(docRows[uploads[u].doc].text) /\ UNCHANGED docFaults
     \/ CreateItem("foreign") /\ DocFault               \* what arrived are other bytes
  /\ uploads' = [uploads EXCEPT ![u].st = "PUT", ![u].item = Len(items) + 1]
  /\ UNCHANGED <<docRows, delta, reconcile, seen, decisions>>

PutFails(u) ==
  /\ uploads[u].st = "CREATED" /\ DocFault
  /\ docRows' = [docRows EXCEPT ![uploads[u].doc].storage = "FAILED"]
  /\ uploads' = [uploads EXCEPT ![u].st = "-"]
  /\ UNCHANGED <<items, feed, delta, reconcile, seen, decisions>>

\* The size and the SHA-256 of what was written are those of the source.
UploadVerified(u) == items[uploads[u].item].text = docRows[uploads[u].doc].text

UploadCompletes(u) ==
  /\ uploads[u].st = "PUT"
  /\ docRows' = [docRows EXCEPT ![uploads[u].doc] =
       IF UploadVerified(u)
       THEN [@ EXCEPT !.storage = "AVAILABLE", !.current = TRUE, !.item = uploads[u].item]
       ELSE [@ EXCEPT !.storage = "QUARANTINED", !.life = "QUARANTINED"]]
  /\ uploads' = [uploads EXCEPT ![u].st = "-"]
  /\ UNCHANGED <<items, feed, delta, reconcile, seen, decisions, docFaults>>

UploaderDies(u) ==
  /\ uploads[u].st # "-" /\ DocFault /\ uploads' = [uploads EXCEPT ![u].st = "-"]
  /\ UNCHANGED <<docRows, items, feed, delta, reconcile, seen, decisions>>
-----------------------------------------------------------------------------
(* Review requests.                                                        *)

ReviewFrame == UNCHANGED <<items, feed, delta, reconcile, uploads, docFaults>>

ReviewerReads(r, d) ==
  /\ seen[r] = NoView /\ Decides
  /\ seen' = [seen EXCEPT ![r] = [doc |-> d, row |-> docRows[d]]]
  /\ UNCHANGED docRows /\ ReviewFrame

\* A flush writes the columns that differ from what the session saw, and no other.
Flushed(r, new) ==
  LET old == seen[r].row
      now == docRows[seen[r].doc]
  IN  docRows' = [docRows EXCEPT ![seen[r].doc] =
        [c \in DOMAIN now |-> IF new[c] # old[c] THEN new[c] ELSE now[c]]]

Reviews(r, new) ==
  /\ Flushed(r, new) /\ seen' = [seen EXCEPT ![r] = NoView] /\ UNCHANGED decisions /\ ReviewFrame

SubmitForReview(r) ==
  /\ seen[r].row.approval \in {"UNREVIEWED", "REJECTED"}
  /\ Reviews(r, [seen[r].row EXCEPT !.approval = "PENDING_REVIEW"])

ApproveRow(r) ==
  /\ seen[r].row.approval \in {"PENDING_REVIEW", "UNREVIEWED"}
  /\ Reviews(r, [seen[r].row EXCEPT !.approval = "APPROVED"])

RejectRow(r) == Reviews(r, [seen[r].row EXCEPT !.approval = "REJECTED", !.reuse = FALSE])

\* can_approve_for_reuse. Only the version row is read afresh.
CanApproveForReuse(r) ==
  LET row == seen[r].row
  IN  /\ row.life = "ACTIVE" /\ row.approval = "APPROVED" /\ ~row.restricted /\ ~row.past
      /\ row.current /\ docRows[seen[r].doc].storage = "AVAILABLE"

ApproveReuse(r) == CanApproveForReuse(r) /\ Reviews(r, [seen[r].row EXCEPT !.reuse = TRUE])

RevokeReuse(r) == Reviews(r, [seen[r].row EXCEPT !.reuse = FALSE])

Supersede(r) == Reviews(r, [seen[r].row EXCEPT !.life = "SUPERSEDED", !.reuse = FALSE])

\* A conflict, a missing permission or a disallowed state ends the request without a change.
ReviewRefused(r) == seen' = [seen EXCEPT ![r] = NoView] /\ UNCHANGED <<docRows, decisions>> /\ ReviewFrame

\* update_metadata reads the row once, locked, and compares its updated_at.
UpdateMetadata(d) ==
  /\ ~docRows[d].restricted /\ Decides /\ docRows' = [docRows EXCEPT ![d].restricted = TRUE]
  /\ UNCHANGED seen /\ ReviewFrame
-----------------------------------------------------------------------------
(* Jobs.                                                                   *)

\* The expiry date of a document passes.
DatePasses(d) ==
  /\ ~docRows[d].past /\ Decides /\ docRows' = [docRows EXCEPT ![d].past = TRUE]
  /\ UNCHANGED seen /\ ReviewFrame

MarkExpired ==
  /\ \E d \in DOMAIN docRows : docRows[d].life = "ACTIVE" /\ docRows[d].past
  /\ docRows' = [d \in DOMAIN docRows |->
       IF docRows[d].life = "ACTIVE" /\ docRows[d].past
       THEN [docRows[d] EXCEPT !.life = "EXPIRED", !.reuse = FALSE] ELSE docRows[d]]
  /\ UNCHANGED <<seen, decisions>> /\ ReviewFrame

\* All pages of the feed since the checkpoint, or every item of the drive after a rebaseline.
ReconcileReads ==
  /\ ~reconcile.on
  /\ LET changed == {feed[n] : n \in (delta.upTo + 1)..Len(feed)}
         listed == IF delta.rebaseline THEN {i \in DOMAIN items : items[i].alive} ELSE changed
     IN  reconcile' = [on |-> TRUE, upTo |-> Len(feed), alive |-> {i \in listed : items[i].alive},
                       gone |-> {i \in listed : ~items[i].alive}]
  /\ UNCHANGED <<docRows, items, feed, delta, uploads, seen, decisions, docFaults>>

\* 410: the token is no longer valid; the next reconciliation starts from nothing.
TokenExpires ==
  /\ ~reconcile.on /\ ~delta.rebaseline /\ DocFault
  /\ delta' = [delta EXCEPT !.rebaseline = TRUE]
  /\ UNCHANGED <<docRows, items, feed, reconcile, uploads, seen, decisions>>

\* The only version, or one of two, that names an item: the database picks.
Naming(i) == {d \in DOMAIN docRows : docRows[d].item = i}

CheckpointAtCommit == Len(feed)
\* The deltaLink of the last page that was read.
FinalDelta == reconcile.upTo

\* _apply_item for every item, the checkpoint in the same transaction.
ReconcileApplies ==
  /\ reconcile.on
  /\ LET unknown == {i \in reconcile.alive : Naming(i) = {}}
         known == {i \in reconcile.gone : Naming(i) # {}}
     IN  /\ Len(docRows) + (IF unknown = {} THEN 0 ELSE 1) <= MaxDocRows
         /\ unknown = {} \/ \E i \in unknown : unknown = {i}
         /\ \E victim \in [known -> DOMAIN docRows] :
              /\ \A i \in known : victim[i] \in Naming(i)
              /\ docRows' = [d \in DOMAIN docRows |->
                      IF \E i \in known : victim[i] = d
                      THEN [docRows[d] EXCEPT !.life = "DELETED_EXTERNALLY", !.reuse = FALSE,
                                              !.storage = "DELETED_EXTERNALLY"]
                      ELSE docRows[d]]
                   \o (IF unknown = {} THEN <<>>
                       ELSE <<NewDocument("?", CHOOSE i \in unknown : TRUE, "AVAILABLE", TRUE)>>)
  /\ delta' = [upTo |-> FinalDelta, rebaseline |-> FALSE] /\ reconcile' = NoReconcile
  /\ UNCHANGED <<items, feed, uploads, seen, decisions, docFaults>>

\* A page could not be read, or the worker died: nothing was written.
ReconcileFails ==
  /\ reconcile.on /\ DocFault /\ reconcile' = NoReconcile
  /\ UNCHANGED <<docRows, items, feed, delta, uploads, seen, decisions>>
-----------------------------------------------------------------------------
(* People in SharePoint.                                                   *)

FileDropped == CreateItem("foreign") /\ UNCHANGED <<docRows, delta, reconcile, uploads, seen, decisions, docFaults>>

FileDeleted(i) ==
  /\ items[i].alive /\ Len(feed) < MaxFeed
  /\ items' = [items EXCEPT ![i].alive = FALSE] /\ feed' = Append(feed, i)
  /\ UNCHANGED <<docRows, delta, reconcile, uploads, seen, decisions, docFaults>>

CatalogNext ==
  \/ \E u \in DocUploaders :
       \/ \E t \in Texts : UploadStarts(u, t)
       \/ PutStream(u) \/ PutFails(u) \/ UploadCompletes(u) \/ UploaderDies(u)
  \/ \E r \in DocReviewers :
       \/ \E d \in DOMAIN docRows : ReviewerReads(r, d)
       \/ /\ seen[r] # NoView
          /\ \/ SubmitForReview(r) \/ ApproveRow(r) \/ RejectRow(r) \/ ApproveReuse(r)
             \/ RevokeReuse(r) \/ Supersede(r) \/ ReviewRefused(r)
  \/ \E d \in DOMAIN docRows : UpdateMetadata(d) \/ DatePasses(d)
  \/ MarkExpired
  \/ ReconcileReads \/ TokenExpires \/ ReconcileApplies \/ ReconcileFails
  \/ FileDropped \/ \E i \in DOMAIN items : FileDeleted(i)

CatalogSpec == CatalogInit /\ [][CatalogNext]_docVars
-----------------------------------------------------------------------------
\* The checkpoint is safe to resume from: whatever order uploads, reconciliations and failures
\* took, every file in the drive is named by a catalogue row or still ahead in the feed.
FilesAreCatalogued ==
  \A n \in 1..delta.upTo : items[feed[n]].alive /\ ~delta.rebaseline =>
    \/ Naming(feed[n]) # {}
    \/ \E m \in (delta.upTo + 1)..Len(feed) : feed[m] = feed[n]

\* The invariant of the catalogue: what a row says of its file, and no file behind the checkpoint
\* that no row names.
CatalogInv == DocTypeOK /\ FilesAreCatalogued
=============================================================================
