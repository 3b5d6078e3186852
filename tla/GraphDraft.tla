----------------------------- MODULE GraphDraft -----------------------------
(***************************************************************************)
(* How a response draft comes to exist, locally and in Outlook:            *)
(* app/services/draft_generation_service.py, the create, _finalize and     *)
(* reconcile methods of graph_draft_service.py, their endpoints and the    *)
(* RECONCILE_GRAPH_DRAFT jobs.  createReply is not idempotent: the row     *)
(* keeps the intent (GRAPH_DRAFT_PENDING) before the call, and a lost      *)
(* answer is resolved by looking for the reply in the conversation.        *)
(* What happens to the draft afterwards is OutboundSend.                   *)
(***************************************************************************)
EXTENDS Naturals, Sequences, FiniteSets

CONSTANTS
  Composers,       \* API requests and workers
  ReconDraftMax,   \* communication_send_reconciliation_max_attempts
  MaxReplies,      \* bound: reply drafts in the conversation
  MaxEdits,        \* bound: local edits and replies people start in Outlook
  MaxDraftFaults   \* bound: crashes and failing Graph calls

ASSUME DraftAssumption ==
  /\ ReconDraftMax \in Nat \ {0} /\ MaxReplies \in Nat /\ MaxEdits \in Nat
  /\ MaxDraftFaults \in Nat

VARIABLES
  gd,       \* row of outbound_drafts; id 0: graph_draft_message_id is NULL
  replies,  \* reply drafts of the conversation in Graph, by creation: "app" or "person"
  intentAt, \* replies there were when the current intent was stored
  rjobs,    \* RECONCILE_GRAPH_DRAFT jobs, by local_revision
  cs,       \* sessions
  edited,   \* somebody edited while a creation was unresolved, or replied in Outlook
  draftEdits, draftFaults

draftVars == <<gd, replies, intentAt, rjobs, cs, edited, draftEdits, draftFaults>>

LocalStatuses == {"NONE", "LOCAL_DRAFT", "GRAPH_DRAFT_PENDING", "GRAPH_DRAFT_CREATED",
                  "REVIEW_IN_PROGRESS", "SEND_FAILED_REVIEW", "SEND_AMBIGUOUS"}
LocalDraftRows == [status : LocalStatuses, id : 0..MaxReplies, rev : Nat]
Revisions == 0..(MaxEdits + MaxReplies + 2)
IdleComposer == [pc |-> "idle", job |-> 0, n |-> 0, rev |-> 0, reply |-> 0]
ComposerStates ==
  [pc : {"idle", "source", "intent", "created", "lost", "refused", "load", "finalize"},
   job : Revisions, n : Nat, rev : Revisions, reply : 0..MaxReplies]

\* The draft, the replies and the sessions keep their types; a row that names a Graph
\* draft names one that exists, and a draft that is ready in Graph names one.
DraftTypeOK ==
  /\ gd \in LocalDraftRows /\ gd.id <= Len(replies)
  /\ gd.status = "GRAPH_DRAFT_CREATED" => gd.id # 0
  /\ replies \in Seq({"app", "person"}) /\ Len(replies) <= MaxReplies
  /\ intentAt \in 0..Len(replies)
  /\ rjobs \in [Revisions -> [status : {"absent", "PENDING", "RUNNING", "COMPLETED",
                                        "FAILED_RETRYABLE", "FAILED_REVIEW"},
                              attempts : 0..ReconDraftMax]]
  /\ cs \in [Composers -> ComposerStates]
  /\ edited \in BOOLEAN /\ draftEdits \in Nat /\ draftFaults \in Nat

DraftInit ==
  /\ gd = [status |-> "NONE", id |-> 0, rev |-> 0]
  /\ replies = <<>> /\ intentAt = 0
  /\ rjobs = [r \in Revisions |-> [status |-> "absent", attempts |-> 0]]
  /\ cs = [s \in Composers |-> IdleComposer]
  /\ edited = FALSE /\ draftEdits = 0 /\ draftFaults = 0

DraftGoTo(s, pc) == cs' = [cs EXCEPT ![s].pc = pc]
DraftIdle(s) == cs' = [cs EXCEPT ![s] = IdleComposer]

\* DraftGenerationService.generate: the plan, its template and its readiness were
\* checked; otherwise no draft appears.
GenerateDraft ==
  /\ gd.status = "NONE"
  /\ gd' = [status |-> "LOCAL_DRAFT", id |-> 0, rev |-> 1]
  /\ UNCHANGED <<replies, intentAt, rjobs, cs, edited, draftEdits, draftFaults>>

\* DraftGenerationService.edit: any status before the send allows it, also an
\* unresolved creation, whose marker it replaces.
EditDraft ==
  /\ gd.status \notin {"NONE", "SEND_AMBIGUOUS"} /\ draftEdits < MaxEdits
  /\ gd' = [gd EXCEPT !.status = "REVIEW_IN_PROGRESS", !.rev = @ + 1]
  /\ draftEdits' = draftEdits + 1
  /\ edited' = (edited \/ gd.status = "GRAPH_DRAFT_PENDING")
  /\ UNCHANGED <<replies, intentAt, rjobs, cs, draftFaults>>

\* A person starts a reply in Outlook.
OutlookReply ==
  /\ Len(replies) < MaxReplies /\ draftEdits < MaxEdits
  /\ replies' = Append(replies, "person")
  /\ draftEdits' = draftEdits + 1 /\ edited' = TRUE
  /\ UNCHANGED <<gd, intentAt, rjobs, cs, draftFaults>>

(***************************************************************************)
(* GraphDraftService.create                                                *)
(***************************************************************************)

\* A known identity: finish what is pending, or nothing to do.
Known(s) ==
  IF gd.status = "GRAPH_DRAFT_PENDING"
  THEN cs' = [cs EXCEPT ![s].pc = "finalize", ![s].rev = gd.rev, ![s].reply = gd.id]
  ELSE DraftIdle(s)

\* The request, with the current revision: checks before the source message is read.
CreateStarts(s) ==
  /\ cs[s].pc = "idle" /\ gd.status # "NONE"
  /\ \/ gd.id # 0 /\ Known(s)
     \/ /\ gd.id = 0 /\ gd.status # "GRAPH_DRAFT_PENDING"
        /\ DraftGoTo(s, "source")
  /\ UNCHANGED <<gd, replies, intentAt, rjobs, edited, draftEdits, draftFaults>>

\* Mutant: the row is not checked again after the source message was read.
CreateIntentUnchecked(s) ==
  /\ cs[s].pc = "source"
  /\ gd' = [gd EXCEPT !.status = "GRAPH_DRAFT_PENDING"]
  /\ intentAt' = Len(replies)
  /\ cs' = [cs EXCEPT ![s].pc = "intent", ![s].rev = gd.rev]
  /\ UNCHANGED <<replies, rjobs, edited, draftEdits, draftFaults>>

\* The row is locked and checked again, and the intent is committed.
CreateIntent(s) ==
  /\ cs[s].pc = "source"
  /\ \/ /\ gd.id = 0 /\ gd.status # "GRAPH_DRAFT_PENDING"
        /\ gd' = [gd EXCEPT !.status = "GRAPH_DRAFT_PENDING"]
        /\ intentAt' = Len(replies)
        /\ cs' = [cs EXCEPT ![s].pc = "intent", ![s].rev = gd.rev]
     \/ gd.id # 0 /\ Known(s) /\ UNCHANGED <<gd, intentAt>>
     \/ /\ gd.id = 0 /\ gd.status = "GRAPH_DRAFT_PENDING"
        /\ DraftIdle(s) /\ UNCHANGED <<gd, intentAt>>
  /\ UNCHANGED <<replies, rjobs, edited, draftEdits, draftFaults>>

\* createReply: answered, refused, or the answer is lost and the reply may exist.
CreatePost(s) ==
  /\ cs[s].pc = "intent"
  /\ \/ /\ Len(replies) < MaxReplies
        /\ replies' = Append(replies, "app")
        /\ \/ cs' = [cs EXCEPT ![s].pc = "created", ![s].reply = Len(replies) + 1]
           \/ DraftGoTo(s, "lost")
     \/ (DraftGoTo(s, "lost") \/ DraftGoTo(s, "refused")) /\ UNCHANGED replies
  /\ UNCHANGED <<gd, intentAt, rjobs, edited, draftEdits, draftFaults>>

\* _enqueue_create_reconciliation, keyed by the revision the session loaded.
WithReconciliation(r) ==
  IF rjobs[r].status = "absent" THEN [rjobs EXCEPT ![r].status = "PENDING"] ELSE rjobs

\* The identity is committed before anything else is asked of Graph.
CreateRecords(s) ==
  /\ \/ /\ cs[s].pc = "created"
        /\ gd' = [gd EXCEPT !.id = cs[s].reply]
        /\ DraftGoTo(s, "finalize") /\ UNCHANGED rjobs
     \/ /\ cs[s].pc = "lost"
        /\ rjobs' = WithReconciliation(cs[s].rev)
        /\ DraftIdle(s) /\ UNCHANGED gd
     \/ /\ cs[s].pc = "refused"
        /\ gd' = [gd EXCEPT !.status = "SEND_FAILED_REVIEW"]
        /\ DraftIdle(s) /\ UNCHANGED rjobs
  /\ UNCHANGED <<replies, intentAt, edited, draftEdits, draftFaults>>

\* How a worker's reconciliation ends, if this session is one.
EndJob(s, st) ==
  IF cs[s].n = 0 THEN UNCHANGED rjobs ELSE rjobs' = [rjobs EXCEPT ![cs[s].job].status = st]

\* _finalize: the reviewed content is patched in and read back; the new version takes
\* the loaded revision + 1, which fails if another session has taken it.
Finalizes(s) ==
  /\ cs[s].pc = "finalize"
  /\ \/ /\ gd.rev = cs[s].rev
        /\ gd' = [gd EXCEPT !.status = "GRAPH_DRAFT_CREATED", !.rev = @ + 1]
        /\ EndJob(s, "COMPLETED")
     \/ gd.rev # cs[s].rev /\ UNCHANGED <<gd, rjobs>>
  /\ DraftIdle(s)
  /\ UNCHANGED <<replies, intentAt, edited, draftEdits, draftFaults>>

\* _mark_no_longer_draft: someone sent the reply from Outlook; OutboundSend goes on from
\* here.  A worker's job fails.
FinalizeFindsSent(s) ==
  /\ cs[s].pc = "finalize" /\ draftEdits < MaxEdits
  /\ gd' = [gd EXCEPT !.status = "SEND_AMBIGUOUS"]
  /\ EndJob(s, IF cs[s].n >= ReconDraftMax THEN "FAILED_REVIEW" ELSE "FAILED_RETRYABLE")
  /\ draftEdits' = draftEdits + 1
  /\ DraftIdle(s)
  /\ UNCHANGED <<replies, intentAt, edited, draftFaults>>

\* Graph fails in _finalize.  A request queues a reconciliation; a worker's job is
\* recorded as failed, and at the limit a pending draft is left for review.
FinalizeFails(s) ==
  LET last == cs[s].n >= ReconDraftMax IN
  /\ cs[s].pc = "finalize"
  /\ draftFaults < MaxDraftFaults /\ draftFaults' = draftFaults + 1
  /\ IF cs[s].n = 0
     THEN rjobs' = WithReconciliation(cs[s].rev) /\ UNCHANGED gd
     ELSE /\ EndJob(s, IF last THEN "FAILED_REVIEW" ELSE "FAILED_RETRYABLE")
          /\ gd' = IF last /\ gd.status = "GRAPH_DRAFT_PENDING"
                   THEN [gd EXCEPT !.status = "SEND_FAILED_REVIEW"] ELSE gd
  /\ DraftIdle(s)
  /\ UNCHANGED <<replies, intentAt, edited, draftEdits>>

(***************************************************************************)
(* GraphDraftService.reconcile, by request or by a worker                  *)
(***************************************************************************)

ReconcileRequest(s) ==
  /\ cs[s].pc = "idle" /\ gd.status = "GRAPH_DRAFT_PENDING"
  /\ DraftGoTo(s, "load")
  /\ UNCHANGED <<gd, replies, intentAt, rjobs, edited, draftEdits, draftFaults>>

\* A RUNNING job whose worker is gone is claimed again when its lease has lapsed.
ReconcileClaim(s, r) ==
  /\ cs[s].pc = "idle" /\ rjobs[r].attempts < ReconDraftMax
  /\ \/ rjobs[r].status \in {"PENDING", "FAILED_RETRYABLE"}
     \/ rjobs[r].status = "RUNNING"
        /\ \A t \in Composers : ~(cs[t].n > 0 /\ cs[t].job = r)
  /\ rjobs' = [rjobs EXCEPT ![r] = [status |-> "RUNNING", attempts |-> @.attempts + 1]]
  /\ cs' = [cs EXCEPT ![s] = [IdleComposer EXCEPT !.pc = "load", !.job = r,
                                                  !.n = rjobs[r].attempts + 1]]
  /\ UNCHANGED <<gd, replies, intentAt, edited, draftEdits, draftFaults>>

\* reply_candidates created since the intent, two minutes of slack included: the
\* replies of this intent and possibly older ones.
Candidates == {c \in SUBSET (1..Len(replies)) : (intentAt + 1)..Len(replies) \subseteq c}

\* Exactly one candidate is adopted.
ReconcileAdopts(s) ==
  /\ cs[s].pc = "load" /\ gd.id = 0 /\ gd.status = "GRAPH_DRAFT_PENDING"
  /\ \E i \in 1..Len(replies) :
       /\ {i} \in Candidates
       /\ gd' = [gd EXCEPT !.id = i]
       /\ cs' = [cs EXCEPT ![s].pc = "finalize", ![s].rev = gd.rev, ![s].reply = i]
  /\ UNCHANGED <<replies, intentAt, rjobs, edited, draftEdits, draftFaults>>

ReconcileKnown(s) ==
  /\ cs[s].pc = "load" /\ gd.id # 0
  /\ IF gd.status = "GRAPH_DRAFT_PENDING"
     THEN /\ cs' = [cs EXCEPT ![s].pc = "finalize", ![s].rev = gd.rev, ![s].reply = gd.id]
          /\ UNCHANGED rjobs
     ELSE DraftIdle(s) /\ EndJob(s, "COMPLETED")  \* sync
  /\ UNCHANGED <<gd, replies, intentAt, edited, draftEdits, draftFaults>>

\* Not exactly one candidate, or nothing to resolve: raised with a transaction open,
\* which a worker does not survive, so its job stays RUNNING.
ReconcileGivesUp(s) ==
  /\ cs[s].pc = "load" /\ gd.id = 0
  /\ gd.status # "GRAPH_DRAFT_PENDING" \/ \E c \in Candidates : Cardinality(c) # 1
  /\ DraftIdle(s)
  /\ UNCHANGED <<gd, replies, intentAt, rjobs, edited, draftEdits, draftFaults>>

\* The process serving the session ends.
ComposerCrash(s) ==
  /\ cs[s].pc # "idle"
  /\ draftFaults < MaxDraftFaults /\ draftFaults' = draftFaults + 1
  /\ DraftIdle(s)
  /\ UNCHANGED <<gd, replies, intentAt, rjobs, edited, draftEdits>>

(***************************************************************************)
(* Specification                                                           *)
(***************************************************************************)

ComposerStep(s) ==
  \/ CreateIntent(s) \/ CreatePost(s) \/ CreateRecords(s) \/ Finalizes(s)
  \/ ReconcileAdopts(s) \/ ReconcileKnown(s) \/ ReconcileGivesUp(s)

DraftNext ==
  \/ GenerateDraft \/ EditDraft \/ OutlookReply
  \/ \E s \in Composers :
       \/ CreateStarts(s) \/ ReconcileRequest(s) \/ \E r \in Revisions : ReconcileClaim(s, r)
       \/ ComposerStep(s) \/ FinalizeFails(s) \/ FinalizeFindsSent(s) \/ ComposerCrash(s)

DraftSpec == DraftInit /\ [][DraftNext]_draftVars

(***************************************************************************)
(* Properties                                                              *)
(***************************************************************************)

\* As long as nobody edits an unresolved draft or replies in Outlook meanwhile, and short of an
\* operator's review, a createReply whose answer was lost is not repeated, and the identity of
\* the Graph draft, once stored, is never replaced by another, whoever resolves the lost answer
\* (the request, a retry, a reconciliation) and in whatever order.
OneReply ==
  [][~edited' => /\ Len(replies') > Len(replies) => replies = <<>>
                 /\ gd.id # 0 => gd'.id = gd.id]_draftVars
=============================================================================
