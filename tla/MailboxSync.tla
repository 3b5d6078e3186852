---------------------------- MODULE MailboxSync ----------------------------
(***************************************************************************)
(* Delta synchronisation of one mailbox folder: app/services/graph_sync.py *)
(* (one round), app/services/graph_notifications.py (the webhook that asks *)
(* for one), the periodic reconciliation of app/workers/scheduling.py and  *)
(* the folder lease of app/jobs/leasing.py.  The job queue is              *)
(* GraphJobQueue; here it is the one active SYNC_FOLDER job of the folder, *)
(* into which every further request is coalesced.                          *)
(*                                                                         *)
(* Graph (external): every change of a message gets the next version; a    *)
(* delta link is the version up to which its holder has been told.  A      *)
(* round from a link reports the messages changed since, one page at a     *)
(* time, as they are when the page is fetched; a baseline reports the      *)
(* messages in the folder and never a removal.                             *)
(***************************************************************************)
EXTENDS Naturals, FiniteSets

CONSTANTS
  Msgs,            \* messages
  Syncers,         \* worker processes
  SyncMax,         \* graph_job_max_attempts
  MaxChanges,      \* bound: changes in the mailbox
  MaxSyncFaults,   \* bound: crashes, failed requests, rejected tokens, stalls
  StallsHappen     \* a worker may outlive both its job lease and its folder lease

ASSUME SyncAssumption ==
  /\ SyncMax \in Nat \ {0} /\ MaxChanges \in Nat /\ MaxSyncFaults \in Nat
  /\ StallsHappen \in BOOLEAN /\ "nobody" \notin Syncers

VARIABLES
  inbox,      \* messages Graph has in the folder
  changed,    \* version of the last change of each message
  sync,       \* the row of mailbox_sync_state
  job,        \* the active SYNC_FOLDER job, or the last one
  rows,       \* emails: synced_folder_membership of each message, or "NONE"
  ingests,    \* emails that got an INGEST_EMAIL job
  receipts,   \* idempotency keys of graph_notification_receipts
  sw,         \* worker sessions
  rebased,    \* a baseline began with rows already there (history)
  stalled,    \* a round outlived its leases (history)
  syncFaults

syncVars == <<inbox, changed, sync, job, rows, ingests, receipts, sw, rebased,
              stalled, syncFaults>>

\* The version of the last change.
Now == IF \E m \in Msgs : changed[m] > 0
       THEN CHOOSE v \in {changed[m] : m \in Msgs} : \A m \in Msgs : changed[m] <= v ELSE 0
Nobody == "nobody"
SyncStateRows == [known : BOOLEAN, link : 0..MaxChanges, rebase : BOOLEAN,
                  owner : Syncers \cup {Nobody}]
MailboxRows == {"NONE", "PRESENT", "REMOVED"}
SyncJobRows == [status : {"NONE", "PENDING", "RUNNING"}, attempts : 0..SyncMax,
                by : Syncers \cup {Nobody}]
NoSyncJob == [status |-> "NONE", attempts |-> 0, by |-> Nobody]
IdleSyncer == [pc |-> "idle", base |-> FALSE, from |-> 0, upto |-> 0, todo |-> {}, item |-> {}]

\* Rows and sessions keep their types.
SyncTypeOK ==
  /\ inbox \subseteq Msgs /\ changed \in [Msgs -> 0..MaxChanges]
  /\ sync \in SyncStateRows
  /\ job \in SyncJobRows /\ (job.status = "RUNNING" <=> job.by # Nobody)
  /\ rows \in [Msgs -> MailboxRows] /\ ingests \subseteq Msgs
  /\ receipts \subseteq 1..MaxChanges
  /\ sw \in [Syncers -> [pc : {"idle", "loaded", "fetch", "page", "store",
                               "invalid", "release", "failed"},
                         base : BOOLEAN, from : 0..MaxChanges, upto : 0..MaxChanges,
                         todo : SUBSET Msgs, item : SUBSET (Msgs \X BOOLEAN)]]
  /\ rebased \in BOOLEAN /\ stalled \in BOOLEAN /\ syncFaults \in 0..MaxSyncFaults

SyncInit ==
  /\ inbox = {} /\ changed = [m \in Msgs |-> 0]
  /\ sync = [known |-> FALSE, link |-> 0, rebase |-> FALSE, owner |-> Nobody]
  /\ job = NoSyncJob
  /\ rows = [m \in Msgs |-> "NONE"] /\ ingests = {} /\ receipts = {}
  /\ sw = [w \in Syncers |-> IdleSyncer]
  /\ rebased = FALSE /\ stalled = FALSE /\ syncFaults = 0

\* enqueue_sync_folder: PENDING, RUNNING and retryable jobs of the folder are active.
WithSyncJob(j) == IF j.status = "NONE" THEN [NoSyncJob EXCEPT !.status = "PENDING"] ELSE j

(***************************************************************************)
(* The mailbox, the webhook and the scheduler                              *)
(***************************************************************************)

\* A message arrives, is edited, or leaves the folder.
MailboxChange(m, in) ==
  /\ Now < MaxChanges
  /\ in \/ m \in inbox
  /\ inbox' = IF in THEN inbox \cup {m} ELSE inbox \ {m}
  /\ changed' = [changed EXCEPT ![m] = Now + 1]
  /\ UNCHANGED <<sync, job, rows, ingests, receipts, sw, rebased, stalled, syncFaults>>

\* process_collection for the notification of a change that passes every check.  It may
\* come late or never; one whose idempotency key has been seen changes nothing.
Notify(n) ==
  /\ n <= Now /\ n \notin receipts
  /\ receipts' = receipts \cup {n}
  /\ job' = WithSyncJob(job)
  /\ UNCHANGED <<inbox, changed, sync, rows, ingests, sw, rebased, stalled, syncFaults>>

\* run_scheduler_cycle, part 2, and the request and CLI command that queue a sync.  That the
\* reconciliation interval has passed is left open.
ScheduleSync ==
  /\ job.status = "NONE"
  /\ job' = WithSyncJob(job)
  /\ UNCHANGED <<inbox, changed, sync, rows, ingests, receipts, sw, rebased,
                 stalled, syncFaults>>

(***************************************************************************)
(* A round                                                                 *)
(***************************************************************************)

SyncGoTo(w, pc) == sw' = [sw EXCEPT ![w].pc = pc]

\* The claim, then _get_or_create_state.  The session keeps what it loaded here: the
\* folder lease is taken later, by an UPDATE that does not refresh it.
SyncClaim(w) ==
  /\ sw[w].pc = "idle" /\ job.status = "PENDING"
  /\ job' = [status |-> "RUNNING", attempts |-> job.attempts + 1, by |-> w]
  /\ sw' = [sw EXCEPT ![w].pc = "loaded", ![w].base = ~sync.known \/ sync.rebase,
                      ![w].from = sync.link]
  /\ UNCHANGED <<inbox, changed, sync, rows, ingests, receipts, rebased, stalled,
                 syncFaults>>

AcquireSyncLease(w) ==
  /\ sw[w].pc = "loaded" /\ sync.owner \in {Nobody, w}
  /\ sync' = [sync EXCEPT !.owner = w]
  /\ SyncGoTo(w, "fetch")
  /\ UNCHANGED <<inbox, changed, job, rows, ingests, receipts, rebased, stalled,
                 syncFaults>>

\* "Folder sync lease is held by another worker."
SyncLeaseHeld(w) ==
  /\ sw[w].pc = "loaded" /\ sync.owner \notin {Nobody, w}
  /\ SyncGoTo(w, "failed")
  /\ UNCHANGED <<inbox, changed, sync, job, rows, ingests, receipts, rebased,
                 stalled, syncFaults>>

Reported(base, from) == IF base THEN inbox ELSE {m \in Msgs : changed[m] > from}

\* fetch_page: the first page fixes the round, each page holds one message as it is now.
FetchPage(w) ==
  LET first == sw[w].upto = 0 /\ sw[w].todo = {} /\ sw[w].item = {}
      todo == IF first THEN Reported(sw[w].base, sw[w].from) ELSE sw[w].todo
      upto == IF first THEN Now ELSE sw[w].upto IN
  /\ sw[w].pc = "fetch"
  /\ \/ /\ todo = {}
        /\ sw' = [sw EXCEPT ![w].pc = "store", ![w].upto = upto]
     \/ \E m \in todo :
          sw' = [sw EXCEPT ![w].pc = "page", ![w].upto = upto, ![w].todo = todo \ {m},
                           ![w].item = {<<m, m \in inbox>>}]
  /\ rebased' = (rebased \/ (first /\ sw[w].base /\ ingests # {}))
  /\ UNCHANGED <<inbox, changed, sync, job, rows, ingests, receipts, stalled,
                 syncFaults>>

\* _apply_page and its commit: _upsert_message inserts or refreshes, _apply_removal marks a
\* row that exists; a baseline does not report what has left.
ApplyPage(w) ==
  LET m == CHOOSE x \in Msgs : \E b \in BOOLEAN : <<x, b>> \in sw[w].item
      present == <<m, TRUE>> \in sw[w].item IN
  /\ sw[w].pc = "page"
  /\ rows' = CASE present -> [rows EXCEPT ![m] = "PRESENT"]
               [] ~present /\ rows[m] # "NONE" /\ ~sw[w].base -> [rows EXCEPT ![m] = "REMOVED"]
               [] OTHER -> rows
  /\ ingests' = IF present /\ rows[m] = "NONE" THEN ingests \cup {m} ELSE ingests
  /\ SyncGoTo(w, IF sw[w].todo = {} THEN "store" ELSE "fetch")
  /\ UNCHANGED <<inbox, changed, sync, job, receipts, rebased, stalled, syncFaults>>

\* Mutant: the checkpoint is taken when it is stored, not when the round began.
StoreCheckpointNow(w) ==
  /\ sw[w].pc = "store"
  /\ sync' = [sync EXCEPT !.known = TRUE, !.link = Now, !.rebase = FALSE]
  /\ SyncGoTo(w, "release")
  /\ UNCHANGED <<inbox, changed, job, rows, ingests, receipts, rebased, stalled,
                 syncFaults>>

\* The checkpoint advances after the last page only.
StoreCheckpoint(w) ==
  /\ sw[w].pc = "store"
  /\ sync' = [sync EXCEPT !.known = TRUE, !.link = sw[w].upto, !.rebase = FALSE]
  /\ SyncGoTo(w, "release")
  /\ UNCHANGED <<inbox, changed, job, rows, ingests, receipts, rebased, stalled,
                 syncFaults>>

SyncFault == syncFaults < MaxSyncFaults /\ syncFaults' = syncFaults + 1

\* DeltaStateInvalidError: Graph rejects the token.
RejectToken(w) ==
  /\ sw[w].pc = "fetch" /\ ~sw[w].base /\ SyncFault
  /\ SyncGoTo(w, "invalid")
  /\ UNCHANGED <<inbox, changed, sync, job, rows, ingests, receipts, rebased, stalled>>

\* _handle_invalid_delta_state: forget the link and queue a baseline.
InvalidDelta(w) ==
  /\ sw[w].pc = "invalid"
  /\ sync' = [sync EXCEPT !.known = FALSE, !.link = 0, !.rebase = TRUE]
  /\ job' = WithSyncJob(job)
  /\ SyncGoTo(w, "release")
  /\ UNCHANGED <<inbox, changed, rows, ingests, receipts, rebased, stalled,
                 syncFaults>>

\* A request fails: the error is stored, the lease released, the failure recorded.
RoundFails(w) ==
  /\ sw[w].pc \in {"fetch", "page"} /\ SyncFault
  /\ SyncGoTo(w, "failed")
  /\ UNCHANGED <<inbox, changed, sync, job, rows, ingests, receipts, rebased, stalled>>

Released(w) == [sync EXCEPT !.owner = IF @ = w THEN Nobody ELSE @]

\* Mutant: the round ends and the folder lease is left to lapse, which it never does.
RoundEndsHolding(w) ==
  /\ sw[w].pc = "release"
  /\ job' = NoSyncJob
  /\ sw' = [sw EXCEPT ![w] = IdleSyncer]
  /\ UNCHANGED <<inbox, changed, sync, rows, ingests, receipts, rebased, stalled, syncFaults>>

\* The finally clause, then mark_completed.
RoundEnds(w) ==
  /\ sw[w].pc = "release"
  /\ sync' = Released(w)
  /\ job' = NoSyncJob
  /\ sw' = [sw EXCEPT ![w] = IdleSyncer]
  /\ UNCHANGED <<inbox, changed, rows, ingests, receipts, rebased, stalled, syncFaults>>

\* record_failure: another attempt, or FAILED_REVIEW, which is not active.
Retried(j) == IF j.attempts < SyncMax THEN [j EXCEPT !.status = "PENDING", !.by = Nobody]
              ELSE NoSyncJob

RoundFailed(w) ==
  /\ sw[w].pc = "failed"
  /\ sync' = Released(w)
  /\ job' = Retried(job)
  /\ sw' = [sw EXCEPT ![w] = IdleSyncer]
  /\ UNCHANGED <<inbox, changed, rows, ingests, receipts, rebased, stalled, syncFaults>>

\* The process dies; job lease and folder lease lapse, the scheduler recovers the job.
SyncerDies(w) ==
  /\ sw[w].pc # "idle" /\ SyncFault
  /\ sync' = Released(w)
  /\ job' = IF job.by = w THEN Retried(job) ELSE job
  /\ sw' = [sw EXCEPT ![w] = IdleSyncer]
  /\ UNCHANGED <<inbox, changed, rows, ingests, receipts, rebased, stalled>>

\* The process lives on while both leases lapse: another worker starts a round.
SyncerStalls(w) ==
  /\ StallsHappen /\ sw[w].pc \in {"fetch", "page", "store"} /\ SyncFault
  /\ job.by = w /\ job.attempts < SyncMax
  /\ sync' = Released(w)
  /\ job' = Retried(job)
  /\ stalled' = TRUE
  /\ UNCHANGED <<inbox, changed, rows, ingests, receipts, sw, rebased>>

(***************************************************************************)
(* Specification                                                           *)
(***************************************************************************)

SyncStep(w) ==
  \/ SyncClaim(w) \/ AcquireSyncLease(w) \/ SyncLeaseHeld(w)
  \/ FetchPage(w) \/ ApplyPage(w) \/ StoreCheckpoint(w) \/ InvalidDelta(w)
  \/ RoundEnds(w) \/ RoundFailed(w)

SyncNext ==
  \/ \E m \in Msgs, in \in BOOLEAN : MailboxChange(m, in)
  \/ \E n \in 1..MaxChanges : Notify(n)
  \/ ScheduleSync
  \/ \E w \in Syncers : \/ SyncStep(w) \/ RejectToken(w) \/ RoundFails(w)
                        \/ SyncerDies(w) \/ SyncerStalls(w)

\* Workers go on and the scheduler comes round; Graph's notifications are not promised.
SyncFairness == WF_syncVars(Now > 0 /\ ScheduleSync) /\ \A w \in Syncers : WF_syncVars(SyncStep(w))

SyncSpec == SyncInit /\ [][SyncNext]_syncVars /\ SyncFairness

(***************************************************************************)
(* Properties                                                              *)
(***************************************************************************)

\* The checkpoint never passes a message the application does not know: whatever the
\* order in which rounds interleave, fail and store their links, a message in the folder
\* whose last change the link covers has a row and an ingestion job.
CheckpointCoversMail ==
  sync.known => \A m \in inbox : (changed[m] \in 1..sync.link) => m \in ingests

\* While no round outlives its leases, the membership of a message the checkpoint covers
\* is the mailbox's.  A baseline that is not the first (a rejected token, a
\* first round that failed) reports no removal, so then only what is in the folder is right.
MembershipIsTrue ==
  (sync.known /\ ~stalled /\ sync.link = Now) =>
    \A m \in Msgs : /\ m \in inbox => rows[m] = "PRESENT"
                    /\ (m \notin inbox /\ ~rebased) => rows[m] # "PRESENT"

\* Changes reach the application although notifications are lost or coalesced into a
\* round that has already read past them: the periodic reconciliation finds them.
ChangesArrive == Now > 0 ~> (sync.known /\ sync.link = Now)

\* The invariant of a folder's synchronisation: nothing the checkpoint has passed is unknown or
\* stands with the wrong membership.
SyncInv == SyncTypeOK /\ CheckpointCoversMail /\ MembershipIsTrue
=============================================================================
