----------------------------- MODULE LeasedJobs -----------------------------
(***************************************************************************)
(* The licensing and the document queue: app/repositories/{licensing_jobs, *)
(* document_jobs}.py, the worker loops of app/workers/{licensing_jobs,     *)
(* document_jobs}.py and their lease recovery by app/workers/scheduling.py.*)
(*                                                                         *)
(* A row is identified by its idempotency key, which is used once for      *)
(* ever.  Unlike the Graph queue there is no heartbeat: the lease is set   *)
(* when the row is claimed and never extended, and no terminal write looks *)
(* at it.  available_at is abstracted away: any claimable row may be next. *)
(***************************************************************************)
EXTENDS Naturals

CONSTANTS
  LicensingKeys, DocumentKeys,        \* idempotency keys of the two tables
  LicensingWorkers, DocumentWorkers,  \* the processes that serve each
  LicensingMax,                       \* max_attempts of a licensing job
  LeasesHold,                         \* TRUE: no handler outlives its lease
  MaxDeaths                           \* bound: processes that end with a job

ASSUME LeasedBounds ==
  /\ LicensingKeys \cap DocumentKeys = {} /\ LicensingWorkers \cap DocumentWorkers = {}
  /\ "-" \notin LicensingKeys \cup DocumentKeys
  /\ LicensingMax \in Nat \ {0} /\ LeasesHold \in BOOLEAN /\ MaxDeaths \in Nat

VARIABLES
  leased,   \* the rows, by key
  working,  \* what each worker holds, as its session read it when it claimed
  deaths

leasedVars == <<leased, working, deaths>>

LeasedKeys == LicensingKeys \cup DocumentKeys
LeasedWorkers == LicensingWorkers \cup DocumentWorkers
Serves(w) == IF w \in LicensingWorkers THEN LicensingKeys ELSE DocumentKeys

JobStatuses == {"NONE", "PENDING", "RUNNING", "FAILED_RETRYABLE", "COMPLETED", "FAILED_REVIEW"}
EndStatuses == {"COMPLETED", "FAILED_REVIEW"}
Free == [key |-> "-", attempts |-> 0]

\* Rows keep their types, and every RUNNING row carries the lease that recovery looks for:
\* one without would be stranded.
LeasedTypeOK ==
  /\ leased \in [LeasedKeys -> [st : JobStatuses, lease : {"none", "live", "lapsed"}, attempts : Nat]]
  /\ working \in [LeasedWorkers -> [key : LeasedKeys \cup {"-"}, attempts : Nat]]
  /\ deaths \in 0..MaxDeaths
  /\ \A k \in LeasedKeys : leased[k].st = "RUNNING" <=> leased[k].lease # "none"

LeasedInit ==
  /\ leased = [k \in LeasedKeys |-> [st |-> "NONE", lease |-> "none", attempts |-> 0]]
  /\ working = [w \in LeasedWorkers |-> Free]
  /\ deaths = 0

\* enqueue: unless a job with the key exists, finished or not.
EnqueueKey(k) ==
  /\ leased[k].st = "NONE"
  /\ leased' = [leased EXCEPT ![k].st = "PENDING"]
  /\ UNCHANGED <<working, deaths>>

ClaimedRow(k) == [st |-> "RUNNING", lease |-> "live", attempts |-> leased[k].attempts + 1]

\* claim_next, in one transaction that skips locked rows; attempts are not compared.
ClaimNext(w, k) ==
  /\ working[w] = Free /\ k \in Serves(w)
  /\ leased[k].st \in {"PENDING", "FAILED_RETRYABLE"}
  /\ leased' = [leased EXCEPT ![k] = ClaimedRow(k)]
  /\ working' = [working EXCEPT ![w] = [key |-> k, attempts |-> leased[k].attempts + 1]]
  /\ UNCHANGED deaths

\* Every terminal write clears the lease, whoever holds it by then.
EndAs(w, s) ==
  /\ working[w] # Free
  /\ leased' = [leased EXCEPT ![working[w].key].st = s, ![working[w].key].lease = "none"]
  /\ working' = [working EXCEPT ![w] = Free]

MarkCompleted(w) == EndAs(w, "COMPLETED") /\ UNCHANGED deaths

\* record_failure, by the attempts the session read. The document worker never retries.
LeasedFails(w, retryable) ==
  /\ EndAs(w, IF retryable /\ w \in LicensingWorkers /\ working[w].attempts < LicensingMax
              THEN "FAILED_RETRYABLE" ELSE "FAILED_REVIEW")
  /\ UNCHANGED deaths

\* The process ends with the job: a redeploy, or a handler that raised inside a transaction
\* (rollback expires the row, and reading job.id again raises). Its supervisor restarts it.
HolderDies(w) ==
  /\ working[w] # Free /\ deaths < MaxDeaths
  /\ working' = [working EXCEPT ![w] = Free]
  /\ deaths' = deaths + 1
  /\ UNCHANGED leased

\* lease_expires_at passes.
LeaseLapses(k) ==
  /\ leased[k].lease = "live"
  /\ LeasesHold => \A w \in LeasedWorkers : working[w].key # k
  /\ leased' = [leased EXCEPT ![k].lease = "lapsed"]
  /\ UNCHANGED <<working, deaths>>

LapsedBelowMax == {k \in LeasedKeys : leased[k].lease = "lapsed" /\ leased[k].attempts < LicensingMax}
RecoversAnyRunning == {k \in LeasedKeys : leased[k].st = "RUNNING"}
LapsedRows == {k \in LeasedKeys : leased[k].st = "RUNNING" /\ leased[k].lease = "lapsed"}

\* recover_expired_leases, which does not compare attempts either.
RecoverLapsed ==
  /\ LapsedRows # {}
  /\ leased' = [k \in LeasedKeys |-> IF k \in LapsedRows
                  THEN [leased[k] EXCEPT !.st = "FAILED_RETRYABLE", !.lease = "none"] ELSE leased[k]]
  /\ UNCHANGED <<working, deaths>>

LeasedNext ==
  \/ \E k \in LeasedKeys : EnqueueKey(k) \/ LeaseLapses(k)
  \/ \E w \in LeasedWorkers :
       \/ \E k \in LeasedKeys : ClaimNext(w, k)
       \/ MarkCompleted(w) \/ HolderDies(w)
       \/ \E retryable \in BOOLEAN : LeasedFails(w, retryable)
  \/ RecoverLapsed

\* Handlers have timeouts, workers poll, the clock advances and the scheduler cycles.
LeasedFairness ==
  /\ \A w \in LeasedWorkers :
       /\ WF_leasedVars(\E k \in LeasedKeys : ClaimNext(w, k))
       /\ WF_leasedVars(MarkCompleted(w) \/ \E retryable \in BOOLEAN : LeasedFails(w, retryable))
  /\ \A k \in LeasedKeys : WF_leasedVars(LeaseLapses(k))
  /\ WF_leasedVars(RecoverLapsed)

LeasedSpec == LeasedInit /\ [][LeasedNext]_leasedVars /\ LeasedFairness
-----------------------------------------------------------------------------
\* A restart never strands a job (DocumentJobRepository.recover_expired_leases) and retries
\* run out (LicensingJobRepository.record_failure): every enqueued job is completed or parked
\* for review in the end.
JobsEnd == \A k \in LeasedKeys : leased[k].st = "PENDING" ~> leased[k].st \in EndStatuses

\* What the job service shows of a row, and whose handlers run it.
StageOf(s) ==
  CASE s = "NONE" -> "absent" [] s = "RUNNING" -> "held" [] s \in EndStatuses -> "done" [] OTHER -> "waiting"
StageShown == [k \in LeasedKeys |-> StageOf(leased[k].st)]
BusyShown == [k \in LeasedKeys |-> {w \in LeasedWorkers : working[w].key = k}]

\* The job service, of both queues together.
LeasedService == INSTANCE JobService WITH
  ServiceJobs <- LeasedKeys, ServiceWorkers <- LeasedWorkers, stage <- StageShown, busy <- BusyShown

\* While no handler outlives its lease, both queues implement the job service: one worker at a
\* time holds a job, an ended one is not touched again, an abandoned one is offered again.
LeasedImplements == LeasedService!ServiceSpec
=============================================================================
