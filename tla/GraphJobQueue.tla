--------------------------- MODULE GraphJobQueue ---------------------------
(***************************************************************************)
(* The durable Graph job queue: app/jobs/{repository,service}.py, the      *)
(* worker loop of app/workers/runner.py and the lease recovery of          *)
(* app/workers/scheduling.py.                                              *)
(*                                                                         *)
(* A row of graph_jobs is identified by its idempotency key, which is      *)
(* unique; key j is always enqueued for Target[j], a (job type, folder or  *)
(* email) pair.  Time is abstracted to two facts about a row: whether its  *)
(* available_at has passed, with the order in which available_at's passed, *)
(* and whether its lease has expired.                                      *)
(***************************************************************************)
EXTENDS Naturals, FiniteSets

CONSTANTS
  Jobs,               \* idempotency keys
  Workers,            \* worker processes (app.workers.runner)
  Producers,          \* sessions that enqueue: webhook, scheduler, API, CLI
  Targets,            \* (job type, folder id or email id)
  Target,             \* the target a key is enqueued for
  UniqueTargets,      \* targets under a partial unique index of models/job.py
  Priorities,         \* priorities callers pass
  NULL,               \* no owner, no job
  MaxAttempts,        \* graph_job_max_attempts
  HeartbeatsReliable, \* TRUE: a live handler's lease never lapses
  CleanFailures,      \* TRUE: handlers raise with no transaction open
  MaxCrashes,         \* bound: worker crashes in a behaviour
  MaxClaims           \* bound: claims of one row in a behaviour

ASSUME QueueAssumption ==
  /\ Target \in [Jobs -> Targets]
  /\ UniqueTargets \subseteq Targets
  /\ Priorities \subseteq Nat
  /\ MaxAttempts \in Nat \ {0}
  /\ MaxClaims \in Nat
  /\ MaxCrashes \in Nat
  /\ HeartbeatsReliable \in BOOLEAN
  /\ CleanFailures \in BOOLEAN
  /\ NULL \notin Workers \cup Jobs

VARIABLES
  status, priority, attempts, owner, lease,  \* columns of graph_jobs
  due,        \* rows whose available_at has passed
  ahead,      \* ahead[j]: due rows with an earlier available_at than j
  wpc,        \* worker: idle, claiming (row locked), running, down
  held,       \* the row a worker holds
  att,        \* attempts as the worker's session read it when it claimed
  hb,         \* _extend_lease_loop: live, stopped (extension refused), error
  ppc, req,   \* producer: idle, insert, reread; and what it enqueues
  outbox,     \* outbox keys graph-job-review:{id}:{attempts}
  recoveries, \* how often the scheduler recovered each row (history)
  crashes

rowVars    == <<status, priority, attempts, owner, lease, due, ahead>>
workerVars == <<wpc, held, att, hb>>
prodVars   == <<ppc, req>>
vars == <<rowVars, workerVars, prodVars, outbox, recoveries, crashes>>

Active    == {"PENDING", "RUNNING"}                \* ACTIVE_JOB_STATUSES
Claimable == {"PENDING", "FAILED_RETRYABLE"}
Terminal  == {"COMPLETED", "FAILED_REVIEW"}
Statuses  == {"NONE"} \cup Active \cup Claimable \cup Terminal

NoReq == [key |-> NULL, prio |-> 0]

TypeOK ==
  /\ status \in [Jobs -> Statuses]
  /\ priority \in [Jobs -> Nat]
  /\ attempts \in [Jobs -> Nat]
  /\ owner \in [Jobs -> Workers \cup {NULL}]
  /\ lease \in [Jobs -> {"none", "fresh", "expired"}]
  /\ due \in SUBSET Jobs
  /\ ahead \in [Jobs -> SUBSET Jobs]
  /\ wpc \in [Workers -> {"idle", "claiming", "running", "down"}]
  /\ held \in [Workers -> Jobs \cup {NULL}]
  /\ att \in [Workers -> Nat]
  /\ hb \in [Workers -> {"live", "stopped", "error"}]
  /\ ppc \in [Producers -> {"idle", "insert", "reread"}]
  /\ req \in [Producers -> [key : Jobs \cup {NULL}, prio : Nat]]
  /\ outbox \in SUBSET (Jobs \X Nat)
  /\ recoveries \in [Jobs -> Nat]
  /\ crashes \in Nat
  /\ \A w \in Workers : wpc[w] \in {"claiming", "running"} => held[w] \in Jobs
  /\ \A p \in Producers : ppc[p] # "idle" => req[p].key \in Jobs

Init ==
  /\ status = [j \in Jobs |-> "NONE"]
  /\ priority = [j \in Jobs |-> 0]
  /\ attempts = [j \in Jobs |-> 0]
  /\ owner = [j \in Jobs |-> NULL]
  /\ lease = [j \in Jobs |-> "none"]
  /\ due = {}
  /\ ahead = [j \in Jobs |-> {}]
  /\ wpc = [w \in Workers |-> "idle"]
  /\ held = [w \in Workers |-> NULL]
  /\ att = [w \in Workers |-> 0]
  /\ hb = [w \in Workers |-> "live"]
  /\ ppc = [p \in Producers |-> "idle"]
  /\ req = [p \in Producers |-> NoReq]
  /\ outbox = {}
  /\ recoveries = [j \in Jobs |-> 0]
  /\ crashes = 0

(***************************************************************************)
(* Rows                                                                    *)
(***************************************************************************)

\* The partial unique indexes: no second PENDING or RUNNING row for the target.
IndexConflict(j) ==
  /\ Target[j] \in UniqueTargets
  /\ \E k \in Jobs \ {j} : status[k] \in Active /\ Target[k] = Target[j]

\* FOR UPDATE in claim_next: the row is locked until the claim commits.
Locked(j) == \E w \in Workers : wpc[w] = "claiming" /\ held[w] = j

ActiveForTarget(j) == {k \in Jobs : status[k] \in Active /\ Target[k] = Target[j]}

\* available_at moves into the future; the row leaves the due order.
LeaveDue(j) ==
  /\ due' = due \ {j}
  /\ ahead' = [k \in Jobs |-> IF k = j THEN {} ELSE ahead[k] \ {j}]

\* available_at passes now, after that of every row already due.
JoinDue(j) ==
  /\ due' = due \cup {j}
  /\ ahead' = [ahead EXCEPT ![j] = due \ {j}]

BecomeDue(j) ==
  /\ j \notin due
  /\ status[j] \in Active \cup Claimable
  /\ JoinDue(j)
  /\ UNCHANGED <<status, priority, attempts, owner, lease, workerVars,
                 prodVars, outbox, recoveries, crashes>>

(***************************************************************************)
(* enqueue                                                                 *)
(***************************************************************************)

\* _coalesce_into: only the priority of the active row may change.
CoalesceInto(k, prio) ==
  /\ ~Locked(k)
  /\ priority' = [priority EXCEPT ![k] = IF prio < @ THEN prio ELSE @]
  /\ UNCHANGED <<status, attempts, owner, lease, due, ahead>>

\* The reads before the insert: key known, active row to coalesce into, neither.
EnqueueCheck(p, j, prio) ==
  /\ ppc[p] = "idle"
  /\ status[j] = "NONE"
  /\ \/ /\ \E k \in ActiveForTarget(j) : CoalesceInto(k, prio)
        /\ UNCHANGED prodVars
     \/ /\ ActiveForTarget(j) = {}
        /\ ppc' = [ppc EXCEPT ![p] = "insert"]
        /\ req' = [req EXCEPT ![p] = [key |-> j, prio |-> prio]]
        /\ UNCHANGED rowVars
  /\ UNCHANGED <<workerVars, outbox, recoveries, crashes>>

\* The insert in its savepoint; a unique violation leads to the second reads.
EnqueueInsert(p) ==
  LET j == req[p].key IN
  /\ ppc[p] = "insert"
  /\ IF status[j] # "NONE" \/ IndexConflict(j)
     THEN /\ ppc' = [ppc EXCEPT ![p] = "reread"]
          /\ UNCHANGED <<rowVars, req>>
     ELSE /\ status' = [status EXCEPT ![j] = "PENDING"]
          /\ priority' = [priority EXCEPT ![j] = req[p].prio]
          /\ JoinDue(j)
          /\ ppc' = [ppc EXCEPT ![p] = "idle"]
          /\ req' = [req EXCEPT ![p] = NoReq]
          /\ UNCHANGED <<attempts, owner, lease>>
  /\ UNCHANGED <<workerVars, outbox, recoveries, crashes>>

\* The winner of the race is returned or coalesced into; when it is no longer
\* active the IntegrityError is re-raised and the request is lost.
EnqueueReread(p) ==
  LET j == req[p].key IN
  /\ ppc[p] = "reread"
  /\ \/ /\ status[j] # "NONE" \/ ActiveForTarget(j) = {}
        /\ UNCHANGED rowVars
     \/ /\ status[j] = "NONE"
        /\ \E k \in ActiveForTarget(j) : CoalesceInto(k, req[p].prio)
  /\ ppc' = [ppc EXCEPT ![p] = "idle"]
  /\ req' = [req EXCEPT ![p] = NoReq]
  /\ UNCHANGED <<workerVars, outbox, recoveries, crashes>>

(***************************************************************************)
(* claim_next                                                              *)
(***************************************************************************)

Candidates == {j \in due : status[j] \in Claimable /\ ~Locked(j)}

\* ORDER BY priority, available_at
FirstCandidate(j) ==
  /\ j \in Candidates
  /\ \A k \in Candidates \ {j} :
       \/ priority[j] < priority[k]
       \/ priority[j] = priority[k] /\ k \notin ahead[j]

\* Mutant: the worker goes on when the query returned no row.
ClaimSelectNoRow(w) ==
  /\ wpc[w] = "idle"
  /\ \/ \E j \in Jobs : FirstCandidate(j) /\ held' = [held EXCEPT ![w] = j]
     \/ Candidates = {} /\ UNCHANGED held
  /\ wpc' = [wpc EXCEPT ![w] = "claiming"]
  /\ UNCHANGED <<rowVars, att, hb, prodVars, outbox, recoveries, crashes>>

\* SELECT ... FOR UPDATE SKIP LOCKED LIMIT 1
ClaimSelect(w) ==
  /\ wpc[w] = "idle"
  /\ \E j \in Jobs :
       /\ FirstCandidate(j)
       /\ attempts[j] < MaxClaims
       /\ held' = [held EXCEPT ![w] = j]
  /\ wpc' = [wpc EXCEPT ![w] = "claiming"]
  /\ UNCHANGED <<rowVars, att, hb, prodVars, outbox, recoveries, crashes>>

Die(w) ==
  /\ wpc' = [wpc EXCEPT ![w] = "down"]
  /\ held' = [held EXCEPT ![w] = NULL]
  /\ att' = [att EXCEPT ![w] = 0]
  /\ hb' = [hb EXCEPT ![w] = "live"]

\* The claim's update, without what the indexes refuse.
TakeRow(w) ==
  LET j == held[w] IN
  /\ status' = [status EXCEPT ![j] = "RUNNING"]
  /\ owner' = [owner EXCEPT ![j] = w]
  /\ lease' = [lease EXCEPT ![j] = "fresh"]
  /\ attempts' = [attempts EXCEPT ![j] = @ + 1]
  /\ att' = [att EXCEPT ![w] = attempts[j] + 1]
  /\ wpc' = [wpc EXCEPT ![w] = "running"]
  /\ UNCHANGED <<priority, due, ahead, held, hb, prodVars, outbox,
                 recoveries, crashes>>

\* Mutant: the claim is not checked against the partial unique indexes.
ClaimCommitUnchecked(w) == wpc[w] = "claiming" /\ TakeRow(w)

\* Mutant: the attempt is not counted when the row was recovered.
ClaimCommitUncounted(w) ==
  LET j == held[w] IN
  /\ wpc[w] = "claiming"
  /\ status' = [status EXCEPT ![j] = "RUNNING"]
  /\ owner' = [owner EXCEPT ![j] = w]
  /\ lease' = [lease EXCEPT ![j] = "fresh"]
  /\ attempts' = [attempts EXCEPT ![j] = IF recoveries[j] > 0 THEN @ ELSE @ + 1]
  /\ att' = [att EXCEPT ![w] = attempts'[j]]
  /\ wpc' = [wpc EXCEPT ![w] = "running"]
  /\ UNCHANGED <<priority, due, ahead, held, hb, prodVars, outbox,
                 recoveries, crashes>>

\* The commit: a unique violation escapes run() and ends the process.
ClaimCommit(w) ==
  /\ wpc[w] = "claiming"
  /\ \/ /\ ~IndexConflict(held[w])
        /\ TakeRow(w)
     \/ /\ IndexConflict(held[w])
        /\ Die(w)
        /\ UNCHANGED <<rowVars, prodVars, outbox, recoveries, crashes>>

(***************************************************************************)
(* _process, _extend_lease_loop and the terminal writes                    *)
(***************************************************************************)

\* extend_lease refreshes only the lease the worker still owns.
ExtendLease(w) ==
  LET j == held[w] IN
  /\ wpc[w] = "running" /\ hb[w] = "live"
  /\ IF owner[j] = w /\ status[j] = "RUNNING"
     THEN /\ lease' = [lease EXCEPT ![j] = "fresh"]
          /\ UNCHANGED hb
     ELSE /\ hb' = [hb EXCEPT ![w] = "stopped"]
          /\ UNCHANGED lease
  /\ UNCHANGED <<status, priority, attempts, owner, due, ahead, wpc, held, att,
                 prodVars, outbox, recoveries, crashes>>

\* A database error ends the loop; it surfaces when the task is awaited.
HeartbeatError(w) ==
  /\ ~HeartbeatsReliable
  /\ wpc[w] = "running" /\ hb[w] = "live"
  /\ hb' = [hb EXCEPT ![w] = "error"]
  /\ UNCHANGED <<rowVars, wpc, held, att, prodVars, outbox, recoveries, crashes>>

Idle(w) ==
  /\ wpc' = [wpc EXCEPT ![w] = "idle"]
  /\ held' = [held EXCEPT ![w] = NULL]
  /\ att' = [att EXCEPT ![w] = 0]
  /\ hb' = [hb EXCEPT ![w] = "live"]

\* The row's owner and lease are cleared by every terminal write, whoever owns it.
ReleaseAs(j, s) ==
  /\ status' = [status EXCEPT ![j] = s]
  /\ owner' = [owner EXCEPT ![j] = NULL]
  /\ lease' = [lease EXCEPT ![j] = "none"]
  /\ UNCHANGED <<priority, attempts>>

\* The handler returned: mark_completed, with no check of the lease.
Complete(w) ==
  /\ wpc[w] = "running" /\ hb[w] # "error" /\ ~Locked(held[w])
  /\ ReleaseAs(held[w], "COMPLETED")
  /\ Idle(w)
  /\ UNCHANGED <<due, ahead, prodVars, outbox, recoveries, crashes>>

\* The writes of record_failure, given the policy's verdict.
FailAs(w, retry) ==
  LET j == held[w] IN
  /\ wpc[w] = "running" /\ hb[w] # "error" /\ ~Locked(j)
  /\ \/ /\ retry
        /\ ReleaseAs(j, "FAILED_RETRYABLE")
        /\ LeaveDue(j)
        /\ UNCHANGED outbox
     \/ /\ ~retry
        /\ ReleaseAs(j, "FAILED_REVIEW")
        /\ outbox' = outbox \cup {<<j, att[w]>>}
        /\ UNCHANGED <<due, ahead>>
  /\ Idle(w)
  /\ UNCHANGED <<prodVars, recoveries, crashes>>

\* Mutant: one attempt more than the policy allows.
RecordFailureOffByOne(w, retryable) ==
  FailAs(w, retryable /\ att[w] <= MaxAttempts)

\* The handler raised: record_failure on the claim's count of attempts.
RecordFailure(w, retryable) ==
  FailAs(w, retryable /\ att[w] < MaxAttempts)

\* The handler is done but awaiting the failed lease task raises: the process
\* ends and nothing is recorded.
LeaseTaskRaises(w) ==
  /\ wpc[w] = "running" /\ hb[w] = "error"
  /\ Die(w)
  /\ UNCHANGED <<rowVars, prodVars, outbox, recoveries, crashes>>

\* The handler raised inside a transaction of the worker's session: rollback
\* expires the row, reading job.id raises outside a greenlet, the process ends
\* and nothing is recorded (ingestion raises like this, folder sync does not).
RollbackExpiresRow(w) ==
  /\ ~CleanFailures
  /\ wpc[w] = "running"
  /\ Die(w)
  /\ UNCHANGED <<rowVars, prodVars, outbox, recoveries, crashes>>

Crash(w) ==
  /\ wpc[w] # "down" /\ crashes < MaxCrashes
  /\ Die(w)
  /\ crashes' = crashes + 1
  /\ UNCHANGED <<rowVars, prodVars, outbox, recoveries>>

Restart(w) ==
  /\ wpc[w] = "down"
  /\ wpc' = [wpc EXCEPT ![w] = "idle"]
  /\ UNCHANGED <<rowVars, held, att, hb, prodVars, outbox, recoveries, crashes>>

(***************************************************************************)
(* Leases                                                                  *)
(***************************************************************************)

\* lease_expires_at passes.  A worker that is alive may be paused for longer
\* than a lease, or its heartbeat may have stopped.
LeaseExpires(j) ==
  /\ status[j] = "RUNNING" /\ lease[j] = "fresh"
  /\ HeartbeatsReliable =>
       ~ \E w \in Workers : wpc[w] = "running" /\ held[w] = j
  /\ lease' = [lease EXCEPT ![j] = "expired"]
  /\ UNCHANGED <<status, priority, attempts, owner, due, ahead, workerVars,
                 prodVars, outbox, recoveries, crashes>>

ExpiredRows == {j \in Jobs : status[j] = "RUNNING" /\ lease[j] = "expired"}

ReturnToPool(rows) ==
  /\ rows # {}
  /\ status' = [j \in Jobs |-> IF j \in rows THEN "PENDING" ELSE status[j]]
  /\ owner' = [j \in Jobs |-> IF j \in rows THEN NULL ELSE owner[j]]
  /\ lease' = [j \in Jobs |-> IF j \in rows THEN "none" ELSE lease[j]]
  /\ recoveries' = [j \in Jobs |-> IF j \in rows THEN recoveries[j] + 1
                                                 ELSE recoveries[j]]
  /\ UNCHANGED <<priority, attempts, due, ahead, workerVars, prodVars, outbox,
                 crashes>>

\* Mutant: every RUNNING row is recovered, its lease expired or not.
RecoverAllRunning ==
  ReturnToPool({j \in Jobs : status[j] = "RUNNING"})

\* recover_expired_leases: one UPDATE over every expired row.
RecoverExpiredLeases == ReturnToPool(ExpiredRows)

(***************************************************************************)
(* Specification                                                           *)
(***************************************************************************)

WorkerNext(w) ==
  \/ ClaimSelect(w)
  \/ ClaimCommit(w)
  \/ ExtendLease(w)
  \/ HeartbeatError(w)
  \/ Complete(w)
  \/ \E retryable \in BOOLEAN : RecordFailure(w, retryable)
  \/ LeaseTaskRaises(w)
  \/ RollbackExpiresRow(w)
  \/ Crash(w)
  \/ Restart(w)

ProducerNext(p) ==
  \/ \E j \in Jobs, prio \in Priorities : EnqueueCheck(p, j, prio)
  \/ EnqueueInsert(p)
  \/ EnqueueReread(p)

Next ==
  \/ \E w \in Workers : WorkerNext(w)
  \/ \E p \in Producers : ProducerNext(p)
  \/ \E j \in Jobs : BecomeDue(j) \/ LeaseExpires(j)
  \/ RecoverExpiredLeases

Spec == Init /\ [][Next]_vars

\* A handler ends: it returns, raises, or its lease task raises.
HandlerEnds(w) ==
  \/ Complete(w)
  \/ \E retryable \in BOOLEAN : RecordFailure(w, retryable)
  \/ LeaseTaskRaises(w)
  \/ RollbackExpiresRow(w)

\* The worker loop polls, the clock advances, handlers have timeouts, the
\* scheduler runs periodically and a dead worker is restarted.
Fairness ==
  /\ \A w \in Workers :
       /\ WF_vars(ClaimSelect(w))
       /\ WF_vars(ClaimCommit(w))
       /\ WF_vars(HandlerEnds(w))
       /\ WF_vars(Restart(w))
  /\ \A p \in Producers : WF_vars(EnqueueInsert(p)) /\ WF_vars(EnqueueReread(p))
  /\ \A j \in Jobs : WF_vars(BecomeDue(j)) /\ WF_vars(LeaseExpires(j))
  /\ WF_vars(RecoverExpiredLeases)

FairSpec == Spec /\ Fairness

(***************************************************************************)
(* Properties                                                              *)
(***************************************************************************)

\* At most one PENDING or RUNNING row per indexed target, whatever the race
\* between enqueues, claims of FAILED_RETRYABLE rows, lease recovery and the
\* writes of workers that lost their lease (repository.py:4-6).
OneActivePerTarget ==
  \A j, k \in Jobs :
    (/\ j # k
     /\ Target[j] = Target[k] /\ Target[j] \in UniqueTargets
     /\ status[j] \in Active) => status[k] \notin Active

\* record_failure never collides with the outbox's unique key
\* graph-job-review:{id}:{attempts}: no running handler holds a claim number
\* that has already been escalated, and no two hold the same one.
EscalationKeysFresh ==
  \A w \in Workers : wpc[w] = "running" =>
    /\ <<held[w], att[w]>> \notin outbox
    /\ \A v \in Workers \ {w} :
         wpc[v] = "running" /\ held[v] = held[w] => att[v] # att[w]

\* Retries are bounded: every claim of a row beyond max_attempts is paid for by
\* a recovered lease (the recovery does not look at max_attempts).
AttemptsBounded ==
  \A j \in Jobs : attempts[j] <= MaxAttempts + recoveries[j]

\* "Concurrent workers never process the same job" (repository.py:3).
NoSharedJob ==
  \A v, w \in Workers :
    v # w /\ wpc[v] = "running" /\ wpc[w] = "running" => held[v] # held[w]

\* A job that was completed or escalated to review is never written again.
TerminalIsFinal ==
  [][\A j \in Jobs : status[j] \in Terminal => status'[j] = status[j]]_vars

\* Every queued job is completed or escalated to review in the end.
PendingIsServed ==
  \A j \in Jobs : status[j] = "PENDING" ~> status[j] \in Terminal

\* The queue as its handlers see it: where a row stands, and which handlers are running it.
StatusShown(s) ==
  CASE s = "NONE" -> "absent" [] s = "RUNNING" -> "held" [] s \in Terminal -> "done" [] OTHER -> "waiting"
QueueStage == [j \in Jobs |-> StatusShown(status[j])]
QueueBusy == [j \in Jobs |-> {w \in Workers : wpc[w] = "running" /\ held[w] = j}]

Service == INSTANCE JobService WITH
  ServiceJobs <- Jobs, ServiceWorkers <- Workers, stage <- QueueStage, busy <- QueueBusy

\* While heartbeats keep the leases of live handlers, the queue implements the job service:
\* one handler at a time, finished jobs never touched, abandoned ones returned.
ImplementsService == Service!ServiceSpec
============================================================================
