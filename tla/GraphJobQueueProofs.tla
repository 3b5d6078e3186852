------------------------ MODULE GraphJobQueueProofs ------------------------
(***************************************************************************)
(* Safety of the Graph job queue for every set of jobs, workers, producers *)
(* and targets and every value of the bounds.                              *)
(***************************************************************************)
EXTENDS GraphJobQueue, FiniteSetTheorems, TLAPS

USE QueueAssumption

\* Every step of the queue keeps the rows, the workers' sessions and the
\* producers' requests well formed.
LEMMA TypeStep == TypeOK /\ [Next]_vars => TypeOK'
<1> SUFFICES ASSUME TypeOK, [Next]_vars PROVE TypeOK'
    OBVIOUS
<1> USE DEF TypeOK, Statuses, Active, Claimable, Terminal, rowVars, workerVars, prodVars
<1>1. ASSUME NEW w \in Workers, ClaimSelect(w) PROVE TypeOK'
    BY <1>1 DEF ClaimSelect
<1>2. ASSUME NEW w \in Workers, ClaimCommit(w) PROVE TypeOK'
  <2>1. CASE ~IndexConflict(held[w])
    <3>1. wpc[w] = "claiming" /\ TakeRow(w) /\ held[w] \in Jobs
        BY <1>2, <2>1 DEF ClaimCommit
    <3> QED
        BY <3>1 DEF TakeRow
  <2>2. CASE IndexConflict(held[w])
    <3>1. Die(w) /\ UNCHANGED <<rowVars, prodVars, outbox, recoveries, crashes>>
        BY <1>2, <2>2 DEF ClaimCommit
    <3> QED
        BY <3>1 DEF Die
  <2> QED
      BY <2>1, <2>2
<1>3. ASSUME NEW w \in Workers, ExtendLease(w) PROVE TypeOK'
    BY <1>3 DEF ExtendLease
<1>4. ASSUME NEW w \in Workers, HeartbeatError(w) PROVE TypeOK'
    BY <1>4 DEF HeartbeatError
<1>5. ASSUME NEW w \in Workers, Complete(w) PROVE TypeOK'
    BY <1>5 DEF Complete, ReleaseAs, Idle
<1>6. ASSUME NEW w \in Workers, NEW r \in BOOLEAN, RecordFailure(w, r) PROVE TypeOK'
  <2> DEFINE j == held[w]
             retry == r /\ att[w] < MaxAttempts
  <2>1. j \in Jobs /\ Idle(w) /\ UNCHANGED <<prodVars, recoveries, crashes>>
      BY <1>6 DEF RecordFailure, FailAs
  <2>2. CASE retry
    <3>1. ReleaseAs(j, "FAILED_RETRYABLE") /\ LeaveDue(j) /\ UNCHANGED outbox
        BY <1>6, <2>2 DEF RecordFailure, FailAs
    <3> HIDE DEF j
    <3> QED
        BY <2>1, <3>1 DEF ReleaseAs, LeaveDue, Idle
  <2>3. CASE ~retry
    <3>1. /\ ReleaseAs(j, "FAILED_REVIEW")
          /\ outbox' = outbox \cup {<<j, att[w]>>}
          /\ UNCHANGED <<due, ahead>>
        BY <1>6, <2>3 DEF RecordFailure, FailAs
    <3> HIDE DEF j
    <3> QED
        BY <2>1, <3>1 DEF ReleaseAs, Idle
  <2> QED
      BY <2>2, <2>3
<1>7. ASSUME NEW w \in Workers, LeaseTaskRaises(w) \/ RollbackExpiresRow(w)
      PROVE  TypeOK'
  <2>1. Die(w) /\ UNCHANGED <<rowVars, prodVars, outbox, recoveries, crashes>>
      BY <1>7 DEF LeaseTaskRaises, RollbackExpiresRow
  <2> QED
      BY <2>1 DEF Die
<1>8. ASSUME NEW w \in Workers, Crash(w) PROVE TypeOK'
    BY <1>8 DEF Crash, Die
<1>9. ASSUME NEW w \in Workers, Restart(w) PROVE TypeOK'
    BY <1>9 DEF Restart
<1>10. ASSUME NEW p \in Producers, NEW j \in Jobs, NEW prio \in Priorities,
              EnqueueCheck(p, j, prio)
       PROVE  TypeOK'
  <2>1. ASSUME NEW k \in ActiveForTarget(j), CoalesceInto(k, prio),
               UNCHANGED <<prodVars, workerVars, outbox, recoveries, crashes>>
        PROVE  TypeOK'
      BY <2>1 DEF CoalesceInto, ActiveForTarget
  <2>2. ASSUME ppc' = [ppc EXCEPT ![p] = "insert"],
               req' = [req EXCEPT ![p] = [key |-> j, prio |-> prio]],
               UNCHANGED <<rowVars, workerVars, outbox, recoveries, crashes>>
        PROVE  TypeOK'
      BY <2>2
  <2> QED
      BY <1>10, <2>1, <2>2 DEF EnqueueCheck
<1>11. ASSUME NEW p \in Producers, EnqueueInsert(p) PROVE TypeOK'
  <2> DEFINE j == req[p].key
             refused == status[j] # "NONE" \/ IndexConflict(j)
  <2>1. j \in Jobs /\ ppc[p] = "insert"
        /\ UNCHANGED <<workerVars, outbox, recoveries, crashes>>
      BY <1>11 DEF EnqueueInsert
  <2>2. CASE refused
    <3>1. ppc' = [ppc EXCEPT ![p] = "reread"] /\ UNCHANGED <<rowVars, req>>
        BY <1>11, <2>2 DEF EnqueueInsert
    <3> QED
        BY <2>1, <3>1
  <2>3. CASE ~refused
    <3>1. /\ status' = [status EXCEPT ![j] = "PENDING"]
          /\ priority' = [priority EXCEPT ![j] = req[p].prio]
          /\ JoinDue(j)
          /\ ppc' = [ppc EXCEPT ![p] = "idle"]
          /\ req' = [req EXCEPT ![p] = NoReq]
          /\ UNCHANGED <<attempts, owner, lease>>
        BY <1>11, <2>3 DEF EnqueueInsert
    <3>2. req[p].prio \in Nat
        OBVIOUS
    <3> HIDE DEF j
    <3> QED
        BY <2>1, <3>1, <3>2 DEF JoinDue, NoReq
  <2> QED
      BY <2>2, <2>3
<1>12. ASSUME NEW p \in Producers, EnqueueReread(p) PROVE TypeOK'
  <2>1. /\ ppc' = [ppc EXCEPT ![p] = "idle"] /\ req' = [req EXCEPT ![p] = NoReq]
        /\ UNCHANGED <<workerVars, outbox, recoveries, crashes>>
      BY <1>12 DEF EnqueueReread
  <2>2. req[p].prio \in Nat
      OBVIOUS
  <2>3. /\ priority' \in [Jobs -> Nat]
        /\ UNCHANGED <<status, attempts, owner, lease, due, ahead>>
      BY <1>12, <2>2 DEF EnqueueReread, CoalesceInto, ActiveForTarget
  <2> QED
      BY <2>1, <2>3 DEF NoReq
<1>13. ASSUME NEW j \in Jobs, BecomeDue(j) PROVE TypeOK'
    BY <1>13 DEF BecomeDue, JoinDue
<1>14. ASSUME NEW j \in Jobs, LeaseExpires(j) PROVE TypeOK'
    BY <1>14 DEF LeaseExpires
<1>15. CASE RecoverExpiredLeases
    BY <1>15 DEF RecoverExpiredLeases, ReturnToPool
<1>16. CASE UNCHANGED vars
    BY <1>16 DEF vars
<1> QED
    BY <1>1, <1>2, <1>3, <1>4, <1>5, <1>6, <1>7, <1>8, <1>9, <1>10, <1>11,
       <1>12, <1>13, <1>14, <1>15, <1>16 DEF Next, WorkerNext, ProducerNext

LEMMA TypeInit == Init => TypeOK
BY DEF Init, TypeOK, Statuses, NoReq

\* The type invariant of the queue holds in every reachable state.
THEOREM TypeCorrect == Spec => []TypeOK
BY TypeInit, TypeStep, PTL DEF Spec

-----------------------------------------------------------------------------
(***************************************************************************)
(* One active row per indexed target.                                      *)
(***************************************************************************)

\* A row becomes active only through the insert and the claim, and both are
\* refused by the index; recovery and the workers' writes never add one.
LEMMA ActiveStep == TypeOK /\ OneActivePerTarget /\ [Next]_vars => OneActivePerTarget'
<1> SUFFICES ASSUME TypeOK, OneActivePerTarget, [Next]_vars
             PROVE  OneActivePerTarget'
    OBVIOUS
<1> DEFINE NoNewActive == \A j \in Jobs : status'[j] \in Active => status[j] \in Active
<1>1. ASSUME NoNewActive PROVE OneActivePerTarget'
    BY <1>1 DEF OneActivePerTarget
<1>2. ASSUME NEW j \in Jobs, \A k \in Jobs \ {j} : status'[k] = status[k],
             ~IndexConflict(j)
      PROVE  OneActivePerTarget'
    BY <1>2 DEF OneActivePerTarget, IndexConflict, TypeOK
<1>3. ASSUME UNCHANGED status PROVE OneActivePerTarget'
    BY <1>3 DEF OneActivePerTarget
<1>4. ASSUME NEW w \in Workers, ClaimCommit(w) PROVE OneActivePerTarget'
  <2>1. CASE ~IndexConflict(held[w])
    <3>1. held[w] \in Jobs /\ \A k \in Jobs \ {held[w]} : status'[k] = status[k]
        BY <1>4, <2>1 DEF ClaimCommit, TakeRow, TypeOK
    <3> QED
        BY <1>2, <2>1, <3>1
  <2>2. CASE IndexConflict(held[w])
      BY <1>3, <1>4, <2>2 DEF ClaimCommit, rowVars
  <2> QED
      BY <2>1, <2>2
<1>5. ASSUME NEW w \in Workers, Complete(w) PROVE OneActivePerTarget'
  <2>1. NoNewActive
      BY <1>5 DEF Complete, ReleaseAs, Active, TypeOK
  <2> QED
      BY <1>1, <2>1
<1>6. ASSUME NEW w \in Workers, NEW r \in BOOLEAN, RecordFailure(w, r)
      PROVE  OneActivePerTarget'
  <2>1. NoNewActive
      BY <1>6 DEF RecordFailure, FailAs, ReleaseAs, Active, TypeOK
  <2> QED
      BY <1>1, <2>1
<1>7. ASSUME NEW p \in Producers, EnqueueInsert(p) PROVE OneActivePerTarget'
  <2> DEFINE j == req[p].key
  <2>1. CASE status[j] # "NONE" \/ IndexConflict(j)
      BY <1>3, <1>7, <2>1 DEF EnqueueInsert, rowVars
  <2>2. CASE ~(status[j] # "NONE" \/ IndexConflict(j))
    <3>1. j \in Jobs /\ \A k \in Jobs \ {j} : status'[k] = status[k]
        BY <1>7, <2>2 DEF EnqueueInsert, TypeOK
    <3> QED
        BY <1>2, <2>2, <3>1
  <2> QED
      BY <2>1, <2>2
<1>8. CASE RecoverExpiredLeases
  <2>1. NoNewActive
      BY <1>8 DEF RecoverExpiredLeases, ReturnToPool, ExpiredRows, Active, TypeOK
  <2> QED
      BY <1>1, <2>1
<1>9. ASSUME NEW w \in Workers,
             \/ ClaimSelect(w) \/ ExtendLease(w) \/ HeartbeatError(w)
             \/ LeaseTaskRaises(w) \/ RollbackExpiresRow(w) \/ Crash(w) \/ Restart(w)
      PROVE  OneActivePerTarget'
    BY <1>3, <1>9 DEF ClaimSelect, ExtendLease, HeartbeatError, LeaseTaskRaises, RollbackExpiresRow,
                      Crash, Restart, rowVars
<1>10. ASSUME NEW p \in Producers,
              \/ \E j \in Jobs, prio \in Priorities : EnqueueCheck(p, j, prio)
              \/ EnqueueReread(p)
       PROVE  OneActivePerTarget'
    BY <1>3, <1>10 DEF EnqueueCheck, EnqueueReread, CoalesceInto, rowVars
<1>11. ASSUME NEW j \in Jobs, BecomeDue(j) \/ LeaseExpires(j)
       PROVE  OneActivePerTarget'
    BY <1>3, <1>11 DEF BecomeDue, LeaseExpires
<1>12. CASE UNCHANGED vars
    BY <1>3, <1>12 DEF vars, rowVars
<1> QED
    BY <1>4, <1>5, <1>6, <1>7, <1>8, <1>9, <1>10, <1>11, <1>12
    DEF Next, WorkerNext, ProducerNext

\* At most one PENDING or RUNNING row per indexed target, for any number of
\* keys, workers and producers.
THEOREM ActiveRowsUnique == Spec => []OneActivePerTarget
<1>1. Init => OneActivePerTarget
    BY DEF Init, OneActivePerTarget, Active
<1> QED
    BY <1>1, ActiveStep, TypeCorrect, PTL DEF Spec

-----------------------------------------------------------------------------
(***************************************************************************)
(* Escalation keys.                                                        *)
(***************************************************************************)

\* Claim numbers never exceed the row's attempts, so the next claim's number is
\* new: it is neither in the outbox nor in the hands of another worker.
ClaimNumbers ==
  /\ \A w \in Workers : wpc[w] = "running" => att[w] <= attempts[held[w]]
  /\ \A j \in Jobs, n \in Nat : <<j, n>> \in outbox => n <= attempts[j]
  /\ EscalationKeysFresh

LEMMA ClaimNumbersStep == TypeOK /\ ClaimNumbers /\ [Next]_vars => ClaimNumbers'
<1> SUFFICES ASSUME TypeOK, ClaimNumbers, [Next]_vars PROVE ClaimNumbers'
    OBVIOUS
<1> USE DEF ClaimNumbers, EscalationKeysFresh
<1>1. ASSUME UNCHANGED <<attempts, outbox>>,
             \A w \in Workers : wpc'[w] = "running" =>
               wpc[w] = "running" /\ held'[w] = held[w] /\ att'[w] = att[w]
      PROVE  ClaimNumbers'
    BY <1>1 DEF TypeOK
<1>2. ASSUME NEW w \in Workers, ClaimCommit(w) PROVE ClaimNumbers'
  <2>1. CASE IndexConflict(held[w])
    <3>1. Die(w) /\ UNCHANGED <<rowVars, outbox>>
        BY <1>2, <2>1 DEF ClaimCommit
    <3> QED
        BY <1>1, <3>1 DEF Die, rowVars, TypeOK
  <2>2. CASE ~IndexConflict(held[w])
    <3> DEFINE j == held[w]
    <3>1. /\ wpc[w] = "claiming" /\ j \in Jobs
          /\ attempts' = [attempts EXCEPT ![j] = @ + 1]
          /\ att' = [att EXCEPT ![w] = attempts[j] + 1]
          /\ wpc' = [wpc EXCEPT ![w] = "running"]
          /\ UNCHANGED <<held, outbox>>
        BY <1>2, <2>2 DEF ClaimCommit, TakeRow, TypeOK
    <3>2. \A k \in Jobs : attempts[k] \in Nat /\ attempts'[k] >= attempts[k]
        BY <3>1 DEF TypeOK
    <3>3. \A v \in Workers \ {w} : wpc'[v] = "running" =>
            wpc[v] = "running" /\ att'[v] = att[v] /\ att[v] <= attempts[held[v]]
        BY <3>1 DEF TypeOK
    <3>4. \A v \in Workers : wpc'[v] = "running" =>
            held'[v] \in Jobs /\ att'[v] \in Nat /\ att'[v] <= attempts'[held'[v]]
        BY <3>1, <3>2, <3>3 DEF TypeOK
    <3>5. \A k \in Jobs, n \in Nat : <<k, n>> \in outbox' => n <= attempts'[k]
        BY <3>1, <3>2
    <3>6. <<j, attempts[j] + 1>> \notin outbox
        BY <3>1, <3>2
    <3>7. \A v \in Workers \ {w} :
            wpc'[v] = "running" /\ held'[v] = j => att'[v] # attempts[j] + 1
        BY <3>1, <3>2, <3>3 DEF TypeOK
    <3>8. att'[w] = attempts[j] + 1 /\ held'[w] = j
        BY <3>1 DEF TypeOK
    <3> HIDE DEF j
    <3> QED
        BY <3>1, <3>3, <3>4, <3>5, <3>6, <3>7, <3>8
  <2> QED
      BY <2>1, <2>2
<1>3. ASSUME NEW w \in Workers, NEW r \in BOOLEAN, RecordFailure(w, r)
      PROVE  ClaimNumbers'
  <2>1. /\ wpc[w] = "running" /\ held[w] \in Jobs
        /\ Idle(w) /\ UNCHANGED attempts
        /\ outbox' = outbox \/ outbox' = outbox \cup {<<held[w], att[w]>>}
      BY <1>3 DEF RecordFailure, FailAs, ReleaseAs, TypeOK
  <2>2. \A v \in Workers : wpc'[v] = "running" =>
          v # w /\ wpc[v] = "running" /\ held'[v] = held[v] /\ att'[v] = att[v]
      BY <2>1 DEF Idle, TypeOK
  <2>3. att[w] <= attempts[held[w]]
      BY <2>1
  <2>4. \A k \in Jobs, n \in Nat : <<k, n>> \in outbox' => n <= attempts'[k]
      BY <2>1, <2>3
  <2>5. \A v \in Workers : wpc'[v] = "running" => <<held'[v], att'[v]>> \notin outbox'
      BY <2>1, <2>2
  <2> QED
      BY <2>1, <2>2, <2>4, <2>5
<1>4. ASSUME NEW w \in Workers,
             \/ ClaimSelect(w) \/ ExtendLease(w) \/ HeartbeatError(w) \/ Complete(w)
             \/ LeaseTaskRaises(w) \/ RollbackExpiresRow(w) \/ Crash(w) \/ Restart(w)
      PROVE  ClaimNumbers'
  <2>1. UNCHANGED <<attempts, outbox>>
      BY <1>4 DEF ClaimSelect, ExtendLease, HeartbeatError, Complete, ReleaseAs,
                  LeaseTaskRaises, RollbackExpiresRow, Crash, Restart, rowVars
  <2>2. \A v \in Workers : wpc'[v] = "running" =>
               wpc[v] = "running" /\ held'[v] = held[v] /\ att'[v] = att[v]
      BY <1>4 DEF ClaimSelect, ExtendLease, HeartbeatError, Complete, Idle, Die,
                  LeaseTaskRaises, RollbackExpiresRow, Crash, Restart, TypeOK
  <2> QED
      BY <1>1, <2>1, <2>2
<1>5. ASSUME NEW p \in Producers, ProducerNext(p) PROVE ClaimNumbers'
    BY <1>1, <1>5 DEF ProducerNext, EnqueueCheck, EnqueueInsert, EnqueueReread,
                      CoalesceInto, rowVars, workerVars
<1>6. ASSUME NEW j \in Jobs, BecomeDue(j) \/ LeaseExpires(j) PROVE ClaimNumbers'
    BY <1>1, <1>6 DEF BecomeDue, LeaseExpires, workerVars
<1>7. CASE RecoverExpiredLeases
    BY <1>1, <1>7 DEF RecoverExpiredLeases, ReturnToPool, workerVars
<1>8. CASE UNCHANGED vars
    BY <1>1, <1>8 DEF vars, rowVars, workerVars
<1> QED
    BY <1>2, <1>3, <1>4, <1>5, <1>6, <1>7, <1>8 DEF Next, WorkerNext

\* An escalation to FAILED_REVIEW never meets its own outbox key, although
\* workers that lost their lease may still escalate the row.
THEOREM EscalationKeysAreFresh == Spec => []EscalationKeysFresh
<1>1. Init => ClaimNumbers
    BY DEF Init, ClaimNumbers, EscalationKeysFresh
<1>2. ClaimNumbers => EscalationKeysFresh
    BY DEF ClaimNumbers
<1> QED
    BY <1>1, <1>2, ClaimNumbersStep, TypeCorrect, PTL DEF Spec

-----------------------------------------------------------------------------
(***************************************************************************)
(* Exclusive processing, when no lease lapses under a live handler.        *)
(***************************************************************************)

\* A running worker still owns its row under a fresh lease, a claiming worker's
\* row is claimable and locked by it alone.  NoSharedJob is not inductive by
\* itself: that no second claim can start needs the row's status, and that the
\* row is not recovered needs its lease.
LeaseHeld ==
  /\ \A w \in Workers : wpc[w] = "running" =>
       /\ status[held[w]] = "RUNNING" /\ owner[held[w]] = w
       /\ lease[held[w]] = "fresh"
  /\ \A w \in Workers : hb[w] = "live"
  /\ \A w \in Workers : wpc[w] = "claiming" => status[held[w]] \in Claimable
  /\ \A v, w \in Workers :
       v # w /\ wpc[v] = "claiming" /\ wpc[w] = "claiming" => held[v] # held[w]

LEMMA LeaseHeldStep ==
  HeartbeatsReliable /\ TypeOK /\ LeaseHeld /\ [Next]_vars => LeaseHeld'
<1> SUFFICES ASSUME HeartbeatsReliable, TypeOK, LeaseHeld, [Next]_vars
             PROVE  LeaseHeld'
    OBVIOUS
<1> USE DEF LeaseHeld
\* Workers other than those that stop or start keep what they hold.
<1>1. ASSUME UNCHANGED <<status, owner, lease>>,
             \A v \in Workers : hb'[v] = "live",
             \A v \in Workers : wpc'[v] \in {"running", "claiming"} =>
               wpc'[v] = wpc[v] /\ held'[v] = held[v]
      PROVE  LeaseHeld'
    BY <1>1
<1>2. ASSUME NEW w \in Workers, ClaimSelect(w) PROVE LeaseHeld'
  <2>1. PICK j \in Jobs : FirstCandidate(j) /\ held' = [held EXCEPT ![w] = j]
      BY <1>2 DEF ClaimSelect
  <2>2. status[j] \in Claimable /\ \A v \in Workers : wpc[v] = "claiming" => held[v] # j
      BY <2>1 DEF FirstCandidate, Candidates, Locked
  <2> QED
      BY <1>2, <2>1, <2>2 DEF ClaimSelect, rowVars, TypeOK
<1>3. ASSUME NEW w \in Workers, ClaimCommit(w) PROVE LeaseHeld'
  <2>1. CASE IndexConflict(held[w])
    <3>1. Die(w) /\ UNCHANGED rowVars
        BY <1>3, <2>1 DEF ClaimCommit
    <3> QED
        BY <1>1, <3>1 DEF Die, rowVars, TypeOK
  <2>2. CASE ~IndexConflict(held[w])
    <3>1. wpc[w] = "claiming" /\ TakeRow(w) /\ held[w] \in Jobs
        BY <1>3, <2>2 DEF ClaimCommit, TypeOK
    <3>2. \A v \in Workers \ {w} : wpc[v] \in {"running", "claiming"} =>
            held[v] \in Jobs /\ held[v] # held[w]
        BY <3>1 DEF Claimable, TypeOK
    <3>3. UNCHANGED hb
        BY <3>1 DEF TakeRow
    <3>4. \A v \in Workers \ {w} : wpc'[v] \in {"running", "claiming"} =>
            /\ wpc'[v] = wpc[v] /\ held'[v] = held[v]
            /\ status'[held[v]] = status[held[v]]
            /\ owner'[held[v]] = owner[held[v]]
            /\ lease'[held[v]] = lease[held[v]]
        BY <3>1, <3>2 DEF TakeRow, TypeOK
    <3>5. /\ wpc'[w] = "running" /\ held'[w] = held[w]
          /\ status'[held[w]] = "RUNNING" /\ owner'[held[w]] = w
          /\ lease'[held[w]] = "fresh"
        BY <3>1 DEF TakeRow, TypeOK
    <3> QED
        BY <3>3, <3>4, <3>5
  <2> QED
      BY <2>1, <2>2
<1>4. ASSUME NEW w \in Workers, ExtendLease(w) PROVE LeaseHeld'
    BY <1>4 DEF ExtendLease, TypeOK
<1>5. ASSUME NEW w \in Workers, NEW s \in Statuses, wpc[w] = "running",
             ~Locked(held[w]), ReleaseAs(held[w], s), Idle(w)
      PROVE  LeaseHeld'
  <2>1. \A v \in Workers : wpc'[v] \in {"running", "claiming"} =>
          /\ v # w /\ wpc'[v] = wpc[v] /\ held'[v] = held[v]
          /\ held[v] \in Jobs
      BY <1>5 DEF Idle, TypeOK
  <2>2. \A v \in Workers : wpc'[v] \in {"running", "claiming"} => held[v] # held[w]
      BY <1>5, <2>1 DEF Claimable
  <2>3. \A v \in Workers : hb'[v] = "live"
      BY <1>5 DEF Idle, TypeOK
  <2> QED
      BY <1>5, <2>1, <2>2, <2>3 DEF ReleaseAs, TypeOK
<1>6. ASSUME NEW w \in Workers, Complete(w) PROVE LeaseHeld'
  <2>1. "COMPLETED" \in Statuses
      BY DEF Statuses, Terminal
  <2> QED
      BY <1>5, <1>6, <2>1 DEF Complete
<1>7. ASSUME NEW w \in Workers, NEW r \in BOOLEAN, RecordFailure(w, r)
      PROVE  LeaseHeld'
  <2>1. "FAILED_RETRYABLE" \in Statuses /\ "FAILED_REVIEW" \in Statuses
      BY DEF Statuses, Terminal, Claimable
  <2> QED
      BY <1>5, <1>7, <2>1 DEF RecordFailure, FailAs
<1>8. ASSUME NEW w \in Workers,
             HeartbeatError(w) \/ LeaseTaskRaises(w) \/ RollbackExpiresRow(w) \/ Crash(w) \/ Restart(w)
      PROVE  LeaseHeld'
    BY <1>1, <1>8 DEF HeartbeatError, LeaseTaskRaises, RollbackExpiresRow, Crash, Restart, Die,
                      rowVars, TypeOK
<1>9. ASSUME NEW p \in Producers, ProducerNext(p) PROVE LeaseHeld'
  <2>1. CASE EnqueueInsert(p)
    <3> DEFINE j == req[p].key
    <3>1. CASE status[j] # "NONE" \/ IndexConflict(j)
        BY <1>1, <2>1, <3>1 DEF EnqueueInsert, rowVars, workerVars
    <3>2. CASE ~(status[j] # "NONE" \/ IndexConflict(j))
      <4>1. /\ status' = [status EXCEPT ![j] = "PENDING"] /\ status[j] = "NONE"
            /\ UNCHANGED <<owner, lease, workerVars>>
          BY <2>1, <3>2 DEF EnqueueInsert
      <4>2. \A v \in Workers : wpc[v] \in {"running", "claiming"} =>
              held[v] # j /\ held[v] \in Jobs
          BY <4>1 DEF Claimable, TypeOK
      <4> QED
          BY <4>1, <4>2 DEF TypeOK, workerVars
    <3> QED
        BY <3>1, <3>2
  <2>2. CASE \E j \in Jobs, prio \in Priorities : EnqueueCheck(p, j, prio)
      BY <1>1, <2>2 DEF EnqueueCheck, CoalesceInto, rowVars, workerVars
  <2>3. CASE EnqueueReread(p)
      BY <1>1, <2>3 DEF EnqueueReread, CoalesceInto, rowVars, workerVars
  <2> QED
      BY <1>9, <2>1, <2>2, <2>3 DEF ProducerNext
<1>10. ASSUME NEW j \in Jobs, BecomeDue(j) PROVE LeaseHeld'
    BY <1>1, <1>10 DEF BecomeDue, workerVars
<1>11. ASSUME NEW j \in Jobs, LeaseExpires(j) PROVE LeaseHeld'
    BY <1>11 DEF LeaseExpires, workerVars, TypeOK
<1>12. CASE RecoverExpiredLeases
  <2>1. \A v \in Workers : wpc[v] \in {"running", "claiming"} =>
          held[v] \in Jobs /\ held[v] \notin ExpiredRows
      BY DEF ExpiredRows, Claimable, TypeOK
  <2> QED
      BY <1>12, <2>1 DEF RecoverExpiredLeases, ReturnToPool, workerVars, TypeOK
<1>13. CASE UNCHANGED vars
    BY <1>1, <1>13 DEF vars, rowVars, workerVars
<1> QED
    BY <1>2, <1>3, <1>4, <1>6, <1>7, <1>8, <1>9, <1>10, <1>11, <1>12, <1>13
    DEF Next, WorkerNext

LEMMA LeaseHeldAlways == HeartbeatsReliable => (Spec => []LeaseHeld)
<1> SUFFICES ASSUME HeartbeatsReliable PROVE Spec => []LeaseHeld
    OBVIOUS
<1>1. Init => LeaseHeld
    BY DEF Init, LeaseHeld
<1>2. TypeOK /\ LeaseHeld /\ [Next]_vars => LeaseHeld'
    BY LeaseHeldStep
<1> QED
    BY <1>1, <1>2, TypeCorrect, PTL DEF Spec

\* As long as heartbeats keep every live handler's lease, concurrent workers
\* never process the same job.
THEOREM ExclusiveProcessing == HeartbeatsReliable => (Spec => []NoSharedJob)
<1>1. LeaseHeld => NoSharedJob
    BY DEF LeaseHeld, NoSharedJob
<1> QED
    BY <1>1, LeaseHeldAlways, PTL

\* Under the same condition a completed or escalated job is never written again.
THEOREM TerminalStaysFinal == HeartbeatsReliable => (Spec => TerminalIsFinal)
<1> SUFFICES ASSUME HeartbeatsReliable PROVE Spec => TerminalIsFinal
    OBVIOUS
<1> DEFINE Final == \A j \in Jobs : status[j] \in Terminal => status'[j] = status[j]
<1>1. TypeOK /\ LeaseHeld /\ [Next]_vars => Final
  <2> SUFFICES ASSUME TypeOK, LeaseHeld, [Next]_vars PROVE Final
      OBVIOUS
  <2> USE DEF LeaseHeld, Terminal
  <2>1. ASSUME NEW w \in Workers, ClaimCommit(w) PROVE Final
      BY <2>1 DEF ClaimCommit, TakeRow, Claimable, rowVars, TypeOK
  <2>2. ASSUME NEW w \in Workers, Complete(w) PROVE Final
      BY <2>2 DEF Complete, ReleaseAs, TypeOK
  <2>3. ASSUME NEW w \in Workers, NEW r \in BOOLEAN, RecordFailure(w, r) PROVE Final
      BY <2>3 DEF RecordFailure, FailAs, ReleaseAs, TypeOK
  <2>4. ASSUME NEW p \in Producers, EnqueueInsert(p) PROVE Final
      BY <2>4 DEF EnqueueInsert, rowVars, TypeOK
  <2>5. CASE RecoverExpiredLeases
      BY <2>5 DEF RecoverExpiredLeases, ReturnToPool, ExpiredRows, TypeOK
  <2>6. ASSUME NEW w \in Workers,
               \/ ClaimSelect(w) \/ ExtendLease(w) \/ HeartbeatError(w)
               \/ LeaseTaskRaises(w) \/ RollbackExpiresRow(w) \/ Crash(w) \/ Restart(w)
        PROVE  Final
      BY <2>6 DEF ClaimSelect, ExtendLease, HeartbeatError, LeaseTaskRaises, RollbackExpiresRow,
                  Crash, Restart, rowVars
  <2>7. ASSUME NEW p \in Producers,
               \/ \E j \in Jobs, prio \in Priorities : EnqueueCheck(p, j, prio)
               \/ EnqueueReread(p)
        PROVE  Final
      BY <2>7 DEF EnqueueCheck, EnqueueReread, CoalesceInto, rowVars
  <2>8. ASSUME NEW j \in Jobs, BecomeDue(j) \/ LeaseExpires(j) PROVE Final
      BY <2>8 DEF BecomeDue, LeaseExpires
  <2>9. CASE UNCHANGED vars
      BY <2>9 DEF vars, rowVars
  <2> QED
      BY <2>1, <2>2, <2>3, <2>4, <2>5, <2>6, <2>7, <2>8, <2>9
      DEF Next, WorkerNext, ProducerNext
<1> QED
    BY <1>1, LeaseHeldAlways, TypeCorrect, PTL DEF Spec, TerminalIsFinal

(***************************************************************************)
(* The queue implements the job service                                    *)
(***************************************************************************)

\* A write of one status changes one stage.
LEMMA StageMoves ==
  ASSUME TypeOK, NEW j \in Jobs, NEW s, status' = [status EXCEPT ![j] = s]
  PROVE  QueueStage' = [QueueStage EXCEPT ![j] = StatusShown(s)]
<1>1. \A k \in Jobs : StatusShown(status'[k]) = IF k = j THEN StatusShown(s) ELSE StatusShown(status[k])
    BY DEF TypeOK
<1> QED
    BY <1>1 DEF QueueStage

\* While no worker starts or stops running a row, the same handlers run.
LEMMA BusyStays ==
  ASSUME \A w \in Workers : wpc[w] = "running" <=> wpc'[w] = "running",
         \A w \in Workers : wpc[w] = "running" => held'[w] = held[w]
  PROVE  QueueBusy' = QueueBusy
<1>1. ASSUME NEW j \in Jobs
      PROVE  {w \in Workers : wpc'[w] = "running" /\ held'[w] = j}
               = {w \in Workers : wpc[w] = "running" /\ held[w] = j}
    OBVIOUS
<1> QED
    BY <1>1 DEF QueueBusy

\* A worker that stops running was the only one busy with its row, and nobody is then.
LEMMA BusyEnds ==
  ASSUME TypeOK, LeaseHeld, NEW w \in Workers, wpc[w] = "running", wpc'[w] # "running",
         \A v \in Workers \ {w} : wpc'[v] = wpc[v] /\ held'[v] = held[v]
  PROVE  /\ held[w] \in Jobs /\ QueueStage[held[w]] = "held" /\ QueueBusy[held[w]] = {w}
         /\ QueueBusy' = [QueueBusy EXCEPT ![held[w]] = {}]
<1> DEFINE j == held[w]
<1>1. j \in Jobs /\ status[j] = "RUNNING" /\ owner[j] = w
    BY DEF TypeOK, LeaseHeld
<1>2. QueueStage[j] = "held"
    BY <1>1 DEF QueueStage, StatusShown, Terminal
<1>3. \A v \in Workers : wpc[v] = "running" /\ held[v] = j <=> v = w
    BY <1>1 DEF LeaseHeld
<1>4. QueueBusy[j] = {w}
    BY <1>1, <1>3 DEF QueueBusy
<1>5. ASSUME NEW k \in Jobs
      PROVE  {v \in Workers : wpc'[v] = "running" /\ held'[v] = k} =
               IF k = j THEN {} ELSE {v \in Workers : wpc[v] = "running" /\ held[v] = k}
    BY <1>3
<1>6. QueueBusy' = [QueueBusy EXCEPT ![j] = {}]
    BY <1>5 DEF QueueBusy
<1> QED
    BY <1>1, <1>2, <1>4, <1>6

\* The outcome of a handler settles its job.
LEMMA OutcomeSettles ==
  ASSUME TypeOK, LeaseHeld, NEW w \in Workers, wpc[w] = "running", Idle(w),
         NEW s \in {"COMPLETED", "FAILED_RETRYABLE", "FAILED_REVIEW"}, ReleaseAs(held[w], s)
  PROVE  held[w] \in Jobs /\ Service!Settle(held[w], w)
<1>1. /\ wpc'[w] # "running" /\ \A v \in Workers \ {w} : wpc'[v] = wpc[v] /\ held'[v] = held[v]
    BY DEF Idle, TypeOK
<1>2. /\ held[w] \in Jobs /\ QueueStage[held[w]] = "held" /\ QueueBusy[held[w]] = {w}
      /\ QueueBusy' = [QueueBusy EXCEPT ![held[w]] = {}]
    BY <1>1, BusyEnds
<1>3. QueueStage' = [QueueStage EXCEPT ![held[w]] = StatusShown(s)]
    BY <1>2, StageMoves DEF ReleaseAs
<1>4. StatusShown(s) \in {"done", "waiting"}
    BY DEF StatusShown, Terminal
<1> QED
    BY <1>2, <1>3, <1>4 DEF Service!Settle

\* A worker that dies abandons what it runs, or shows nothing.
LEMMA DeathAbandons ==
  ASSUME TypeOK, LeaseHeld, NEW w \in Workers, Die(w), UNCHANGED status
  PROVE  \/ wpc[w] = "running" /\ held[w] \in Jobs /\ Service!Abandon(held[w], w)
         \/ QueueStage' = QueueStage /\ QueueBusy' = QueueBusy
<1>1. /\ wpc'[w] # "running" /\ \A v \in Workers \ {w} : wpc'[v] = wpc[v] /\ held'[v] = held[v]
    BY DEF Die, TypeOK
<1>2. QueueStage' = QueueStage
    BY DEF QueueStage
<1>3. CASE wpc[w] = "running"
    BY <1>1, <1>2, <1>3, BusyEnds DEF Service!Abandon
<1>4. CASE wpc[w] # "running"
  <2>1. QueueBusy' = QueueBusy
      BY <1>1, <1>4, BusyStays
  <2> QED
      BY <1>2, <2>1
<1> QED
    BY <1>3, <1>4

\* Every step of the queue is a step of the job service or changes nothing it shows.
LEMMA StepsServe ==
  ASSUME HeartbeatsReliable, TypeOK, LeaseHeld, [Next]_vars
  PROVE  [Service!ServiceNext]_(Service!serviceVars)
<1> USE DEF Service!serviceVars
<1> DEFINE Served == [Service!ServiceNext]_(Service!serviceVars)
<1>1. ASSUME UNCHANGED status,
             \A w \in Workers : wpc[w] = "running" <=> wpc'[w] = "running",
             \A w \in Workers : wpc[w] = "running" => held'[w] = held[w]
      PROVE  Served
    BY <1>1, BusyStays DEF QueueStage
<1>2. ASSUME NEW w \in Workers, Die(w), UNCHANGED status PROVE Served
    BY <1>2, DeathAbandons DEF Service!ServiceNext
<1>3. ASSUME NEW w \in Workers, wpc[w] = "running", Idle(w),
             NEW s \in {"COMPLETED", "FAILED_RETRYABLE", "FAILED_REVIEW"}, ReleaseAs(held[w], s)
      PROVE  Served
    BY <1>3, OutcomeSettles DEF Service!ServiceNext
<1>4. ASSUME NEW w \in Workers, ClaimSelect(w) PROVE Served
    BY <1>1, <1>4 DEF ClaimSelect, rowVars, TypeOK
<1>5. ASSUME NEW w \in Workers, ClaimCommit(w) PROVE Served
  <2>1. CASE IndexConflict(held[w])
      BY <1>2, <1>5, <2>1 DEF ClaimCommit, rowVars
  <2>2. CASE ~IndexConflict(held[w])
    <3> DEFINE j == held[w]
    <3>1. /\ wpc[w] = "claiming" /\ j \in Jobs /\ status[j] \in Claimable
          /\ status' = [status EXCEPT ![j] = "RUNNING"]
          /\ wpc' = [wpc EXCEPT ![w] = "running"] /\ held' = held
        BY <1>5, <2>2 DEF ClaimCommit, TakeRow, TypeOK, LeaseHeld
    <3>2. \A v \in Workers : wpc[v] = "running" => held[v] # j
        BY <3>1 DEF LeaseHeld, Claimable
    <3>3. QueueStage[j] = "waiting" /\ StatusShown("RUNNING") = "held"
        BY <3>1 DEF QueueStage, StatusShown, Claimable, Terminal
    <3>4. QueueStage' = [QueueStage EXCEPT ![j] = "held"]
      <4>1. QueueStage' = [QueueStage EXCEPT ![j] = StatusShown("RUNNING")]
        <5> HIDE DEF j
        <5> QED
            BY <3>1, StageMoves
      <4> QED
          BY <3>3, <4>1
    <3>5. QueueBusy[j] = {}
        BY <3>1, <3>2 DEF QueueBusy
    <3>6. ASSUME NEW k \in Jobs
          PROVE  {v \in Workers : wpc'[v] = "running" /\ held'[v] = k} =
                   IF k = j THEN {w} ELSE {v \in Workers : wpc[v] = "running" /\ held[v] = k}
        BY <3>1, <3>2 DEF TypeOK
    <3>7. QueueBusy' = [QueueBusy EXCEPT ![j] = {w}]
        BY <3>6 DEF QueueBusy
    <3>8. Service!Take(j, w)
        BY <3>3, <3>4, <3>5, <3>7 DEF Service!Take
    <3> QED
        BY <3>1, <3>8 DEF Service!ServiceNext
  <2> QED
      BY <2>1, <2>2
<1>6. ASSUME NEW w \in Workers, ExtendLease(w) \/ HeartbeatError(w) PROVE Served
    BY <1>1, <1>6 DEF ExtendLease, HeartbeatError, rowVars
<1>7. ASSUME NEW w \in Workers, Complete(w) PROVE Served
    BY <1>3, <1>7 DEF Complete
<1>8. ASSUME NEW w \in Workers, NEW r \in BOOLEAN, RecordFailure(w, r) PROVE Served
    BY <1>3, <1>8 DEF RecordFailure, FailAs
<1>9. ASSUME NEW w \in Workers, LeaseTaskRaises(w) \/ RollbackExpiresRow(w) \/ Crash(w) PROVE Served
    BY <1>2, <1>9 DEF LeaseTaskRaises, RollbackExpiresRow, Crash, rowVars
<1>10. ASSUME NEW w \in Workers, Restart(w) PROVE Served
    BY <1>1, <1>10 DEF Restart, rowVars, TypeOK
<1>11. ASSUME NEW p \in Producers, EnqueueInsert(p) PROVE Served
  <2> DEFINE j == req[p].key
  <2>1. UNCHANGED workerVars /\ j \in Jobs
      BY <1>11 DEF EnqueueInsert, TypeOK
  <2>2. QueueBusy' = QueueBusy
      BY <2>1, BusyStays DEF workerVars
  <2>3. CASE status[j] # "NONE" \/ IndexConflict(j)
      BY <1>1, <1>11, <2>1, <2>3 DEF EnqueueInsert, rowVars, workerVars
  <2>4. CASE ~(status[j] # "NONE" \/ IndexConflict(j))
    <3>1. status[j] = "NONE" /\ status' = [status EXCEPT ![j] = "PENDING"]
        BY <1>11, <2>4 DEF EnqueueInsert
    <3>2. QueueStage[j] = "absent" /\ StatusShown("PENDING") = "waiting"
        BY <2>1, <3>1 DEF QueueStage, StatusShown, Terminal
    <3>3. QueueStage' = [QueueStage EXCEPT ![j] = StatusShown("PENDING")]
      <4> HIDE DEF j
      <4> QED
          BY <2>1, <3>1, StageMoves
    <3>4. Service!Submit(j)
        BY <2>2, <3>2, <3>3 DEF Service!Submit
    <3> QED
        BY <2>1, <3>4 DEF Service!ServiceNext
  <2> QED
      BY <2>3, <2>4
<1>12. ASSUME NEW p \in Producers,
              \/ \E j \in Jobs, prio \in Priorities : EnqueueCheck(p, j, prio)
              \/ EnqueueReread(p)
       PROVE  Served
    BY <1>1, <1>12 DEF EnqueueCheck, EnqueueReread, CoalesceInto, rowVars, workerVars
<1>13. ASSUME NEW j \in Jobs, BecomeDue(j) \/ LeaseExpires(j) PROVE Served
    BY <1>1, <1>13 DEF BecomeDue, LeaseExpires, workerVars
<1>14. CASE RecoverExpiredLeases
  <2>1. /\ UNCHANGED workerVars
        /\ status' = [j \in Jobs |-> IF j \in ExpiredRows THEN "PENDING" ELSE status[j]]
      BY <1>14 DEF RecoverExpiredLeases, ReturnToPool
  <2>2. ExpiredRows \in SUBSET {j \in Jobs : QueueStage[j] = "held" /\ QueueBusy[j] = {}}
    <3> SUFFICES ASSUME NEW j \in ExpiredRows
                 PROVE  j \in Jobs /\ QueueStage[j] = "held" /\ QueueBusy[j] = {}
        OBVIOUS
    <3>1. j \in Jobs /\ status[j] = "RUNNING" /\ lease[j] = "expired"
        BY DEF ExpiredRows
    <3>2. \A w \in Workers : ~(wpc[w] = "running" /\ held[w] = j)
        BY <3>1 DEF LeaseHeld
    <3> QED
        BY <3>1, <3>2 DEF QueueStage, QueueBusy, StatusShown, Terminal
  <2>3. StatusShown("PENDING") = "waiting"
      BY DEF StatusShown, Terminal
  <2>4. ASSUME NEW j \in Jobs
        PROVE  StatusShown(status'[j]) = IF j \in ExpiredRows THEN "waiting" ELSE StatusShown(status[j])
      BY <2>1, <2>3
  <2>5. QueueStage' = [j \in Jobs |-> IF j \in ExpiredRows THEN "waiting" ELSE QueueStage[j]]
      BY <2>4 DEF QueueStage
  <2>6. QueueBusy' = QueueBusy
      BY <2>1, BusyStays DEF workerVars
  <2>7. Service!Reclaim
      BY <2>2, <2>5, <2>6 DEF Service!Reclaim
  <2> QED
      BY <2>7 DEF Service!ServiceNext
<1>15. CASE UNCHANGED vars
    BY <1>1, <1>15 DEF vars, rowVars, workerVars
<1> QED
    BY <1>4, <1>5, <1>6, <1>7, <1>8, <1>9, <1>10, <1>11, <1>12, <1>13, <1>14, <1>15
    DEF Next, WorkerNext, ProducerNext

\* While live handlers keep their leases, the Graph queue implements the job service: one handler
\* at a time, finished jobs never touched, abandoned ones returned (claim_next, the terminal
\* writes and recover_expired_leases of app/jobs/repository.py).
THEOREM QueueServes == HeartbeatsReliable => (Spec => ImplementsService)
<1> SUFFICES ASSUME HeartbeatsReliable PROVE Spec => ImplementsService
    OBVIOUS
<1>1. Init => Service!ServiceInit
    BY DEF Init, Service!ServiceInit, QueueStage, QueueBusy, StatusShown, Terminal
<1>2. TypeOK /\ LeaseHeld /\ [Next]_vars => [Service!ServiceNext]_(Service!serviceVars)
    BY StepsServe
<1> QED
    BY <1>1, <1>2, TypeCorrect, LeaseHeldAlways, PTL DEF Spec, ImplementsService, Service!ServiceSpec
-----------------------------------------------------------------------------
(***************************************************************************)
(* Bounded retries.  A claim is paid for by the insert, by a recovery or   *)
(* by the one retry that a claim number below max_attempts allows.         *)
(***************************************************************************)

\* Claim numbers that may still bring a retry: not given out yet, or in the hands of a handler.
Unspent(j) ==
  {n \in 1..(MaxAttempts - 1) :
     n > attempts[j] \/ \E w \in Workers : wpc[w] = "running" /\ held[w] = j /\ att[w] = n}

\* The row can be claimed once more as it is.
Chance(j) == IF status[j] \in Claimable \cup {"NONE"} THEN 1 ELSE 0

\* A claim under way has its row to itself.
ClaimsLocked ==
  \A w \in Workers : wpc[w] = "claiming" =>
    status[held[w]] \in Claimable /\ \A v \in Workers : wpc[v] = "claiming" /\ held[v] = held[w] => v = w

ClaimsArePaid == \A j \in Jobs : attempts[j] + Chance(j) + Cardinality(Unspent(j)) <= MaxAttempts + recoveries[j]

RetryBudget == ClaimsLocked /\ ClaimsArePaid

LEMMA UnspentFinite ==
  ASSUME NEW j PROVE IsFiniteSet(Unspent(j)) /\ Cardinality(Unspent(j)) \in Nat
<1>1. IsFiniteSet(1..(MaxAttempts - 1))
    BY FS_Interval, QueueAssumption
<1>2. Unspent(j) \in SUBSET (1..(MaxAttempts - 1))
    BY DEF Unspent
<1>3. IsFiniteSet(Unspent(j))
    BY <1>1, <1>2, FS_Subset
<1> QED
    BY <1>3, FS_CardinalityType

\* A row with no further chance and no further claim number.
LEMMA RowIsPaid ==
  ASSUME TypeOK, ClaimsArePaid, NEW j \in Jobs, attempts'[j] = attempts[j], recoveries'[j] = recoveries[j],
         Unspent(j)' \subseteq Unspent(j), Chance(j)' <= Chance(j)
  PROVE  attempts'[j] + Chance(j)' + Cardinality(Unspent(j)') <= MaxAttempts + recoveries'[j]
<1>1. IsFiniteSet(Unspent(j)) /\ Cardinality(Unspent(j)) \in Nat
    BY UnspentFinite
<1>2. IsFiniteSet(Unspent(j)') /\ Cardinality(Unspent(j)') <= Cardinality(Unspent(j))
    BY <1>1, FS_Subset
<1>3. Cardinality(Unspent(j)') \in Nat
    BY <1>2, FS_CardinalityType
<1>4. attempts[j] \in Nat /\ recoveries[j] \in Nat /\ Chance(j) \in Nat /\ Chance(j)' \in Nat
    BY DEF TypeOK, Chance
<1> QED
    BY <1>1, <1>2, <1>3, <1>4, QueueAssumption DEF ClaimsArePaid

\* Handlers that stay, each with its claim number.
HandlersStay ==
  \A v \in Workers : wpc'[v] = "running" => wpc[v] = "running" /\ held'[v] = held[v] /\ att'[v] = att[v]

\* Claims that stay, on rows that stay claimable.
ClaimsStay ==
  \A v \in Workers : wpc'[v] = "claiming" =>
    wpc[v] = "claiming" /\ held'[v] = held[v] /\ status'[held[v]] = status[held[v]]

LEMMA ClaimsStayLocked == ASSUME TypeOK, ClaimsLocked, ClaimsStay PROVE ClaimsLocked'
BY DEF ClaimsLocked, ClaimsStay

LEMMA BudgetStays ==
  ASSUME TypeOK, RetryBudget, UNCHANGED <<attempts, recoveries>>, HandlersStay, ClaimsStay,
         \A j \in Jobs : Chance(j)' <= Chance(j)
  PROVE  RetryBudget'
<1>1. \A j \in Jobs : Unspent(j)' \subseteq Unspent(j)
    BY DEF Unspent, HandlersStay
<1>2. ClaimsArePaid'
    BY <1>1, RowIsPaid DEF ClaimsArePaid, RetryBudget
<1> QED
    BY <1>2, ClaimsStayLocked DEF RetryBudget

\* A claim gives out the next number and takes the row's chance.
LEMMA ClaimIsPaid ==
  ASSUME TypeOK, RetryBudget, NEW w \in Workers, wpc[w] = "claiming", TakeRow(w)
  PROVE  RetryBudget'
<1>0. PICK j \in Jobs : j = held[w]
    BY DEF TypeOK
<1>1. /\ j \in Jobs /\ status' = [status EXCEPT ![j] = "RUNNING"]
      /\ attempts' = [attempts EXCEPT ![j] = @ + 1] /\ att' = [att EXCEPT ![w] = attempts[j] + 1]
      /\ wpc' = [wpc EXCEPT ![w] = "running"] /\ UNCHANGED <<held, recoveries>>
    BY <1>0 DEF TakeRow, TypeOK
<1>2. attempts \in [Jobs -> Nat] /\ att \in [Workers -> Nat] /\ recoveries \in [Jobs -> Nat]
      /\ status \in [Jobs -> Statuses]
      /\ wpc \in [Workers -> {"idle", "claiming", "running", "down"}] /\ held \in [Workers -> Jobs \cup {NULL}]
    BY DEF TypeOK
<1>3. Chance(j) = 1 /\ Chance(j)' = 0
  <2>1. status[j] \in Claimable
      BY <1>0 DEF RetryBudget, ClaimsLocked
  <2>2. status'[j] = "RUNNING"
      BY <1>1, <1>2
  <2> QED
      BY <2>1, <2>2 DEF Chance, Claimable
<1>4. Unspent(j)' \subseteq Unspent(j)
  <2> SUFFICES ASSUME NEW n \in 1..(MaxAttempts - 1),
                      \/ n > attempts'[j]
                      \/ \E v \in Workers : wpc'[v] = "running" /\ held'[v] = j /\ att'[v] = n
               PROVE  n > attempts[j] \/ \E v \in Workers : wpc[v] = "running" /\ held[v] = j /\ att[v] = n
      BY DEF Unspent
  <2>0. n \in Int /\ attempts[j] \in Int /\ attempts'[j] = attempts[j] + 1
      BY <1>1, <1>2, QueueAssumption
  <2>1. CASE n > attempts'[j]
      BY <2>0, <2>1
  <2>2. ASSUME NEW v \in Workers, wpc'[v] = "running", held'[v] = j, att'[v] = n
        PROVE  n > attempts[j] \/ \E u \in Workers : wpc[u] = "running" /\ held[u] = j /\ att[u] = n
    <3>1. CASE v = w
      <4>1. n = attempts[j] + 1
          BY <1>1, <1>2, <2>2, <3>1
      <4> QED
          BY <2>0, <4>1
    <3>2. CASE v # w
        BY <1>1, <1>2, <2>2, <3>2
    <3> QED
        BY <3>1, <3>2
  <2> QED
      BY <2>1, <2>2
<1>5. attempts'[j] + Chance(j)' + Cardinality(Unspent(j)') <= MaxAttempts + recoveries'[j]
  <2>1. IsFiniteSet(Unspent(j)) /\ Cardinality(Unspent(j)) \in Nat
      BY UnspentFinite
  <2>2. IsFiniteSet(Unspent(j)') /\ Cardinality(Unspent(j)') <= Cardinality(Unspent(j))
      BY <1>4, <2>1, FS_Subset
  <2>3. Cardinality(Unspent(j)') \in Nat
      BY <2>2, FS_CardinalityType
  <2>4. attempts[j] + 1 + Cardinality(Unspent(j)) <= MaxAttempts + recoveries[j]
      BY <1>1, <1>3 DEF RetryBudget, ClaimsArePaid
  <2>5. attempts'[j] = attempts[j] + 1 /\ recoveries'[j] = recoveries[j] /\ attempts[j] \in Nat /\ recoveries[j] \in Nat
      BY <1>1, <1>2
  <2> QED
      BY <1>3, <2>1, <2>2, <2>3, <2>4, <2>5, QueueAssumption
<1>6. ASSUME NEW k \in Jobs, k # j
      PROVE  attempts'[k] + Chance(k)' + Cardinality(Unspent(k)') <= MaxAttempts + recoveries'[k]
  <2>1. attempts'[k] = attempts[k] /\ recoveries'[k] = recoveries[k] /\ status'[k] = status[k]
      BY <1>1, <1>2, <1>6
  <2>2. Chance(k)' = Chance(k) /\ Chance(k) \in Nat
      BY <2>1 DEF Chance
  <2>3. \A v \in Workers : wpc'[v] = "running" /\ held'[v] = k =>
           wpc[v] = "running" /\ held[v] = k /\ att'[v] = att[v]
      BY <1>0, <1>1, <1>2, <1>6
  <2>4. Unspent(k)' \subseteq Unspent(k)
      BY <2>1, <2>3 DEF Unspent
  <2> QED
      BY <2>1, <2>2, <2>4, RowIsPaid DEF RetryBudget
<1>7. ClaimsArePaid'
    BY <1>5, <1>6 DEF ClaimsArePaid
<1>8. ClaimsStay
    BY <1>0, <1>1, <1>2 DEF ClaimsStay, RetryBudget, ClaimsLocked
<1> QED
    BY <1>7, <1>8, ClaimsStayLocked DEF RetryBudget

\* A retry spends its claim number for one more chance.
LEMMA RetryIsPaid ==
  ASSUME TypeOK, ClaimNumbers, RetryBudget, NEW w \in Workers, wpc[w] = "running", att[w] < MaxAttempts, att[w] > 0,
         ~Locked(held[w]), ReleaseAs(held[w], "FAILED_RETRYABLE"), Idle(w), UNCHANGED recoveries
  PROVE  RetryBudget'
<1>0. PICK j \in Jobs, n \in Nat : j = held[w] /\ n = att[w]
    BY DEF TypeOK
<1>1. /\ j \in Jobs /\ status' = [status EXCEPT ![j] = "FAILED_RETRYABLE"] /\ UNCHANGED <<attempts, recoveries>>
      /\ wpc' = [wpc EXCEPT ![w] = "idle"] /\ held' = [held EXCEPT ![w] = NULL] /\ att' = [att EXCEPT ![w] = 0]
    BY <1>0 DEF ReleaseAs, Idle, TypeOK
<1>2. attempts \in [Jobs -> Nat] /\ att \in [Workers -> Nat] /\ recoveries \in [Jobs -> Nat]
      /\ status \in [Jobs -> Statuses]
      /\ wpc \in [Workers -> {"idle", "claiming", "running", "down"}] /\ held \in [Workers -> Jobs \cup {NULL}]
    BY DEF TypeOK
<1>3. HandlersStay /\ wpc'[w] # "running"
    BY <1>1, <1>2 DEF HandlersStay
<1>4. ClaimsStay
  <2> SUFFICES ASSUME NEW v \in Workers, wpc'[v] = "claiming"
               PROVE  wpc[v] = "claiming" /\ held'[v] = held[v] /\ status'[held[v]] = status[held[v]]
      BY DEF ClaimsStay
  <2>1. v # w /\ wpc[v] = "claiming" /\ held'[v] = held[v]
      BY <1>1, <1>2
  <2>2. held[v] # j /\ held[v] \in Jobs
      BY <1>0, <2>1 DEF Locked, TypeOK
  <2> QED
      BY <1>1, <1>2, <2>1, <2>2
<1>5. n \in Unspent(j) /\ n <= attempts[j] /\ \A v \in Workers \ {w} : wpc[v] = "running" /\ held[v] = j => att[v] # n
  <2>1. n \in 1..(MaxAttempts - 1)
      BY <1>0, QueueAssumption
  <2> QED
      BY <1>0, <2>1 DEF Unspent, ClaimNumbers, EscalationKeysFresh
<1>6. Unspent(j)' \subseteq Unspent(j) \ {n}
  <2>1. Unspent(j)' \subseteq Unspent(j)
      BY <1>1, <1>3 DEF Unspent, HandlersStay
  <2>2. n \notin Unspent(j)'
    <3>1. n \in Nat /\ attempts'[j] = attempts[j] /\ attempts[j] \in Nat /\ ~(n > attempts[j])
        BY <1>1, <1>2, <1>5
    <3>2. \A v \in Workers : ~(wpc'[v] = "running" /\ held'[v] = j /\ att'[v] = n)
        BY <1>3, <1>5 DEF HandlersStay
    <3> QED
        BY <3>1, <3>2 DEF Unspent
  <2> QED
      BY <2>1, <2>2
<1>7. attempts'[j] + Chance(j)' + Cardinality(Unspent(j)') <= MaxAttempts + recoveries'[j]
  <2>1. IsFiniteSet(Unspent(j)) /\ Cardinality(Unspent(j)) \in Nat
      BY UnspentFinite
  <2>2. IsFiniteSet(Unspent(j) \ {n}) /\ Cardinality(Unspent(j) \ {n}) = Cardinality(Unspent(j)) - 1
      BY <1>5, <2>1, FS_RemoveElement
  <2>3. IsFiniteSet(Unspent(j)') /\ Cardinality(Unspent(j)') <= Cardinality(Unspent(j) \ {n})
      BY <1>6, <2>2, FS_Subset
  <2>4. Cardinality(Unspent(j)') \in Nat
      BY <2>3, FS_CardinalityType
  <2>5. attempts[j] + Chance(j) + Cardinality(Unspent(j)) <= MaxAttempts + recoveries[j]
      BY <1>1 DEF RetryBudget, ClaimsArePaid
  <2>6. Chance(j) \in {0, 1} /\ Chance(j)' \in {0, 1}
      BY DEF Chance
  <2>7. attempts'[j] = attempts[j] /\ recoveries'[j] = recoveries[j] /\ attempts[j] \in Nat /\ recoveries[j] \in Nat
      BY <1>1, <1>2
  <2> QED
      BY <2>1, <2>2, <2>3, <2>4, <2>5, <2>6, <2>7, QueueAssumption
<1>8. ASSUME NEW k \in Jobs, k # j
      PROVE  attempts'[k] + Chance(k)' + Cardinality(Unspent(k)') <= MaxAttempts + recoveries'[k]
  <2>1. attempts'[k] = attempts[k] /\ recoveries'[k] = recoveries[k] /\ status'[k] = status[k]
      BY <1>1, <1>2, <1>8
  <2>2. Chance(k)' = Chance(k) /\ Chance(k) \in Nat
      BY <2>1 DEF Chance
  <2>3. Unspent(k)' \subseteq Unspent(k)
      BY <1>1, <1>3 DEF Unspent, HandlersStay
  <2> QED
      BY <2>1, <2>2, <2>3, RowIsPaid DEF RetryBudget
<1>9. ClaimsArePaid'
    BY <1>7, <1>8 DEF ClaimsArePaid
<1> QED
    BY <1>4, <1>9, ClaimsStayLocked DEF RetryBudget

\* The recovery pays for the chance it gives.
LEMMA RecoveryIsPaid == ASSUME TypeOK, RetryBudget, RecoverExpiredLeases PROVE RetryBudget'
<1>1. /\ status' = [j \in Jobs |-> IF j \in ExpiredRows THEN "PENDING" ELSE status[j]]
      /\ recoveries' = [j \in Jobs |-> IF j \in ExpiredRows THEN recoveries[j] + 1 ELSE recoveries[j]]
      /\ UNCHANGED <<attempts, wpc, held, att>>
    BY DEF RecoverExpiredLeases, ReturnToPool, workerVars
<1>2. HandlersStay
    BY <1>1 DEF HandlersStay
<1>3. ClaimsStay
  <2> SUFFICES ASSUME NEW v \in Workers, wpc[v] = "claiming" PROVE status'[held[v]] = status[held[v]]
      BY <1>1 DEF ClaimsStay
  <2>1. held[v] \in Jobs /\ status[held[v]] # "RUNNING"
      BY DEF RetryBudget, ClaimsLocked, Claimable, TypeOK
  <2> QED
      BY <1>1, <2>1 DEF ExpiredRows
<1>4. \A k \in Jobs : Unspent(k)' \subseteq Unspent(k)
    BY <1>1, <1>2 DEF Unspent, HandlersStay
<1>5. ASSUME NEW k \in Jobs
      PROVE  attempts'[k] + Chance(k)' + Cardinality(Unspent(k)') <= MaxAttempts + recoveries'[k]
  <2>1. CASE k \notin ExpiredRows
    <3>1. status'[k] = status[k] /\ recoveries'[k] = recoveries[k] /\ attempts'[k] = attempts[k]
        BY <1>1, <2>1
    <3>2. Chance(k)' = Chance(k) /\ Chance(k) \in Nat
        BY <3>1 DEF Chance
    <3> QED
        BY <1>4, <3>1, <3>2, RowIsPaid DEF RetryBudget
  <2>2. CASE k \in ExpiredRows
    <3>1. recoveries'[k] = recoveries[k] + 1 /\ attempts'[k] = attempts[k] /\ attempts[k] \in Nat /\ recoveries[k] \in Nat
        BY <1>1, <2>2 DEF TypeOK
    <3>2. Chance(k) \in {0, 1} /\ Chance(k)' \in {0, 1}
        BY DEF Chance
    <3>3. IsFiniteSet(Unspent(k)) /\ Cardinality(Unspent(k)) \in Nat
        BY UnspentFinite
    <3>4. IsFiniteSet(Unspent(k)') /\ Cardinality(Unspent(k)') <= Cardinality(Unspent(k))
        BY <1>4, <3>3, FS_Subset
    <3>5. Cardinality(Unspent(k)') \in Nat
        BY <3>4, FS_CardinalityType
    <3>7. Chance(k) = 0
        BY <2>2 DEF Chance, ExpiredRows, Claimable
    <3>6. attempts[k] + Chance(k) + Cardinality(Unspent(k)) <= MaxAttempts + recoveries[k]
        BY DEF RetryBudget, ClaimsArePaid
    <3> QED
        BY <3>1, <3>2, <3>3, <3>4, <3>5, <3>6, <3>7, QueueAssumption
  <2> QED
      BY <2>1, <2>2
<1>6. ClaimsArePaid'
    BY <1>5 DEF ClaimsArePaid
<1> QED
    BY <1>3, <1>6, ClaimsStayLocked DEF RetryBudget

\* Claim numbers start at one.
Numbered == \A w \in Workers : wpc[w] = "running" => att[w] > 0

LEMMA RetryBudgetStep ==
  TypeOK /\ ClaimNumbers /\ RetryBudget /\ Numbered /\ [Next]_vars => RetryBudget' /\ Numbered'
<1> SUFFICES ASSUME TypeOK, ClaimNumbers, RetryBudget, Numbered, [Next]_vars PROVE RetryBudget' /\ Numbered'
    OBVIOUS
<1>0. /\ status \in [Jobs -> Statuses] /\ att \in [Workers -> Nat] /\ attempts \in [Jobs -> Nat]
      /\ wpc \in [Workers -> {"idle", "claiming", "running", "down"}] /\ held \in [Workers -> Jobs \cup {NULL}]
    BY DEF TypeOK
<1>1. HandlersStay => Numbered'
    BY DEF HandlersStay, Numbered
<1>2. ASSUME UNCHANGED <<status, attempts, recoveries>>, HandlersStay,
             \A v \in Workers : wpc'[v] = "claiming" => wpc[v] = "claiming" /\ held'[v] = held[v]
      PROVE  RetryBudget' /\ Numbered'
  <2>1. ClaimsStay
      BY <1>2 DEF ClaimsStay
  <2>2. \A j \in Jobs : Chance(j)' = Chance(j) /\ Chance(j) \in Nat
      BY <1>2 DEF Chance
  <2> QED
      BY <1>1, <1>2, <2>1, <2>2, BudgetStays
<1>3. ASSUME NEW w \in Workers, wpc[w] = "running", Idle(w), ~Locked(held[w]),
             NEW s \in Statuses \ (Claimable \cup {"NONE"}), ReleaseAs(held[w], s), UNCHANGED recoveries
      PROVE  RetryBudget' /\ Numbered'
  <2>1. /\ held[w] \in Jobs /\ status' = [status EXCEPT ![held[w]] = s] /\ UNCHANGED attempts
        /\ wpc' = [wpc EXCEPT ![w] = "idle"] /\ held' = [held EXCEPT ![w] = NULL] /\ att' = [att EXCEPT ![w] = 0]
      BY <1>3 DEF ReleaseAs, Idle, TypeOK
  <2>2. HandlersStay
      BY <1>0, <2>1 DEF HandlersStay
  <2>3. ClaimsStay
    <3> SUFFICES ASSUME NEW v \in Workers, wpc'[v] = "claiming"
                 PROVE  wpc[v] = "claiming" /\ held'[v] = held[v] /\ status'[held[v]] = status[held[v]]
        BY DEF ClaimsStay
    <3>1. v # w /\ wpc[v] = "claiming" /\ held'[v] = held[v]
        BY <1>0, <2>1
    <3>2. held[v] # held[w] /\ held[v] \in Jobs
        BY <1>3, <3>1 DEF Locked, TypeOK
    <3> QED
        BY <1>0, <2>1, <3>1, <3>2
  <2>4. ASSUME NEW j \in Jobs PROVE Chance(j)' <= Chance(j)
    <3>1. status'[j] = status[j] \/ status'[j] = s
        BY <1>0, <2>1
    <3>2. Chance(j)' = 0 \/ Chance(j)' = Chance(j)
        BY <1>3, <3>1 DEF Chance
    <3> QED
        BY <3>2 DEF Chance
  <2> QED
      BY <1>1, <1>3, <2>1, <2>2, <2>3, <2>4, BudgetStays
<1>4. ASSUME NEW w \in Workers, ClaimSelect(w) PROVE RetryBudget' /\ Numbered'
  <2>1. PICK j \in Jobs : FirstCandidate(j) /\ held' = [held EXCEPT ![w] = j]
      BY <1>4 DEF ClaimSelect
  <2>2. wpc[w] = "idle" /\ wpc' = [wpc EXCEPT ![w] = "claiming"] /\ UNCHANGED <<status, attempts, recoveries, att>>
      BY <1>4 DEF ClaimSelect, rowVars
  <2>3. status[j] \in Claimable /\ ~Locked(j)
      BY <2>1 DEF FirstCandidate, Candidates
  <2>4. HandlersStay
      BY <1>0, <2>1, <2>2 DEF HandlersStay
  <2>5. \A v \in Workers \ {w} : wpc'[v] = wpc[v] /\ held'[v] = held[v] /\ (wpc[v] = "claiming" => held[v] # j)
      BY <1>0, <2>1, <2>2, <2>3 DEF Locked
  <2>6. held'[w] = j
      BY <1>0, <2>1
  <2>7. ClaimsLocked'
      BY <2>2, <2>3, <2>5, <2>6 DEF RetryBudget, ClaimsLocked
  <2>8. ASSUME NEW k \in Jobs
        PROVE  attempts'[k] + Chance(k)' + Cardinality(Unspent(k)') <= MaxAttempts + recoveries'[k]
    <3>1. Chance(k)' = Chance(k) /\ Chance(k) \in Nat /\ attempts'[k] = attempts[k] /\ recoveries'[k] = recoveries[k]
        BY <2>2 DEF Chance
    <3>2. Unspent(k)' \subseteq Unspent(k)
        BY <2>2, <2>4 DEF Unspent, HandlersStay
    <3> QED
        BY <3>1, <3>2, RowIsPaid DEF RetryBudget
  <2>9. ClaimsArePaid'
      BY <2>8 DEF ClaimsArePaid
  <2> QED
      BY <1>1, <2>4, <2>7, <2>9 DEF RetryBudget
<1>5. ASSUME NEW w \in Workers, ClaimCommit(w) PROVE RetryBudget' /\ Numbered'
  <2>1. CASE IndexConflict(held[w])
    <3>1. Die(w) /\ UNCHANGED <<rowVars, recoveries>>
        BY <1>5, <2>1 DEF ClaimCommit
    <3>2. HandlersStay /\ \A v \in Workers : wpc'[v] = "claiming" => wpc[v] = "claiming" /\ held'[v] = held[v]
        BY <1>0, <3>1 DEF Die, HandlersStay
    <3> QED
        BY <1>2, <3>1, <3>2 DEF rowVars
  <2>2. CASE ~IndexConflict(held[w])
    <3>1. wpc[w] = "claiming" /\ TakeRow(w)
        BY <1>5, <2>2 DEF ClaimCommit
    <3>2. /\ held[w] \in Jobs /\ att' = [att EXCEPT ![w] = attempts[held[w]] + 1]
          /\ wpc' = [wpc EXCEPT ![w] = "running"]
        BY <3>1 DEF TakeRow, TypeOK
    <3>3. attempts[held[w]] + 1 > 0
        BY <1>0, <3>2
    <3>4. Numbered'
        BY <1>0, <3>2, <3>3 DEF Numbered
    <3> QED
        BY <3>1, <3>4, ClaimIsPaid
  <2> QED
      BY <2>1, <2>2
<1>6. ASSUME NEW w \in Workers, Complete(w) PROVE RetryBudget' /\ Numbered'
    BY <1>3, <1>6 DEF Complete, Statuses, Terminal, Claimable
<1>7. ASSUME NEW w \in Workers, NEW r \in BOOLEAN, RecordFailure(w, r) PROVE RetryBudget' /\ Numbered'
  <2>1. wpc[w] = "running" /\ ~Locked(held[w]) /\ Idle(w) /\ UNCHANGED recoveries
      BY <1>7 DEF RecordFailure, FailAs
  <2>2. CASE att[w] < MaxAttempts /\ ReleaseAs(held[w], "FAILED_RETRYABLE")
    <3>1. HandlersStay
        BY <1>0, <2>1 DEF HandlersStay, Idle
    <3>2. att[w] > 0
        BY <2>1 DEF Numbered
    <3> QED
        BY <1>1, <2>1, <2>2, <3>1, <3>2, RetryIsPaid
  <2>3. CASE ReleaseAs(held[w], "FAILED_REVIEW")
      BY <1>3, <2>1, <2>3 DEF Statuses, Terminal, Claimable
  <2> QED
      BY <1>7, <2>2, <2>3 DEF RecordFailure, FailAs
<1>8. ASSUME NEW w \in Workers, LeaseTaskRaises(w) \/ RollbackExpiresRow(w) \/ Crash(w)
      PROVE  RetryBudget' /\ Numbered'
  <2>1. Die(w) /\ UNCHANGED <<rowVars, recoveries>>
      BY <1>8 DEF LeaseTaskRaises, RollbackExpiresRow, Crash
  <2>2. HandlersStay /\ \A v \in Workers : wpc'[v] = "claiming" => wpc[v] = "claiming" /\ held'[v] = held[v]
      BY <1>0, <2>1 DEF Die, HandlersStay
  <2> QED
      BY <1>2, <2>1, <2>2 DEF rowVars
<1>9. ASSUME NEW w \in Workers, ExtendLease(w) \/ HeartbeatError(w) \/ Restart(w) PROVE RetryBudget' /\ Numbered'
  <2>1. UNCHANGED <<status, attempts, recoveries, held, att>> /\ (UNCHANGED wpc \/ wpc' = [wpc EXCEPT ![w] = "idle"])
      BY <1>9 DEF ExtendLease, HeartbeatError, Restart, rowVars
  <2>2. HandlersStay /\ \A v \in Workers : wpc'[v] = "claiming" => wpc[v] = "claiming" /\ held'[v] = held[v]
      BY <1>0, <2>1 DEF HandlersStay
  <2> QED
      BY <1>2, <2>1, <2>2
<1>10. ASSUME NEW p \in Producers, ProducerNext(p) PROVE RetryBudget' /\ Numbered'
  <2>1. UNCHANGED <<attempts, recoveries, wpc, held, att>>
      BY <1>10 DEF ProducerNext, EnqueueCheck, EnqueueInsert, EnqueueReread, CoalesceInto, rowVars, workerVars
  <2>2. UNCHANGED status \/ \E j \in Jobs : status[j] = "NONE" /\ status' = [status EXCEPT ![j] = "PENDING"]
      BY <1>10 DEF ProducerNext, EnqueueCheck, EnqueueInsert, EnqueueReread, CoalesceInto, rowVars, TypeOK
  <2>3. ASSUME NEW k \in Jobs PROVE Chance(k)' <= Chance(k)
    <3>1. status'[k] = status[k] \/ status[k] = "NONE"
        BY <1>0, <2>2
    <3> QED
        BY <3>1 DEF Chance
  <2>4. HandlersStay
      BY <2>1 DEF HandlersStay
  <2>5. ClaimsStay
    <3> SUFFICES ASSUME NEW v \in Workers, wpc[v] = "claiming" PROVE status'[held[v]] = status[held[v]]
        BY <2>1 DEF ClaimsStay
    <3>1. held[v] \in Jobs /\ status[held[v]] # "NONE"
        BY DEF RetryBudget, ClaimsLocked, Claimable, TypeOK
    <3> QED
        BY <1>0, <2>2, <3>1
  <2> QED
      BY <1>1, <2>1, <2>3, <2>4, <2>5, BudgetStays
<1>11. CASE UNCHANGED vars \/ \E j \in Jobs : BecomeDue(j) \/ LeaseExpires(j)
  <2>1. UNCHANGED <<status, attempts, recoveries, wpc, held, att>>
      BY <1>11 DEF vars, rowVars, workerVars, BecomeDue, LeaseExpires
  <2> QED
      BY <1>2, <2>1 DEF HandlersStay
<1>12. CASE RecoverExpiredLeases
  <2>1. HandlersStay
      BY <1>12 DEF RecoverExpiredLeases, ReturnToPool, workerVars, HandlersStay
  <2> QED
      BY <1>1, <1>12, <2>1, RecoveryIsPaid
<1> QED
    BY <1>4, <1>5, <1>6, <1>7, <1>8, <1>9, <1>10, <1>11, <1>12 DEF Next, WorkerNext

\* Every claim beyond max_attempts is paid for by a recovered lease, although recovery does not
\* look at max_attempts and workers that lost their lease may still ask for a retry.
THEOREM RetriesAreBounded == Spec => []AttemptsBounded
<1>1. Init => RetryBudget /\ Numbered
  <2> SUFFICES ASSUME Init PROVE RetryBudget /\ Numbered
      OBVIOUS
  <2>1. /\ \A j \in Jobs : attempts[j] = 0 /\ recoveries[j] = 0 /\ status[j] = "NONE"
        /\ \A w \in Workers : wpc[w] = "idle"
      BY DEF Init
  <2>2. ASSUME NEW j \in Jobs PROVE Chance(j) = 1 /\ Unspent(j) = 1..(MaxAttempts - 1)
      BY <2>1, QueueAssumption DEF Chance, Unspent
  <2>3. Cardinality(1..(MaxAttempts - 1)) = MaxAttempts - 1
      BY FS_Interval, QueueAssumption
  <2>4. ClaimsArePaid
      BY <2>1, <2>2, <2>3, QueueAssumption DEF ClaimsArePaid
  <2> QED
      BY <2>1, <2>4 DEF RetryBudget, ClaimsLocked, Numbered
<1>2. TypeOK /\ RetryBudget => AttemptsBounded
  <2> SUFFICES ASSUME TypeOK, RetryBudget, NEW j \in Jobs PROVE attempts[j] <= MaxAttempts + recoveries[j]
      BY DEF AttemptsBounded
  <2>1. Chance(j) \in Nat /\ Cardinality(Unspent(j)) \in Nat /\ attempts[j] \in Nat /\ recoveries[j] \in Nat
      BY UnspentFinite DEF Chance, TypeOK
  <2> QED
      BY <2>1, QueueAssumption DEF RetryBudget, ClaimsArePaid
<1>3. Init => ClaimNumbers
    BY DEF Init, ClaimNumbers, EscalationKeysFresh
<1> QED
    BY <1>1, <1>2, <1>3, RetryBudgetStep, ClaimNumbersStep, TypeCorrect, PTL DEF Spec
=============================================================================
