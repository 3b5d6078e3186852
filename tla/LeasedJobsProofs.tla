--------------------------- MODULE LeasedJobsProofs ---------------------------
(***************************************************************************)
(* The licensing and the document queue for every set of keys and workers  *)
(* and every value of the bounds: no row is stranded, and while no handler *)
(* outlives its lease the queues implement the job service.                *)
(***************************************************************************)
EXTENDS LeasedJobs, TLAPS

USE LeasedBounds

\* A worker either is free or holds a key of the tables.
HoldsAKey == \A w \in LeasedWorkers : working[w] # Free => working[w].key \in LeasedKeys

\* While no handler outlives its lease: the row of a running handler is RUNNING under a live
\* lease, and no two workers hold one key.
HandlersHold ==
  /\ \A w \in LeasedWorkers : working[w] # Free =>
       leased[working[w].key].st = "RUNNING" /\ leased[working[w].key].lease = "live"
  /\ \A v, w \in LeasedWorkers : working[v] # Free /\ working[v].key = working[w].key => v = w
-----------------------------------------------------------------------------
(* Types.                                                                  *)

RowsOfJobs == [st : JobStatuses, lease : {"none", "live", "lapsed"}, attempts : Nat]
Sessions == [key : LeasedKeys \cup {"-"}, attempts : Nat]
LeaseMatches(row) == row.st = "RUNNING" <=> row.lease # "none"

\* The type invariant, with its sets named.
LEMMA TypesNamed ==
  LeasedTypeOK <=> /\ leased \in [LeasedKeys -> RowsOfJobs] /\ working \in [LeasedWorkers -> Sessions]
                   /\ deaths \in 0..MaxDeaths /\ \A k \in LeasedKeys : LeaseMatches(leased[k])
BY DEF LeasedTypeOK, RowsOfJobs, Sessions, LeaseMatches

\* The types hold again after a step that rewrites one row and one session well.
LEMMA OneRowOneSession ==
  ASSUME LeasedTypeOK, NEW k \in LeasedKeys, NEW w \in LeasedWorkers,
         NEW row \in RowsOfJobs, LeaseMatches(row), NEW session \in Sessions,
         leased' = [leased EXCEPT ![k] = row], working' = [working EXCEPT ![w] = session],
         deaths' \in 0..MaxDeaths
  PROVE  LeasedTypeOK'
<1>1. leased \in [LeasedKeys -> RowsOfJobs] /\ working \in [LeasedWorkers -> Sessions]
      /\ \A j \in LeasedKeys : LeaseMatches(leased[j])
    BY TypesNamed
<1>2. leased' \in [LeasedKeys -> RowsOfJobs] /\ working' \in [LeasedWorkers -> Sessions]
    BY <1>1
<1>3. \A j \in LeasedKeys : LeaseMatches(leased'[j])
  <2> SUFFICES ASSUME NEW j \in LeasedKeys PROVE LeaseMatches(leased'[j])
      OBVIOUS
  <2>1. leased'[j] = row \/ leased'[j] = leased[j]
      BY <1>1
  <2> QED
      BY <1>1, <2>1
<1> QED
    BY <1>2, <1>3 DEF LeasedTypeOK, RowsOfJobs, Sessions, LeaseMatches

LEMMA FreeIsSession == Free \in Sessions
BY DEF Free, Sessions

\* What an outcome makes of the row it is written to.
Ended(k, s) == [leased[k] EXCEPT !.st = s, !.lease = "none"]

LEMMA EndedRow ==
  ASSUME LeasedTypeOK, HoldsAKey, NEW w \in LeasedWorkers, NEW s \in JobStatuses, EndAs(w, s)
  PROVE  /\ working[w].key \in LeasedKeys
         /\ leased' = [leased EXCEPT ![working[w].key] = Ended(working[w].key, s)]
         /\ Ended(working[w].key, s) \in RowsOfJobs
         /\ Ended(working[w].key, s).st = s /\ Ended(working[w].key, s).lease = "none"
<1> DEFINE k == working[w].key
<1>1. k \in LeasedKeys
    BY DEF EndAs, HoldsAKey
<1>2. leased[k] \in RowsOfJobs
    BY <1>1, TypesNamed
<1>3. Ended(k, s) \in RowsOfJobs /\ Ended(k, s).st = s /\ Ended(k, s).lease = "none"
    BY <1>2 DEF RowsOfJobs, Ended
<1>4. leased' = [leased EXCEPT ![k] = Ended(k, s)]
    BY DEF EndAs, Ended
<1> QED
    BY <1>1, <1>3, <1>4

\* An outcome is written to a row that exists and clears its lease.
LEMMA EndAsKeepsTypes ==
  ASSUME LeasedTypeOK, HoldsAKey, NEW w \in LeasedWorkers, NEW s \in JobStatuses \ {"RUNNING"},
         EndAs(w, s), UNCHANGED deaths
  PROVE  LeasedTypeOK' /\ HoldsAKey'
<1> DEFINE k == working[w].key
<1>1. /\ k \in LeasedKeys /\ Ended(k, s) \in RowsOfJobs /\ LeaseMatches(Ended(k, s))
      /\ leased' = [leased EXCEPT ![k] = Ended(k, s)]
    BY EndedRow DEF LeaseMatches
<1>2. deaths' \in 0..MaxDeaths
    BY DEF LeasedTypeOK
<1>3. working' = [working EXCEPT ![w] = Free]
    BY DEF EndAs
<1>4. LeasedTypeOK'
  <2> HIDE DEF k
  <2> QED
      BY <1>1, <1>2, <1>3, OneRowOneSession, FreeIsSession
<1>5. HoldsAKey'
    BY <1>3 DEF HoldsAKey, LeasedTypeOK
<1> QED
    BY <1>4, <1>5

\* Every step keeps rows and sessions well formed: a claim sets a lease, and whatever takes a
\* row out of RUNNING clears it.
LEMMA LeasedTypeStep ==
  LeasedTypeOK /\ HoldsAKey /\ [LeasedNext]_leasedVars => LeasedTypeOK' /\ HoldsAKey'
<1> SUFFICES ASSUME LeasedTypeOK, HoldsAKey, [LeasedNext]_leasedVars
             PROVE  LeasedTypeOK' /\ HoldsAKey'
    OBVIOUS
<1>0. leased \in [LeasedKeys -> RowsOfJobs] /\ working \in [LeasedWorkers -> Sessions]
    BY TypesNamed
<1>1. ASSUME NEW k \in LeasedKeys, EnqueueKey(k) PROVE LeasedTypeOK' /\ HoldsAKey'
    BY <1>1 DEF EnqueueKey, LeasedTypeOK, HoldsAKey, JobStatuses
<1>2. ASSUME NEW k \in LeasedKeys, LeaseLapses(k) PROVE LeasedTypeOK' /\ HoldsAKey'
    BY <1>2 DEF LeaseLapses, LeasedTypeOK, HoldsAKey
<1>3. ASSUME NEW w \in LeasedWorkers, NEW k \in LeasedKeys, ClaimNext(w, k)
      PROVE  LeasedTypeOK' /\ HoldsAKey'
  <2> DEFINE session == [key |-> k, attempts |-> leased[k].attempts + 1]
  <2>1. leased[k].attempts + 1 \in Nat
    <3>1. leased[k] \in RowsOfJobs
        BY <1>0
    <3>2. leased[k].attempts \in Nat
        BY <3>1 DEF RowsOfJobs
    <3> QED
        BY <3>2
  <2>2. ClaimedRow(k) \in RowsOfJobs /\ LeaseMatches(ClaimedRow(k))
      BY <2>1 DEF ClaimedRow, RowsOfJobs, LeaseMatches, JobStatuses
  <2>3. session \in Sessions
      BY <2>1 DEF Sessions
  <2>4. /\ leased' = [leased EXCEPT ![k] = ClaimedRow(k)] /\ working' = [working EXCEPT ![w] = session]
        /\ deaths' \in 0..MaxDeaths
      BY <1>3 DEF ClaimNext, LeasedTypeOK
  <2>5. LeasedTypeOK'
    <3> HIDE DEF session
    <3> QED
        BY <2>2, <2>3, <2>4, OneRowOneSession
  <2>6. HoldsAKey'
      BY <1>0, <2>4 DEF HoldsAKey
  <2> QED
      BY <2>5, <2>6
<1>4. ASSUME NEW w \in LeasedWorkers, MarkCompleted(w) PROVE LeasedTypeOK' /\ HoldsAKey'
    BY <1>4, EndAsKeepsTypes DEF MarkCompleted, JobStatuses
<1>5. ASSUME NEW w \in LeasedWorkers, NEW r \in BOOLEAN, LeasedFails(w, r)
      PROVE  LeasedTypeOK' /\ HoldsAKey'
    BY <1>5, EndAsKeepsTypes DEF LeasedFails, JobStatuses
<1>6. ASSUME NEW w \in LeasedWorkers, HolderDies(w) PROVE LeasedTypeOK' /\ HoldsAKey'
  <2>1. leased' = leased /\ working' = [working EXCEPT ![w] = Free]
      BY <1>6 DEF HolderDies
  <2>5. deaths' \in 0..MaxDeaths
    <3>1. deaths < MaxDeaths /\ deaths' = deaths + 1 /\ deaths \in 0..MaxDeaths
        BY <1>6 DEF HolderDies, LeasedTypeOK
    <3> QED
        BY <3>1
  <2>2. working' \in [LeasedWorkers -> Sessions]
      BY <1>0, <2>1, FreeIsSession
  <2>3. LeasedTypeOK'
      BY <2>1, <2>2, <2>5 DEF LeasedTypeOK, Sessions
  <2>4. HoldsAKey'
      BY <1>0, <2>1 DEF HoldsAKey
  <2> QED
      BY <2>3, <2>4
<1>7. CASE RecoverLapsed
  <2>1. leased' \in [LeasedKeys -> RowsOfJobs] /\ \A k \in LeasedKeys : LeaseMatches(leased'[k])
    <3> SUFFICES ASSUME NEW k \in LeasedKeys
                 PROVE  leased'[k] \in RowsOfJobs /\ LeaseMatches(leased'[k])
        BY <1>7 DEF RecoverLapsed
    <3>1. leased[k] \in RowsOfJobs /\ LeaseMatches(leased[k])
        BY TypesNamed
    <3>2. CASE k \in LapsedRows
      <4>1. leased'[k] = [leased[k] EXCEPT !.st = "FAILED_RETRYABLE", !.lease = "none"]
          BY <1>7, <3>2 DEF RecoverLapsed
      <4> QED
          BY <3>1, <4>1 DEF RowsOfJobs, LeaseMatches, JobStatuses
    <3>3. CASE k \notin LapsedRows
        BY <1>7, <3>1, <3>3 DEF RecoverLapsed
    <3> QED
        BY <3>2, <3>3
  <2>2. working' = working /\ deaths' = deaths
      BY <1>7 DEF RecoverLapsed
  <2>3. LeasedTypeOK'
      BY <2>1, <2>2 DEF LeasedTypeOK, RowsOfJobs, LeaseMatches
  <2> QED
      BY <2>2, <2>3 DEF HoldsAKey
<1>8. CASE UNCHANGED leasedVars
    BY <1>8 DEF leasedVars, LeasedTypeOK, HoldsAKey
<1> QED
    BY <1>1, <1>2, <1>3, <1>4, <1>5, <1>6, <1>7, <1>8 DEF LeasedNext

LEMMA LeasedTypesInit == LeasedInit => LeasedTypeOK /\ HoldsAKey
<1> SUFFICES ASSUME LeasedInit PROVE LeasedTypeOK /\ HoldsAKey
    OBVIOUS
<1>1. leased \in [LeasedKeys -> RowsOfJobs] /\ \A k \in LeasedKeys : LeaseMatches(leased[k])
    BY DEF LeasedInit, RowsOfJobs, LeaseMatches, JobStatuses
<1>2. working \in [LeasedWorkers -> Sessions]
    BY FreeIsSession DEF LeasedInit
<1>4. deaths \in 0..MaxDeaths
    BY DEF LeasedInit
<1>3. HoldsAKey
    BY DEF LeasedInit, HoldsAKey
<1> QED
    BY <1>1, <1>2, <1>3, <1>4, TypesNamed

\* Rows keep their types, and a RUNNING row always carries the lease that recovery looks for, so
\* that no death of a worker strands a job (claim_next, record_failure, recover_expired_leases).
THEOREM NoRowIsStranded == LeasedSpec => [](LeasedTypeOK /\ HoldsAKey)
BY LeasedTypesInit, LeasedTypeStep, PTL DEF LeasedSpec
-----------------------------------------------------------------------------
(* One handler at a time.                                                  *)

\* A worker is free exactly when it names no key.
LEMMA FreeNamesNoKey ==
  ASSUME LeasedTypeOK, HoldsAKey, NEW w \in LeasedWorkers
  PROVE  working[w] # Free <=> working[w].key \in LeasedKeys
BY DEF HoldsAKey, Free, LeasedKeys

\* No step lets a second worker at a row or takes the row from a handler: a claim takes waiting
\* rows, recovery lapsed ones, and outcomes are written by the one holder.
LEMMA HandlersHoldStep ==
  ASSUME LeasesHold, LeasedTypeOK, HoldsAKey, HandlersHold, [LeasedNext]_leasedVars
  PROVE  HandlersHold'
<1>0. leased \in [LeasedKeys -> RowsOfJobs] /\ working \in [LeasedWorkers -> Sessions]
    BY TypesNamed
<1>1. ASSUME NEW k \in LeasedKeys, EnqueueKey(k) PROVE HandlersHold'
    BY <1>0, <1>1 DEF EnqueueKey, HandlersHold, HoldsAKey
<1>2. ASSUME NEW k \in LeasedKeys, LeaseLapses(k) PROVE HandlersHold'
    BY <1>0, <1>2 DEF LeaseLapses, HandlersHold, HoldsAKey
<1>3. ASSUME NEW w \in LeasedWorkers, NEW k \in LeasedKeys, ClaimNext(w, k) PROVE HandlersHold'
  <2>1. /\ leased[k].st # "RUNNING"
        /\ leased' = [leased EXCEPT ![k] = ClaimedRow(k)]
        /\ ClaimedRow(k).st = "RUNNING" /\ ClaimedRow(k).lease = "live"
        /\ working'[w].key = k /\ \A v \in LeasedWorkers \ {w} : working'[v] = working[v]
      BY <1>0, <1>3 DEF ClaimNext, ClaimedRow
  <2>2. \A v \in LeasedWorkers : working[v].key # k
      BY <1>3, <2>1, FreeNamesNoKey DEF HandlersHold
  <2> QED
      BY <1>0, <2>1, <2>2, FreeNamesNoKey DEF HandlersHold, HoldsAKey
<1>4. ASSUME NEW w \in LeasedWorkers, NEW s \in JobStatuses, EndAs(w, s) PROVE HandlersHold'
  <2>1. /\ working[w].key \in LeasedKeys /\ working[w] # Free /\ working' = [working EXCEPT ![w] = Free]
        /\ \A k \in LeasedKeys : k # working[w].key => leased'[k] = leased[k]
      BY <1>0, <1>4, EndedRow DEF EndAs
  <2>2. \A v \in LeasedWorkers : working'[v] # Free => v # w /\ working'[v] = working[v]
      BY <1>0, <2>1
  <2>3. \A v \in LeasedWorkers : working'[v] # Free => working[v].key # working[w].key
      BY <2>1, <2>2 DEF HandlersHold
  <2>4. \A v \in LeasedWorkers : working'[v] # Free => leased'[working'[v].key] = leased[working[v].key]
      BY <2>1, <2>2, <2>3 DEF HoldsAKey
  <2>5. \A v, u \in LeasedWorkers : working'[v] # Free /\ working'[v].key = working'[u].key => v = u
    <3> SUFFICES ASSUME NEW v \in LeasedWorkers, NEW u \in LeasedWorkers, working'[v] # Free,
                        working'[v].key = working'[u].key
                 PROVE  v = u
        OBVIOUS
    <3>1. working'[v].key \in LeasedKeys /\ working'[v] = working[v] /\ v # w
        BY <2>2 DEF HoldsAKey
    <3>2. u # w
        BY <1>0, <2>1, <3>1 DEF Free, LeasedKeys
    <3> QED
        BY <1>0, <2>1, <2>2, <3>1, <3>2 DEF HandlersHold
  <2> QED
      BY <2>2, <2>4, <2>5 DEF HandlersHold
<1>5. ASSUME NEW w \in LeasedWorkers, HolderDies(w) PROVE HandlersHold'
  <2>1. leased' = leased /\ working' = [working EXCEPT ![w] = Free]
      BY <1>5 DEF HolderDies
  <2>2. \A v \in LeasedWorkers : working'[v] # Free =>
          v # w /\ working'[v] = working[v] /\ working[v].key \in LeasedKeys
      BY <1>0, <2>1 DEF HoldsAKey
  <2>3. working'[w].key \notin LeasedKeys
      BY <1>0, <2>1 DEF Free, LeasedKeys
  <2> QED
      BY <1>0, <2>1, <2>2, <2>3 DEF HandlersHold
<1>6. CASE RecoverLapsed
  <2>1. working' = working /\ \A k \in LeasedKeys : leased[k].lease = "live" => leased'[k] = leased[k]
      BY <1>6 DEF RecoverLapsed, LapsedRows
  <2> QED
      BY <2>1 DEF HandlersHold, HoldsAKey
<1>7. CASE UNCHANGED leasedVars
    BY <1>7 DEF leasedVars, HandlersHold
<1> QED
    BY <1>1, <1>2, <1>3, <1>4, <1>5, <1>6, <1>7
    DEF LeasedNext, MarkCompleted, LeasedFails, JobStatuses

\* While no handler outlives its lease, the row of a running handler is RUNNING under a live
\* lease and no two workers run one job (claim_next, record_failure, recover_expired_leases).
THEOREM OneHandler == LeasesHold => (LeasedSpec => []HandlersHold)
<1> SUFFICES ASSUME LeasesHold PROVE LeasedSpec => []HandlersHold
    OBVIOUS
<1>1. LeasedInit => HandlersHold
    BY DEF LeasedInit, HandlersHold
<1>2. LeasedTypeOK /\ HoldsAKey /\ HandlersHold /\ [LeasedNext]_leasedVars => HandlersHold'
    BY HandlersHoldStep
<1> QED
    BY <1>1, <1>2, NoRowIsStranded, PTL DEF LeasedSpec
-----------------------------------------------------------------------------
(* The queues implement the job service.                                   *)

\* A step that rewrites one row changes one stage.
LEMMA StageMoves ==
  ASSUME LeasedTypeOK, NEW k \in LeasedKeys, NEW row, leased' = [leased EXCEPT ![k] = row]
  PROVE  StageShown' = [StageShown EXCEPT ![k] = StageOf(row.st)]
<1>1. \A j \in LeasedKeys : leased'[j] = IF j = k THEN row ELSE leased[j]
    BY DEF LeasedTypeOK
<1>2. \A j \in LeasedKeys : StageOf(leased'[j].st) = IF j = k THEN StageOf(row.st) ELSE StageOf(leased[j].st)
    BY <1>1
<1> QED
    BY <1>2 DEF StageShown

\* A step that rewrites no status changes no stage.
LEMMA StageStays ==
  ASSUME \A j \in LeasedKeys : leased'[j].st = leased[j].st
  PROVE  StageShown' = StageShown
BY DEF StageShown

\* A holder that lets go was the only one busy with its job, and nobody is then.
LEMMA BusyEnds ==
  ASSUME LeasedTypeOK, HoldsAKey, HandlersHold, NEW w \in LeasedWorkers, working[w] # Free,
         working' = [working EXCEPT ![w] = Free]
  PROVE  /\ working[w].key \in LeasedKeys /\ StageShown[working[w].key] = "held"
         /\ BusyShown[working[w].key] = {w}
         /\ BusyShown' = [BusyShown EXCEPT ![working[w].key] = {}]
<1> DEFINE k == working[w].key
<1>1. k \in LeasedKeys /\ leased[k].st = "RUNNING"
    BY DEF HoldsAKey, HandlersHold
<1>2. StageShown[k] = "held"
    BY <1>1 DEF StageShown, StageOf, EndStatuses
<1>3. \A v \in LeasedWorkers : working[v].key = k <=> v = w
    BY DEF HandlersHold
<1>4. BusyShown[k] = {w}
    BY <1>1, <1>3 DEF BusyShown
<1>5. /\ \A v \in LeasedWorkers \ {w} : working'[v] = working[v]
      /\ working'[w].key \notin LeasedKeys
    BY DEF LeasedTypeOK, Free, LeasedKeys
<1>6. ASSUME NEW j \in LeasedKeys
      PROVE  {v \in LeasedWorkers : working'[v].key = j} =
               IF j = k THEN {} ELSE {v \in LeasedWorkers : working[v].key = j}
    BY <1>3, <1>5
<1>7. BusyShown' = [BusyShown EXCEPT ![k] = {}]
    BY <1>6 DEF BusyShown
<1> QED
    BY <1>1, <1>2, <1>4, <1>7

\* Every step of the queues is a step of the job service or changes nothing it shows.
LEMMA LeasedStepsServe ==
  ASSUME LeasesHold, LeasedTypeOK, HoldsAKey, HandlersHold, [LeasedNext]_leasedVars
  PROVE  [LeasedService!ServiceNext]_(LeasedService!serviceVars)
<1> USE DEF LeasedService!serviceVars
<1> DEFINE Served == [LeasedService!ServiceNext]_(LeasedService!serviceVars)
<1>0. leased \in [LeasedKeys -> RowsOfJobs] /\ working \in [LeasedWorkers -> Sessions]
    BY TypesNamed
<1>1. ASSUME NEW k \in LeasedKeys, EnqueueKey(k) PROVE Served
  <2> DEFINE row == [leased[k] EXCEPT !.st = "PENDING"]
  <2>1. row.st = "PENDING" /\ leased' = [leased EXCEPT ![k] = row] /\ BusyShown' = BusyShown
      BY <1>0, <1>1 DEF EnqueueKey, BusyShown, RowsOfJobs
  <2>2. StageShown' = [StageShown EXCEPT ![k] = StageOf(row.st)]
    <3> HIDE DEF row
    <3> QED
        BY <2>1, StageMoves
  <2>3. StageShown[k] = "absent" /\ StageOf(row.st) = "waiting"
      BY <1>1, <2>1 DEF EnqueueKey, StageShown, StageOf, EndStatuses
  <2>4. LeasedService!Submit(k)
      BY <2>1, <2>2, <2>3 DEF LeasedService!Submit
  <2> QED
      BY <2>4 DEF LeasedService!ServiceNext
<1>2. ASSUME NEW k \in LeasedKeys, LeaseLapses(k) PROVE Served
  <2>1. working' = working /\ \A j \in LeasedKeys : leased'[j].st = leased[j].st
      BY <1>0, <1>2 DEF LeaseLapses, RowsOfJobs
  <2> QED
      BY <2>1, StageStays DEF BusyShown
<1>3. ASSUME NEW w \in LeasedWorkers, NEW k \in LeasedKeys, ClaimNext(w, k) PROVE Served
  <2>1. /\ leased[k].st \in {"PENDING", "FAILED_RETRYABLE"}
        /\ leased' = [leased EXCEPT ![k] = ClaimedRow(k)] /\ ClaimedRow(k).st = "RUNNING"
        /\ working[w] = Free /\ working[w].key \notin LeasedKeys
        /\ working'[w].key = k /\ \A v \in LeasedWorkers \ {w} : working'[v] = working[v]
      BY <1>0, <1>3 DEF ClaimNext, ClaimedRow, Free, LeasedKeys
  <2>2. \A v \in LeasedWorkers : working[v].key # k
      BY <2>1, FreeNamesNoKey DEF HandlersHold
  <2>3. StageShown[k] = "waiting" /\ StageOf(ClaimedRow(k).st) = "held"
      BY <2>1 DEF StageShown, StageOf, EndStatuses
  <2>4. StageShown' = [StageShown EXCEPT ![k] = "held"]
    <3>1. StageShown' = [StageShown EXCEPT ![k] = StageOf(ClaimedRow(k).st)]
        BY <2>1, StageMoves
    <3> QED
        BY <2>3, <3>1
  <2>5. BusyShown[k] = {}
      BY <2>2 DEF BusyShown
  <2>6. ASSUME NEW j \in LeasedKeys
        PROVE  {v \in LeasedWorkers : working'[v].key = j} =
                 IF j = k THEN {w} ELSE {v \in LeasedWorkers : working[v].key = j}
      BY <2>1, <2>2
  <2>7. BusyShown' = [BusyShown EXCEPT ![k] = {w}]
      BY <2>6 DEF BusyShown
  <2>8. LeasedService!Take(k, w)
      BY <2>3, <2>4, <2>5, <2>7 DEF LeasedService!Take
  <2> QED
      BY <2>8 DEF LeasedService!ServiceNext
<1>4. ASSUME NEW w \in LeasedWorkers, NEW s \in {"COMPLETED", "FAILED_RETRYABLE", "FAILED_REVIEW"},
             EndAs(w, s)
      PROVE  Served
  <2> DEFINE k == working[w].key
  <2>1. /\ k \in LeasedKeys /\ StageShown[k] = "held" /\ BusyShown[k] = {w}
        /\ BusyShown' = [BusyShown EXCEPT ![k] = {}]
      BY <1>4, BusyEnds DEF EndAs
  <2>2. leased' = [leased EXCEPT ![k] = Ended(k, s)] /\ Ended(k, s).st = s
      BY <1>4, EndedRow DEF JobStatuses
  <2>3. StageShown' = [StageShown EXCEPT ![k] = StageOf(s)]
    <3> HIDE DEF k
    <3> QED
        BY <2>1, <2>2, StageMoves
  <2>4. StageOf(s) \in {"done", "waiting"}
      BY DEF StageOf, EndStatuses
  <2>5. LeasedService!Settle(k, w)
      BY <2>1, <2>3, <2>4 DEF LeasedService!Settle
  <2> QED
      BY <2>1, <2>5 DEF LeasedService!ServiceNext
<1>5. ASSUME NEW w \in LeasedWorkers, HolderDies(w) PROVE Served
  <2>1. leased' = leased /\ working' = [working EXCEPT ![w] = Free] /\ working[w] # Free
      BY <1>5 DEF HolderDies
  <2>2. LeasedService!Abandon(working[w].key, w) /\ working[w].key \in LeasedKeys
      BY <2>1, BusyEnds, StageStays DEF LeasedService!Abandon
  <2> QED
      BY <2>2 DEF LeasedService!ServiceNext
<1>6. CASE RecoverLapsed
  <2>1. working' = working
      BY <1>6 DEF RecoverLapsed
  <2>2. \A k \in LapsedRows : StageShown[k] = "held" /\ BusyShown[k] = {}
    <3> SUFFICES ASSUME NEW k \in LapsedRows PROVE StageShown[k] = "held" /\ BusyShown[k] = {}
        OBVIOUS
    <3>1. k \in LeasedKeys /\ leased[k].st = "RUNNING" /\ leased[k].lease = "lapsed"
        BY DEF LapsedRows
    <3>2. \A v \in LeasedWorkers : working[v].key # k
        BY <3>1, FreeNamesNoKey DEF HandlersHold
    <3> QED
        BY <3>1, <3>2 DEF StageShown, BusyShown, StageOf, EndStatuses
  <2>3. ASSUME NEW k \in LeasedKeys
        PROVE  StageOf(leased'[k].st) = IF k \in LapsedRows THEN "waiting" ELSE StageOf(leased[k].st)
    <3>1. CASE k \in LapsedRows
      <4>1. leased'[k].st = "FAILED_RETRYABLE"
          BY <1>0, <1>6, <3>1 DEF RecoverLapsed, RowsOfJobs
      <4> QED
          BY <3>1, <4>1 DEF StageOf, EndStatuses
    <3>2. CASE k \notin LapsedRows
        BY <1>6, <3>2 DEF RecoverLapsed
    <3> QED
        BY <3>1, <3>2
  <2>4. StageShown' = [k \in LeasedKeys |-> IF k \in LapsedRows THEN "waiting" ELSE StageShown[k]]
      BY <2>3 DEF StageShown
  <2>5. LapsedRows \in SUBSET {k \in LeasedKeys : StageShown[k] = "held" /\ BusyShown[k] = {}}
      BY <2>2 DEF LapsedRows
  <2>6. BusyShown' = BusyShown
      BY <2>1 DEF BusyShown
  <2>7. LeasedService!Reclaim
      BY <2>4, <2>5, <2>6 DEF LeasedService!Reclaim
  <2> QED
      BY <2>7 DEF LeasedService!ServiceNext
<1>7. CASE UNCHANGED leasedVars
    BY <1>7 DEF leasedVars, StageShown, BusyShown
<1> QED
    BY <1>1, <1>2, <1>3, <1>4, <1>5, <1>6, <1>7 DEF LeasedNext, MarkCompleted, LeasedFails

\* While no handler outlives its lease, the licensing and the document queue implement the job
\* service: one worker at a time holds a job, an ended one is not touched again, an abandoned
\* one is offered again (claim_next, mark_completed, record_failure, recover_expired_leases).
THEOREM LeasedQueuesServe == LeasesHold => (LeasedSpec => LeasedImplements)
<1> SUFFICES ASSUME LeasesHold PROVE LeasedSpec => LeasedImplements
    OBVIOUS
<1>1. LeasedInit => LeasedService!ServiceInit
    BY DEF LeasedInit, LeasedService!ServiceInit, StageShown, BusyShown, StageOf, EndStatuses,
           Free, LeasedKeys
<1>2. LeasedTypeOK /\ HoldsAKey /\ HandlersHold /\ [LeasedNext]_leasedVars
        => [LeasedService!ServiceNext]_(LeasedService!serviceVars)
    BY LeasedStepsServe
<1> QED
    BY <1>1, <1>2, NoRowIsStranded, OneHandler, PTL DEF LeasedSpec, LeasedImplements, LeasedService!ServiceSpec
=============================================================================
