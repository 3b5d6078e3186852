----------------------------- MODULE JobService -----------------------------
(***************************************************************************)
(* What every durable queue of the application promises its handlers,      *)
(* while leases outlive the handlers that hold them: a submitted job is    *)
(* worked on by one worker at a time, a job whose worker died goes back to *)
(* the queue, and a finished job is never touched again.  GraphJobQueue    *)
(* and LeasedJobs are shown to implement it.                               *)
(***************************************************************************)
CONSTANTS ServiceJobs, ServiceWorkers

VARIABLES
  stage,   \* where a job stands
  busy     \* the workers whose handlers are running it

serviceVars == <<stage, busy>>

Stages == {"absent", "waiting", "held", "done"}

ServiceInit ==
  /\ stage = [j \in ServiceJobs |-> "absent"]
  /\ busy = [j \in ServiceJobs |-> {}]

Submit(j) ==
  /\ stage[j] = "absent"
  /\ stage' = [stage EXCEPT ![j] = "waiting"]
  /\ UNCHANGED busy

Take(j, w) ==
  /\ stage[j] = "waiting" /\ busy[j] = {}
  /\ stage' = [stage EXCEPT ![j] = "held"]
  /\ busy' = [busy EXCEPT ![j] = {w}]

\* The handler ended: the job is finished, or waits for another attempt.
Settle(j, w) ==
  /\ stage[j] = "held" /\ busy[j] = {w}
  /\ \E s \in {"done", "waiting"} : stage' = [stage EXCEPT ![j] = s]
  /\ busy' = [busy EXCEPT ![j] = {}]

\* The worker died with the job; the row still says it is held.
Abandon(j, w) ==
  /\ stage[j] = "held" /\ busy[j] = {w}
  /\ busy' = [busy EXCEPT ![j] = {}]
  /\ UNCHANGED stage

\* One statement returns any number of abandoned jobs to the queue.
Reclaim ==
  /\ \E lost \in SUBSET {j \in ServiceJobs : stage[j] = "held" /\ busy[j] = {}} :
       stage' = [j \in ServiceJobs |-> IF j \in lost THEN "waiting" ELSE stage[j]]
  /\ UNCHANGED busy

ServiceNext ==
  \/ \E j \in ServiceJobs :
       \/ Submit(j)
       \/ \E w \in ServiceWorkers : Take(j, w) \/ Settle(j, w) \/ Abandon(j, w)
  \/ Reclaim

ServiceSpec == ServiceInit /\ [][ServiceNext]_serviceVars
=============================================================================
