------------------------- MODULE GraphSubscriptions -------------------------
(***************************************************************************)
(* The Graph change-notification subscription of one folder:               *)
(* app/services/graph_subscriptions.py (ensure_subscription, _create,      *)
(* _renew, recreate, reconcile), the lifecycle events and the creation     *)
(* race of app/services/graph_notifications.py, the maintenance of         *)
(* app/workers/scheduling.py and the jobs it queues.                       *)
(*                                                                         *)
(* A row of graph_subscriptions is identified with its client state, which *)
(* only Graph knows in clear: remote[g].row is the row whose client state  *)
(* the remote subscription g carries.                                      *)
(***************************************************************************)
EXTENDS Naturals, Sequences, FiniteSets

CONSTANTS
  Keepers,        \* processes that run ensure_subscription
  SubMax,         \* graph_job_max_attempts
  MaxSubs,        \* bound: rows and remote subscriptions
  MaxSubFaults    \* bound: failed requests, crashes, removals by Graph, reconciliations

ASSUME SubAssumption ==
  SubMax \in Nat \ {0} /\ MaxSubs \in Nat /\ MaxSubFaults \in Nat

VARIABLES
  subs,        \* rows of graph_subscriptions
  remote,      \* subscriptions Graph was asked to create
  ejob,        \* the active maintenance job of the folder, by kind
  kw,          \* worker sessions
  adopted,     \* a reconciliation adopted or expired a row (history)
  subFaults

subVars == <<subs, remote, ejob, kw, adopted, subFaults>>

ActiveSub == {"CREATING", "ACTIVE", "RENEWAL_REQUIRED", "REAUTHORIZATION_REQUIRED"}
SubStatuses == ActiveSub \cup {"ERROR", "REMOVED", "EXPIRED"}
\* life: enough of the lifetime is left; a CREATING row is stale when it is not.
SubRows == [status : SubStatuses, gid : 0..MaxSubs, life : BOOLEAN]
RemoteSubs == [row : 1..MaxSubs, alive : BOOLEAN]
\* Jobs are coalesced by type and folder: the scheduler's ENSURE_SUBSCRIPTION and the
\* RENEW_/RECREATE_SUBSCRIPTION of a lifecycle event run the same handler side by side.
EnsureKinds == {"scheduled", "lifecycle"}
EnsureJobs == [status : {"NONE", "PENDING", "RUNNING"}, attempts : 0..SubMax]
NoEnsureJob == [status |-> "NONE", attempts |-> 0]
NewEnsureJob == [status |-> "PENDING", attempts |-> 0]
IdleKeeper == [pc |-> "idle", job |-> "scheduled", row |-> 0, gid |-> 0]

ActiveRows(ss) == {i \in DOMAIN ss : ss[i].status \in ActiveSub}

\* Rows and sessions keep their types; uq_graph_subscriptions_active_folder and
\* uq_graph_subscriptions_graph_id hold.
SubTypeOK ==
  /\ subs \in Seq(SubRows) /\ Len(subs) <= MaxSubs
  /\ remote \in Seq(RemoteSubs) /\ Len(remote) <= MaxSubs
  /\ ejob \in [EnsureKinds -> EnsureJobs]
  /\ kw \in [Keepers -> [pc : {"idle", "read", "insert", "post", "record", "renew", "done",
                               "failed"}, job : EnsureKinds,
                         row : 0..MaxSubs, gid : 0..MaxSubs]]
  /\ Cardinality(ActiveRows(subs)) <= 1
  /\ \A i, j \in DOMAIN subs : (subs[i].gid = subs[j].gid /\ subs[i].gid # 0) => i = j
  /\ adopted \in BOOLEAN /\ subFaults \in 0..MaxSubFaults

SubInit ==
  /\ subs = <<>> /\ remote = <<>>
  /\ ejob = [k \in EnsureKinds |-> NoEnsureJob]
  /\ kw = [w \in Keepers |-> IdleKeeper] /\ adopted = FALSE /\ subFaults = 0

WithEnsureJob(k) == [ejob EXCEPT ![k] = IF @.status = "NONE" THEN NewEnsureJob ELSE @]
SubFault == subFaults < MaxSubFaults /\ subFaults' = subFaults + 1

\* A write of status st that the partial unique index accepts; others raise IntegrityError.
FitsSlot(i, st) == st \in ActiveSub => ActiveRows(subs) \subseteq {i}
\* A write of the remote id g that the unique index on it accepts.
FitsId(i, g) == \A j \in DOMAIN subs : subs[j].gid = g => j = i
SetSub(i, st) == [subs EXCEPT ![i].status = st]

(***************************************************************************)
(* ensure_subscription                                                     *)
(***************************************************************************)

EnsureClaim(w, k) ==
  /\ kw[w].pc = "idle" /\ ejob[k].status = "PENDING"
  /\ ejob' = [ejob EXCEPT ![k] = [status |-> "RUNNING", attempts |-> @.attempts + 1]]
  /\ kw' = [kw EXCEPT ![w].pc = "read", ![w].job = k]
  /\ UNCHANGED <<subs, remote, adopted, subFaults>>

\* What the row found asks for, with the commit that may go with it.
EnsureReads(w) ==
  /\ kw[w].pc = "read"
  /\ \/ /\ ActiveRows(subs) = {}
        /\ kw' = [kw EXCEPT ![w].pc = "insert"] /\ UNCHANGED subs
     \/ \E i \in ActiveRows(subs) :
          LET stale == subs[i].status = "CREATING" /\ ~subs[i].life
              due == \/ subs[i].status \in {"RENEWAL_REQUIRED", "REAUTHORIZATION_REQUIRED"}
                     \/ subs[i].status = "ACTIVE" /\ ~subs[i].life IN
          \/ /\ stale
             /\ subs' = SetSub(i, "ERROR")
             /\ kw' = [kw EXCEPT ![w].pc = "insert"]
          \/ /\ due /\ subs[i].gid = 0
             /\ subs' = SetSub(i, "REMOVED")
             /\ kw' = [kw EXCEPT ![w].pc = "insert"]
          \/ /\ due /\ subs[i].gid # 0
             /\ kw' = [kw EXCEPT ![w].pc = "renew", ![w].row = i, ![w].gid = subs[i].gid]
             /\ UNCHANGED subs
          \/ \* A live row, or a creation already in flight: nothing to do.
             /\ ~stale /\ ~due
             /\ kw' = [kw EXCEPT ![w].pc = "done"] /\ UNCHANGED subs
  /\ UNCHANGED <<remote, ejob, adopted, subFaults>>

EnsureEnds(w) ==
  /\ kw[w].pc = "done"
  /\ kw' = [kw EXCEPT ![w] = IdleKeeper]
  /\ ejob' = [ejob EXCEPT ![kw[w].job] = NoEnsureJob]
  /\ UNCHANGED <<subs, remote, adopted, subFaults>>

\* _create: the row is committed before Graph is called.
CreateRow(w) ==
  /\ kw[w].pc = "insert" /\ Len(subs) < MaxSubs
  /\ IF ActiveRows(subs) = {}
     THEN /\ subs' = Append(subs, [status |-> "CREATING", gid |-> 0, life |-> TRUE])
          /\ kw' = [kw EXCEPT ![w].pc = "post", ![w].row = Len(subs) + 1]
     ELSE subs' = subs /\ kw' = [kw EXCEPT ![w].pc = "failed"]
  /\ UNCHANGED <<remote, ejob, adopted, subFaults>>

\* The request that creates the subscription; it may fail after Graph has applied it.
PostSubscription(w) ==
  /\ kw[w].pc = "post" /\ Len(remote) < MaxSubs
  /\ \/ /\ remote' = Append(remote, [row |-> kw[w].row, alive |-> TRUE])
        /\ kw' = [kw EXCEPT ![w].pc = "record", ![w].gid = Len(remote) + 1]
        /\ UNCHANGED <<subs, subFaults>>
     \/ /\ SubFault
        /\ remote' \in {remote, Append(remote, [row |-> kw[w].row, alive |-> TRUE])}
        /\ subs' = SetSub(kw[w].row, "ERROR")
        /\ kw' = [kw EXCEPT ![w].pc = "failed"]
  /\ UNCHANGED <<ejob, adopted>>

\* The session's own copy of the row has no id, whatever a notification stored meanwhile.
RecordSubscription(w) ==
  LET i == kw[w].row IN
  /\ kw[w].pc = "record"
  /\ IF FitsSlot(i, "ACTIVE") /\ FitsId(i, kw[w].gid)
     THEN /\ subs' = [subs EXCEPT ![i] = [status |-> "ACTIVE", gid |-> kw[w].gid, life |-> TRUE]]
          /\ kw' = [kw EXCEPT ![w].pc = "done"]
     ELSE subs' = subs /\ kw' = [kw EXCEPT ![w].pc = "failed"]
  /\ UNCHANGED <<remote, ejob, adopted, subFaults>>

\* Mutant: the subscription is taken for renewed although Graph does not know it.
RenewBelieves(w) ==
  LET i == kw[w].row IN
  /\ kw[w].pc = "renew"
  /\ subs' = IF FitsSlot(i, "ACTIVE")
             THEN [subs EXCEPT ![i].status = "ACTIVE", ![i].life = TRUE] ELSE subs
  /\ kw' = [kw EXCEPT ![w].pc = "done"]
  /\ UNCHANGED <<remote, ejob, adopted, subFaults>>

\* _renew: 404 replaces the row, another error leaves RENEWAL_REQUIRED.
Renew(w) ==
  LET i == kw[w].row IN
  /\ kw[w].pc = "renew"
  /\ \/ /\ remote[kw[w].gid].alive
        /\ IF FitsSlot(i, "ACTIVE")
           THEN /\ subs' = [subs EXCEPT ![i].status = "ACTIVE", ![i].life = TRUE]
                /\ kw' = [kw EXCEPT ![w].pc = "done"]
           ELSE subs' = subs /\ kw' = [kw EXCEPT ![w].pc = "failed"]
        /\ UNCHANGED subFaults
     \/ /\ ~remote[kw[w].gid].alive
        /\ subs' = SetSub(i, "REMOVED")
        /\ kw' = [kw EXCEPT ![w].pc = "insert"]
        /\ UNCHANGED subFaults
     \/ /\ SubFault
        /\ subs' = IF FitsSlot(i, "RENEWAL_REQUIRED") THEN SetSub(i, "RENEWAL_REQUIRED") ELSE subs
        /\ kw' = [kw EXCEPT ![w].pc = "failed"]
  /\ UNCHANGED <<remote, ejob, adopted>>

\* record_failure of the job.
EnsureFails(w) ==
  /\ kw[w].pc = "failed"
  /\ kw' = [kw EXCEPT ![w] = IdleKeeper]
  /\ ejob' = [ejob EXCEPT ![kw[w].job] =
                 IF @.attempts < SubMax THEN [@ EXCEPT !.status = "PENDING"] ELSE NoEnsureJob]
  /\ UNCHANGED <<subs, remote, adopted, subFaults>>

\* The process dies; the job is recovered when its lease lapses.
KeeperDies(w) ==
  /\ kw[w].pc \notin {"idle", "failed"} /\ SubFault
  /\ kw' = [kw EXCEPT ![w].pc = "failed"]
  /\ UNCHANGED <<subs, remote, ejob, adopted>>

\* Time passes: a CREATING row becomes stale, an ACTIVE one enters its renewal window.
SubAges(i) ==
  /\ subs[i].status \in {"CREATING", "ACTIVE"} /\ subs[i].life
  /\ subs' = [subs EXCEPT ![i].life = FALSE]
  /\ UNCHANGED <<remote, ejob, kw, adopted, subFaults>>

\* POST /mailboxes/{id}/subscriptions/ensure, which alone asks for a first subscription.
EnsureMailboxSubscriptions ==
  /\ ejob["scheduled"].status = "NONE"
  /\ ejob' = WithEnsureJob("scheduled")
  /\ UNCHANGED <<subs, remote, kw, adopted, subFaults>>

\* run_scheduler_cycle, part 1: rows outside the active statuses are not looked at.
ScheduleEnsure ==
  /\ \E i \in ActiveRows(subs) : subs[i].status # "ACTIVE" \/ ~subs[i].life
  /\ ejob["scheduled"].status = "NONE"
  /\ ejob' = WithEnsureJob("scheduled")
  /\ UNCHANGED <<subs, remote, kw, adopted, subFaults>>

(***************************************************************************)
(* Graph and its notifications                                             *)
(***************************************************************************)

\* Graph drops a subscription, with or without saying so.
GraphDrops(g) ==
  /\ remote[g].alive /\ SubFault
  /\ remote' = [remote EXCEPT ![g].alive = FALSE]
  /\ \/ UNCHANGED <<subs, ejob>>
     \/ \E i \in DOMAIN subs :
          /\ subs[i].gid = g
          /\ subs' = SetSub(i, "REMOVED") /\ ejob' = WithEnsureJob("lifecycle")
  /\ UNCHANGED <<kw, adopted>>

\* _handle_lifecycle, reauthorizationRequired; a row that has been replaced may be named,
\* and then the index refuses the whole request.
Reauthorize(i) ==
  /\ subs[i].gid # 0 /\ FitsSlot(i, "REAUTHORIZATION_REQUIRED")
  /\ remote[subs[i].gid].alive /\ remote[subs[i].gid].row = i /\ SubFault
  /\ subs' = SetSub(i, "REAUTHORIZATION_REQUIRED") /\ ejob' = WithEnsureJob("lifecycle")
  /\ UNCHANGED <<remote, kw, adopted>>

\* _locate_subscription: a notification that overtakes the answer of the creation is
\* matched by its client state.
Locate(g) ==
  /\ remote[g].alive /\ \A i \in DOMAIN subs : subs[i].gid # g
  /\ \E i \in {remote[g].row} : /\ subs[i].status = "CREATING" /\ subs[i].gid = 0
                                /\ subs' = [subs EXCEPT ![i].gid = g]
  /\ UNCHANGED <<remote, ejob, kw, adopted, subFaults>>

\* reconcile, not a dry run: adopts by resource, expires what Graph does not list.
ReconcileSubscriptions ==
  /\ SubFault
  /\ \/ \E g \in DOMAIN remote, i \in ActiveRows(subs) :
          /\ remote[g].alive /\ subs[i].gid = 0 /\ \A j \in DOMAIN subs : subs[j].gid # g
          /\ subs' = [subs EXCEPT ![i].gid = g, ![i].status = "ACTIVE"]
     \/ \E i \in ActiveRows(subs) :
          /\ subs[i].gid # 0 /\ ~remote[subs[i].gid].alive
          /\ subs' = SetSub(i, "EXPIRED")
  /\ adopted' = TRUE
  /\ UNCHANGED <<remote, ejob, kw>>

(***************************************************************************)
(* Specification                                                           *)
(***************************************************************************)

KeeperStep(w) ==
  \/ \E k \in EnsureKinds : EnsureClaim(w, k)
  \/ EnsureReads(w) \/ EnsureEnds(w) \/ CreateRow(w) \/ PostSubscription(w)
  \/ RecordSubscription(w) \/ Renew(w) \/ EnsureFails(w)

SubNext ==
  \/ \E w \in Keepers : KeeperStep(w) \/ KeeperDies(w)
  \/ \E i \in DOMAIN subs : SubAges(i) \/ Reauthorize(i)
  \/ \E g \in DOMAIN remote : GraphDrops(g) \/ Locate(g)
  \/ EnsureMailboxSubscriptions \/ ScheduleEnsure \/ ReconcileSubscriptions

SubFairness ==
  /\ WF_subVars(ScheduleEnsure) /\ WF_subVars(\E i \in DOMAIN subs : SubAges(i))
  /\ \A w \in Keepers : WF_subVars(KeeperStep(w))

SubSpec == SubInit /\ [][SubNext]_subVars /\ SubFairness

(***************************************************************************)
(* Properties                                                              *)
(***************************************************************************)

\* Unless a reconciliation adopted it, the remote subscription a row names carries that
\* row's client state: its notifications are not refused as INVALID_CLIENT_STATE.
OwnClientState ==
  ~adopted => \A i \in DOMAIN subs : subs[i].gid # 0 => remote[subs[i].gid].row = i

\* Graph keeps notifying: once a subscription was asked for, unless a reconciliation expired the row, a removal, a lost answer
\* or a crash is always followed by a live ACTIVE subscription again, if only when the
\* renewal window of a row that wrongly looks alive is reached.
SubscriptionHeals ==
  [](~adopted) =>
    (subs # <<>> ~> \E i \in DOMAIN subs : /\ subs[i].status = "ACTIVE" /\ subs[i].gid # 0
                                            /\ remote[subs[i].gid].alive)

\* The invariant of the subscriptions: one live row per folder, which its remote one answers to.
SubInv == SubTypeOK /\ OwnClientState
=============================================================================
