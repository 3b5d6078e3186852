----------------------------- MODULE Deadlines -----------------------------
(***************************************************************************)
(* The deadline engine of one obligation: rule resolution, recurrence and  *)
(* business-day arithmetic (app/deadlines), what the sweep materialises,   *)
(* refreshes and escalates (app/services/deadline_service.py), and the two *)
(* scheduled jobs that run it (app/workers/licensing_jobs.py).             *)
(*                                                                         *)
(* A date is a day number, a year 365 days (month lengths and the clamping *)
(* to a month's last day are left out), day 0 a Monday. The clock jumps    *)
(* from one day of DayStops to a later one, as it does for a worker that   *)
(* was down.                                                               *)
(***************************************************************************)
EXTENDS Integers, Sequences, FiniteSets, SequencesExt, FiniteSetsExt

CONSTANTS
  DayStops,       \* the days on which something happens
  Holidays,       \* days in the business calendar's holidays
  Policies,       \* the ACTIVE rules
  MoveTo,         \* the dates a manager may move a deadline to
  MaxRows,        \* bound: rows materialised before overrides stop
  MaxMoves        \* bound: overrides

\* Dates are day numbers, and one day is the first.
ASSUME CalendarAssumption ==
  DayStops \subseteq Int /\ MoveTo \subseteq Int /\ \E d \in DayStops : \A e \in DayStops : d <= e

YearDays == 365
Horizon == 540
DefaultLead == 30
MaxOccurrences == 6

RecurrenceTypes ==
  {"FIXED_ANNUAL_DATE", "ISSUE_ANNIVERSARY", "EXPIRATION_ANNIVERSARY", "REGULATOR_SUPPLIED",
   "NMLS_ANNUAL_RENEWAL_WINDOW", "BOND_EXPIRATION", "RELATIVE_TO_CASE_EVENT", "MANUAL_DATE"}
AdjustmentPolicies ==
  {"NONE", "NEXT_BUSINESS_DAY", "PREVIOUS_BUSINESS_DAY", "JURISDICTION_SPECIFIC", "MANUAL_REVIEW"}
StatutoryType == "STATUTORY_DUE"
OpenDeadline == {"SCHEDULED", "APPROACHING", "DUE_TODAY", "OVERDUE"}
DeadlineStatuses == OpenDeadline \cup {"COMPLETED", "WAIVED", "SUPERSEDED", "CANCELLED"}
LevelRank == [none |-> 0, OWNER |-> 1, BACKUP_OWNER |-> 2, REVIEWER |-> 3, MANAGER |-> 4,
              COUNSEL |-> 5, EXECUTIVE |-> 6]
Rank(level) == LevelRank[level]
DutyStatuses == {"NONE", "PLANNED", "ACTIVE", "IN_CASE", "SATISFIED"}
-----------------------------------------------------------------------------
(* app/deadlines/business_days.py *)
IsBusinessDay(d) == d % 7 \notin {5, 6} /\ d \notin Holidays
NextBusinessDay(d) == CHOOSE b \in d..(d + 30) :
  IsBusinessDay(b) /\ \A x \in d..(b - 1) : ~IsBusinessDay(x)
PreviousBusinessDay(d) == CHOOSE b \in (d - 30)..d :
  IsBusinessDay(b) /\ \A x \in (b + 1)..d : ~IsBusinessDay(x)

ApplyAdjustment(d, adjust) ==
  IF IsBusinessDay(d) THEN d
  ELSE CASE adjust = "NEXT_BUSINESS_DAY" -> NextBusinessDay(d + 1)
         [] adjust = "PREVIOUS_BUSINESS_DAY" -> PreviousBusinessDay(d - 1)
         [] OTHER -> d     \* NONE; MANUAL_REVIEW and JURISDICTION_SPECIFIC only leave a note

(* app/deadlines/recurrence.py; nothing is -1 *)
Nothing == -1
NextAnnual(anchor, after, inclusive) ==
  LET d == after + ((anchor - after) % YearDays) IN IF d > after \/ inclusive THEN d ELSE d + YearDays
OnOrAfter(d, after, inclusive) == d > after \/ (d = after /\ inclusive)

NextOccurrence(p, after, inclusive) ==
  CASE p.recurs \in {"FIXED_ANNUAL_DATE", "NMLS_ANNUAL_RENEWAL_WINDOW", "ISSUE_ANNIVERSARY"} ->
         NextAnnual(p.anchor, after, inclusive)
    [] p.recurs = "EXPIRATION_ANNIVERSARY" ->
         IF OnOrAfter(p.anchor, after, inclusive) THEN p.anchor ELSE p.anchor + YearDays
    [] p.recurs = "RELATIVE_TO_CASE_EVENT" -> p.anchor
    [] OTHER -> IF OnOrAfter(p.anchor, after, inclusive) THEN p.anchor ELSE Nothing

SingleShot == {"REGULATOR_SUPPLIED", "BOND_EXPIRATION", "MANUAL_DATE", "RELATIVE_TO_CASE_EVENT"}
\* expand: each date is looked for after the one before it, until the horizon ends.
Occurrences(p, start) ==
  LET further(found) ==
        IF found # <<>> /\ p.recurs \in SingleShot THEN found
        ELSE LET d == IF found = <<>> THEN NextOccurrence(p, start, TRUE)
                      ELSE NextOccurrence(p, found[Len(found)], FALSE)
             IN IF d = Nothing \/ d > start + Horizon THEN found ELSE Append(found, d)
  IN FoldLeft(LAMBDA found, i : further(found), <<>>, [i \in 1..MaxOccurrences |-> i])

(* app/deadlines/rules.py *)
Offset == [INTERNAL_START |-> 30, VENDOR_OUTREACH |-> 28, INFORMATION_DUE |-> 21,
           DOCUMENT_PACKET_DUE |-> 16, FORM_COMPLETION_DUE |-> 10, SIGNATURE_DUE |-> 6,
           SUBMISSION_DUE |-> 3]
Milestones == DOMAIN Offset

\* Python's round of n / d: to the nearest, a tie to the even neighbour.
RoundHalfEven(n, d) ==
  IF 2 * (n % d) > d \/ (2 * (n % d) = d /\ (n \div d) % 2 = 1) THEN n \div d + 1 ELSE n \div d
ScaledRaw(m, lead) == RoundHalfEven(Offset[m] * lead, Offset["INTERNAL_START"])
\* The default ladder scaled to the lead time; a rule's own offsets are taken as they are.
ScaledOffset(m, lead) ==
  IF m = "INTERNAL_START" THEN lead
  ELSE LET v == ScaledRaw(m, lead) IN Max({1, Min({v, lead})})

Offsets(p) == IF p.lead > 0 THEN [m \in p.milestones |-> ScaledOffset(m, p.lead)] ELSE <<>>

\* deadline_rules: the recurrence's anchor date is the licence's, the bond's or the rule's own.
IsPolicy(p) ==
  /\ p.recurs \in RecurrenceTypes /\ p.adjust \in AdjustmentPolicies
  /\ p.anchor \in Nat /\ p.lead \in Nat /\ p.milestones \subseteq Milestones
  /\ p.from \in Nat /\ p.to \in Nat /\ p.specificity \in 0..2 /\ p.priority \in Nat
ASSUME PolicyAssumption == \A p \in Policies : IsPolicy(p)

Effective(p, day) == p.from <= day /\ day <= p.to
\* resolve_policy: the most specific rule in force, then the lowest priority.
Better(p, q) == p.specificity > q.specificity
                \/ (p.specificity = q.specificity /\ p.priority <= q.priority)
ResolvePolicy(day) ==
  LET inForce == {p \in Policies : Effective(p, day)} IN
  IF inForce = {} THEN {} ELSE {CHOOSE p \in inForce : \A q \in inForce : Better(p, q)}

(* app/deadlines/calculator.py: the plan as a sequence of keys (type, date, rule) *)
Milestone(p, statutory, m) ==
  LET t == statutory - Offsets(p)[m] IN IF IsBusinessDay(t) THEN t ELSE NextBusinessDay(t)
\* What plan_deadlines lists for each occurrence, the occurrence's number kept.
Planned(p, day) ==
  LET occ == Occurrences(p, day)
      due(i) == ApplyAdjustment(occ[i], p.adjust)
  IN { [n |-> i, type |-> StatutoryType, due |-> due(i), rule |-> p.rule] : i \in DOMAIN occ }
     \cup { [n |-> x[1], type |-> x[2], due |-> Milestone(p, due(x[1]), x[2]), rule |-> p.rule] :
              x \in (DOMAIN occ) \X (DOMAIN Offsets(p)) }
Plan == [p \in Policies |-> [day \in DayStops |-> Planned(p, day)]]
KeyOf(x) == [type |-> x.type, due |-> x.due, rule |-> x.rule]
NoKey == [type |-> "-", due |-> Nothing, rule |-> "-"]
\* A plan is a finite list of dates: whatever the holidays, a business day follows within 30 days.
ASSUME FinitePlans ==
  \A p \in Policies, day \in DayStops : IsFiniteSet(Plan[p][day]) /\ \A x \in Plan[p][day] : x.due \in Int
\* No plan lists a key twice: the second row would break the unique index and take the whole
\* job with it, the refresh included (the README says which rules do that).
ASSUME DistinctPlans ==
  \A p \in Policies, day \in DayStops : \A x, y \in Plan[p][day] : KeyOf(x) = KeyOf(y) => x = y

ClassifyStatus(due, day, evening) ==
  CASE due < day \/ (due = day /\ evening) -> "OVERDUE"
    [] due = day /\ ~evening -> "DUE_TODAY"
    [] due > day /\ due - day <= 30 -> "APPROACHING"
    [] OTHER -> "SCHEDULED"

(* app/deadlines/escalation.py *)
UpcomingLadder(w) == CASE w \in {120, 90, 60} -> "OWNER" [] w \in {30, 14} -> "REVIEWER"
                       [] w \in {7, 3, 0} -> "MANAGER"
OverdueLadder(w) == CASE w \in {0, 3} -> "MANAGER" [] w = 7 -> "COUNSEL" [] w = 14 -> "EXECUTIVE"
\* The window a deadline is in on a day: kind, days, level; none before the first window.
Window(due, day) ==
  IF due < day
  THEN LET w == Max({t \in {0, 3, 7, 14} : day - due >= t})
       IN [kind |-> "overdue", days |-> w, level |-> OverdueLadder(w)]
  ELSE LET entered == {w \in {120, 90, 60, 30, 14, 7, 3, 0} : due - day <= w} IN
       IF entered = {} THEN [kind |-> "outside", days |-> 0, level |-> "none"]
       ELSE [kind |-> "upcoming", days |-> Min(entered), level |-> UpcomingLadder(Min(entered))]
\* resolve_recipient with an owner and no manager: the scheduled job and the endpoint name none.
HasRecipient(level) == level \in {"OWNER", "BACKUP_OWNER", "REVIEWER", "MANAGER"}
-----------------------------------------------------------------------------
VARIABLES
  today,
  dstatus,    \* status of the obligation
  rows,       \* compliance_deadlines, in the order they were created
  refresh,    \* the statuses a refresh has computed and not yet written
  moves       \* overrides so far

deadlineVars == <<today, dstatus, rows, refresh, moves>>

Keys == [type : {StatutoryType, "-"} \cup Milestones, due : Int, rule : {"-"} \cup {p.rule : p \in Policies}]
DeadlineRows ==
  [type : {StatutoryType} \cup Milestones, due : Int, key : Keys, status : DeadlineStatuses,
   level : DOMAIN LevelRank,
   pages : Seq([kind : {"overdue", "upcoming"}, days : Nat, level : DOMAIN LevelRank])]
Known == {rows[i].key : i \in DOMAIN rows} \ {NoKey}
NotRefreshing == <<>>

\* Rows keep their types, and a key names one row.
DeadlineTypeOK ==
  /\ today \in DayStops /\ dstatus \in DutyStatuses
  /\ rows \in Seq(DeadlineRows)
  /\ \A i, j \in DOMAIN rows : rows[i].key = rows[j].key /\ i # j => rows[i].key = NoKey
  /\ DOMAIN refresh \subseteq DOMAIN rows

DeadlineInit ==
  /\ today = Min(DayStops) /\ dstatus = "NONE" /\ rows = <<>>
  /\ refresh = NotRefreshing /\ moves = 0

CreateObligation ==
  /\ dstatus = "NONE" /\ dstatus' = "PLANNED"
  /\ UNCHANGED <<today, rows, refresh, moves>>

Tick ==
  /\ today' \in {d \in DayStops : d > today}
  /\ UNCHANGED <<dstatus, rows, refresh, moves>>
-----------------------------------------------------------------------------
Row(k, evening) ==
  [type |-> k.type, due |-> k.due, key |-> k, level |-> "none", pages |-> <<>>,
   status |-> ClassifyStatus(k.due, today, evening)]

Missing(p) == {KeyOf(x) : x \in Plan[p][today]} \ Known
Appended(new, evening) ==
  LET keys == SetToSeq(new) IN rows \o [i \in DOMAIN keys |-> Row(keys[i], evening)]

\* materialize_for_obligation: what the plan has and the table has not, in one transaction.
Materialized(p, evening) ==
  /\ Len(rows) + Cardinality(Missing(p)) <= MaxRows
  /\ rows' = Appended(Missing(p), evening)

SweepStatus(p) ==
  IF dstatus = "PLANNED" /\ Plan[p][today] # {} THEN "ACTIVE" ELSE dstatus

\* MATERIALIZE_DEADLINES and POST /deadlines/materialize.
Materialize ==
  /\ dstatus \in {"PLANNED", "ACTIVE"}
  /\ \E p \in ResolvePolicy(today), evening \in BOOLEAN :
       Materialized(p, evening) /\ dstatus' = SweepStatus(p)
  /\ UNCHANGED <<today, refresh, moves>>

\* CHECK_LICENSE_RENEWALS: the same sweep, and a case if it was the one that created deadlines.
CheckLicenseRenewals ==
  /\ dstatus \in {"PLANNED", "ACTIVE"}
  /\ \E p \in ResolvePolicy(today), evening \in BOOLEAN :
       /\ Materialized(p, evening)
       /\ dstatus' = IF Missing(p) # {} THEN "IN_CASE" ELSE SweepStatus(p)
  /\ UNCHANGED <<today, refresh, moves>>

\* open_case by a person or by CREATE_COMPLIANCE_CASE; the case's completion satisfies the duty.
OpenCase ==
  /\ dstatus \in {"PLANNED", "ACTIVE"} /\ dstatus' = "IN_CASE"
  /\ UNCHANGED <<today, rows, refresh, moves>>

DutySatisfied ==
  /\ dstatus = "IN_CASE" /\ dstatus' = "SATISFIED"
  /\ UNCHANGED <<today, rows, refresh, moves>>
-----------------------------------------------------------------------------
OpenRows == {i \in DOMAIN rows : rows[i].status \in OpenDeadline}
RefreshableOnTime == {i \in OpenRows : rows[i].due >= today}
\* refresh_statuses reads the open rows, computes, and commits what differs later on. Only the
\* job calls it, after its sweep.
Refreshable == OpenRows

RefreshReads ==
  /\ refresh = NotRefreshing
  /\ \E evening \in BOOLEAN :
       LET fresh(i) == ClassifyStatus(rows[i].due, today, evening)
           differ == {i \in Refreshable : fresh(i) # rows[i].status}
       IN differ # {} /\ refresh' = [i \in differ |-> fresh(i)]
  /\ UNCHANGED <<today, dstatus, rows, moves>>

RefreshWrites ==
  /\ refresh # NotRefreshing /\ refresh' = NotRefreshing
  /\ rows' = [i \in DOMAIN rows |->
                IF i \in DOMAIN refresh THEN [rows[i] EXCEPT !.status = refresh[i]] ELSE rows[i]]
  /\ UNCHANGED <<today, dstatus, moves>>

\* evaluate_escalation: a level above the last one, somebody to tell, and a fresh key.
Pageable(i) ==
  LET w == Window(rows[i].due, today) IN
  /\ rows[i].status \in OpenDeadline
  /\ Rank(w.level) > Rank(rows[i].level)
  /\ HasRecipient(w.level)
  /\ \A n \in DOMAIN rows[i].pages : rows[i].pages[n] # w

PagedForgetful(i) == [rows[i] EXCEPT !.pages = Append(@, Window(rows[i].due, today))]
\* The notification, under a key of the row, its window and its level, and the level reached.
Paged(i) ==
  LET w == Window(rows[i].due, today) IN [rows[i] EXCEPT !.pages = Append(@, w), !.level = w.level]

\* run_escalations: every open deadline in one transaction.
Escalate ==
  /\ \E i \in DOMAIN rows : Pageable(i)
  /\ rows' = [i \in DOMAIN rows |-> IF Pageable(i) THEN Paged(i) ELSE rows[i]]
  /\ UNCHANGED <<today, dstatus, refresh, moves>>
-----------------------------------------------------------------------------
MovedRow(i, to, evening) ==
  [rows[i] EXCEPT !.due = to, !.key = NoKey, !.status = ClassifyStatus(to, today, evening)]

\* override_deadline: whatever the status was; the row loses its key.
OverrideDeadline(i) ==
  /\ moves < MaxMoves /\ moves' = moves + 1
  /\ \E to \in MoveTo \ {rows[i].due}, evening \in BOOLEAN : rows' = [rows EXCEPT ![i] = MovedRow(i, to, evening)]
  /\ UNCHANGED <<today, dstatus, refresh>>

CompleteDeadline(i) ==
  /\ rows[i].status # "COMPLETED" /\ rows' = [rows EXCEPT ![i].status = "COMPLETED"]
  /\ UNCHANGED <<today, dstatus, refresh, moves>>

DeadlineNext ==
  \/ CreateObligation \/ Tick \/ Materialize \/ CheckLicenseRenewals \/ OpenCase \/ DutySatisfied
  \/ RefreshReads \/ RefreshWrites \/ Escalate
  \/ \E i \in DOMAIN rows : OverrideDeadline(i) \/ CompleteDeadline(i)

\* The scheduler enqueues MATERIALIZE_DEADLINES every interval and the worker runs it, refresh
\* included; that is all that the deadlines' liveness needs.
DeadlineFairness == WF_deadlineVars(RefreshReads) /\ WF_deadlineVars(RefreshWrites)

DeadlineSpec == DeadlineInit /\ [][DeadlineNext]_deadlineVars /\ DeadlineFairness
-----------------------------------------------------------------------------
\* However often the sweep runs, and whatever a manager moves meanwhile, a deadline pages each
\* level at most once and never a lower one after a higher ("a sweep running hourly does not
\* re-page an owner every hour", escalation.py).
NoRepage ==
  \A i \in DOMAIN rows : LET pages == rows[i].pages IN
    \A m, n \in DOMAIN pages : m < n => Rank(pages[m].level) < Rank(pages[n].level)

\* A deadline whose date has passed is eventually shown OVERDUE, unless it is closed or moved,
\* also when a refresh of yesterday is written over today's.
OverdueIsShown ==
  \A i \in 1..MaxRows :
    (i \in OpenRows /\ rows[i].due < today) ~>
      (i \in DOMAIN rows /\ (rows[i].status \notin OpenDeadline \/ rows[i].status = "OVERDUE"
                              \/ rows[i].due >= today))

\* Scaling "keeps the sequence ordered and actionable" (rules.py): with this lead time the
\* milestones keep their order, none is before the lead or on the statutory date itself.
OrderedWithin(lead) ==
  \A m, n \in Milestones :
    /\ Offset[m] > Offset[n] => ScaledOffset(m, lead) >= ScaledOffset(n, lead)
    /\ ScaledOffset(m, lead) \in 1..lead
=============================================================================
