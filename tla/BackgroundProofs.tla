--------------------------- MODULE BackgroundProofs ---------------------------
(***************************************************************************)
(* The deadline engine for every calendar, every set of rules and every    *)
(* bound: a key names one deadline, nobody is paged twice for one level,   *)
(* the milestones of every lead time keep their order; and with the queues *)
(* of module LeasedJobsProofs the invariant of the background work.        *)
(***************************************************************************)
EXTENDS MCBackground, LeasedJobsProofs, FiniteSetTheorems, SequenceTheorems
-----------------------------------------------------------------------------
(* Milestones.                                                             *)

\* The larger and the smaller of two numbers.
LEMMA MaxMin ==
  ASSUME NEW a \in Int, NEW b \in Int
  PROVE  /\ Max({a, b}) = IF a >= b THEN a ELSE b
         /\ Min({a, b}) = IF a <= b THEN a ELSE b
<1>1. \E x \in {a, b} : \A y \in {a, b} : x >= y
    OBVIOUS
<1>2. \E x \in {a, b} : \A y \in {a, b} : x <= y
    OBVIOUS
<1>3. Max({a, b}) \in {a, b} /\ \A y \in {a, b} : Max({a, b}) >= y
    BY <1>1 DEF Max
<1>4. Min({a, b}) \in {a, b} /\ \A y \in {a, b} : Min({a, b}) <= y
    BY <1>2 DEF Min
<1> QED
    BY <1>3, <1>4

\* Rounding to the nearest keeps an order; 30 is the ladder's length.
LEMMA RoundingKeepsOrder ==
  ASSUME NEW m \in Nat, NEW n \in Nat, m <= n
  PROVE  /\ RoundHalfEven(m, 30) \in Nat /\ RoundHalfEven(n, 30) \in Nat
         /\ RoundHalfEven(m, 30) <= RoundHalfEven(n, 30)
<1> DEFINE q(x) == x \div 30
           r(x) == x % 30
<1>1. \A x \in Nat : q(x) \in Nat /\ r(x) \in 0..29 /\ x = 30 * q(x) + r(x)
    OBVIOUS
<1>2. \A x \in Nat : RoundHalfEven(x, 30) = IF 2 * r(x) > 30 \/ (2 * r(x) = 30 /\ q(x) % 2 = 1)
                                           THEN q(x) + 1 ELSE q(x)
    BY DEF RoundHalfEven
<1>3. q(m) < q(n) \/ (q(m) = q(n) /\ r(m) <= r(n))
    BY <1>1
<1>4. \A x \in Nat : q(x) % 2 \in Int
    BY <1>1
<1> HIDE DEF q, r
<1>5. \A x \in Nat : RoundHalfEven(x, 30) \in {q(x), q(x) + 1}
    BY <1>2
<1>6. CASE q(m) < q(n)
    BY <1>1, <1>5, <1>6
<1>7. CASE q(m) = q(n) /\ r(m) <= r(n)
  <2>1. \/ RoundHalfEven(m, 30) = q(m)
        \/ RoundHalfEven(m, 30) = q(m) + 1 /\ (2 * r(m) > 30 \/ (2 * r(m) = 30 /\ q(m) % 2 = 1))
      BY <1>2
  <2>2. 2 * r(m) > 30 \/ (2 * r(m) = 30 /\ q(m) % 2 = 1) => RoundHalfEven(n, 30) = q(n) + 1
    <3>1. r(m) \in Int /\ r(n) \in Int
        BY <1>1
    <3>2. 2 * r(m) >= 30 => 2 * r(n) > 30 \/ (2 * r(n) = 30 /\ 2 * r(m) = 30)
        BY <1>7, <3>1
    <3>3. 2 * r(m) > 30 \/ 2 * r(m) = 30 => 2 * r(m) >= 30
        BY <3>1
    <3>4. 2 * r(m) > 30 => 2 * r(n) > 30
        BY <1>7, <3>1
    <3>5. CASE 2 * r(m) > 30
        BY <1>2, <3>4, <3>5
    <3>6. CASE 2 * r(m) = 30 /\ q(m) % 2 = 1
        BY <1>2, <1>7, <3>2, <3>3, <3>6
    <3> QED
        BY <3>5, <3>6
  <2> QED
      BY <1>1, <1>5, <1>7, <2>1, <2>2
<1> QED
    BY <1>3, <1>6, <1>7

\* "Scaling keeps the sequence ordered and actionable" (rules.py), for every lead time.
THEOREM LadderKeepsOrder == \A n \in Nat \ {0} : OrderedWithin(n)
<1> SUFFICES ASSUME NEW n \in Nat \ {0}, NEW a \in Milestones, NEW b \in Milestones
             PROVE  /\ Offset[a] > Offset[b] => ScaledOffset(a, n) >= ScaledOffset(b, n)
                    /\ ScaledOffset(a, n) \in 1..n
    BY DEF OrderedWithin
<1>1. \A m \in Milestones : Offset[m] \in 1..30 /\ (Offset[m] = 30 <=> m = "INTERNAL_START")
    BY DEF Milestones, Offset
<1>2. \A m \in Milestones : ScaledRaw(m, n) = RoundHalfEven(Offset[m] * n, 30)
    BY DEF ScaledRaw, Offset
<1>3. ASSUME NEW m \in Milestones
      PROVE  /\ ScaledRaw(m, n) \in Nat
             /\ ScaledOffset(m, n) = IF m = "INTERNAL_START" THEN n
                                     ELSE LET v == IF ScaledRaw(m, n) <= n THEN ScaledRaw(m, n) ELSE n
                                          IN  IF 1 >= v THEN 1 ELSE v
  <2>1. Offset[m] * n \in Nat
      BY <1>1
  <2>2. ScaledRaw(m, n) \in Nat
      BY <1>2, <2>1, RoundingKeepsOrder
  <2>3. Min({ScaledRaw(m, n), n}) = IF ScaledRaw(m, n) <= n THEN ScaledRaw(m, n) ELSE n
    <3> HIDE DEF ScaledRaw
    <3>1. n \in Int /\ ScaledRaw(m, n) \in Int
        BY <2>2
    <3> QED
        BY <3>1, MaxMin
  <2>4. Max({1, Min({ScaledRaw(m, n), n})}) =
          IF 1 >= Min({ScaledRaw(m, n), n}) THEN 1 ELSE Min({ScaledRaw(m, n), n})
      BY <2>2, <2>3, MaxMin
  <2> QED
      BY <2>2, <2>3, <2>4 DEF ScaledOffset
<1>4. ScaledOffset(a, n) \in 1..n /\ ScaledOffset(b, n) \in 1..n
    BY <1>3
<1>5. ASSUME Offset[a] > Offset[b] PROVE ScaledOffset(a, n) >= ScaledOffset(b, n)
  <2>1. CASE a = "INTERNAL_START"
      BY <1>3, <1>4, <2>1
  <2>2. CASE a # "INTERNAL_START"
    <3>1. b # "INTERNAL_START"
        BY <1>1, <1>5
    <3>2. Offset[b] * n \in Nat /\ Offset[a] * n \in Nat /\ Offset[b] * n <= Offset[a] * n
        BY <1>5 DEF Offset, Milestones
    <3>3. ScaledRaw(b, n) <= ScaledRaw(a, n)
        BY <1>2, <3>2, RoundingKeepsOrder
    <3> QED
        BY <1>3, <2>2, <3>1, <3>3
  <2> QED
      BY <2>1, <2>2
<1> QED
    BY <1>4, <1>5
-----------------------------------------------------------------------------
(* Deadlines.                                                              *)

PageRows == [kind : {"overdue", "upcoming"}, days : Nat, level : DOMAIN LevelRank]
Levels == {"none", "OWNER", "BACKUP_OWNER", "REVIEWER", "MANAGER", "COUNSEL", "EXECUTIVE"}

\* The pages of a row rise, and the row's level is none below the last of them.
Rises(row) ==
  /\ \A m, n \in DOMAIN row.pages : m < n => Rank(row.pages[m].level) < Rank(row.pages[n].level)
  /\ \A n \in DOMAIN row.pages : Rank(row.pages[n].level) <= Rank(row.level)

\* A refresh that is under way writes statuses of open deadlines only.
RefreshIsOpen == \A i \in DOMAIN refresh : refresh[i] \in OpenDeadline

DeadlineInv == DeadlineTypeOK /\ RefreshIsOpen /\ \A i \in DOMAIN rows : Rises(rows[i])

LEMMA LevelsRanked ==
  DOMAIN LevelRank = Levels /\ \A l \in Levels : Rank(l) \in Nat /\ Rank("none") <= Rank(l)
BY DEF LevelRank, Levels, Rank

\* The windows of the two ladders.
LEMMA WindowLevels ==
  ASSUME NEW date \in Int, NEW day \in Int, HasRecipient(Window(date, day).level)
  PROVE  Window(date, day) \in PageRows
<1>1. CASE date < day
  <2> DEFINE S == {t \in {0, 3, 7, 14} : day - date >= t}
  <2>1. 0 \in S /\ S \subseteq {0, 3, 7, 14}
      BY <1>1
  <2> HIDE DEF S
  <2>2. \E x \in S : \A y \in S : x >= y
    <3>1. CASE 14 \in S
        BY <2>1, <3>1
    <3>2. CASE 14 \notin S /\ 7 \in S
        BY <2>1, <3>2
    <3>3. CASE 14 \notin S /\ 7 \notin S /\ 3 \in S
        BY <2>1, <3>3
    <3>4. CASE 14 \notin S /\ 7 \notin S /\ 3 \notin S
        BY <2>1, <3>4
    <3> QED
        BY <3>1, <3>2, <3>3, <3>4
  <2>3. Max(S) \in {0, 3, 7, 14}
      BY <2>1, <2>2 DEF Max
  <2>4. Window(date, day) = [kind |-> "overdue", days |-> Max(S), level |-> OverdueLadder(Max(S))]
      BY <1>1 DEF Window, S
  <2>5. OverdueLadder(Max(S)) \in Levels
      BY <2>3 DEF OverdueLadder, Levels
  <2> QED
      BY <2>3, <2>4, <2>5, LevelsRanked DEF PageRows
<1>2. CASE ~(date < day)
  <2> DEFINE S == {w \in {120, 90, 60, 30, 14, 7, 3, 0} : date - day <= w}
  <2>0. S \subseteq {120, 90, 60, 30, 14, 7, 3, 0}
      OBVIOUS
  <2>1. S # {}
      BY <1>2 DEF Window, HasRecipient
  <2>2. Window(date, day) = [kind |-> "upcoming", days |-> Min(S), level |-> UpcomingLadder(Min(S))]
      BY <1>2, <2>1 DEF Window
  <2>3. \A v, w \in {120, 90, 60, 30, 14, 7, 3, 0} : v <= w /\ v \in S => w \in S
      OBVIOUS
  <2> HIDE DEF S
  <2>4. 120 \in S
    <3>1. PICK v \in S : v \in {120, 90, 60, 30, 14, 7, 3, 0}
        BY <2>0, <2>1
    <3>2. v <= 120
        BY <3>1
    <3> QED
        BY <2>3, <3>1, <3>2
  <2>5. \E x \in S : \A y \in S : x <= y
    <3>1. CASE 0 \in S
        BY <2>0, <3>1
    <3>2. CASE 0 \notin S /\ 3 \in S
        BY <2>0, <3>2
    <3>3. CASE {0, 3} \cap S = {} /\ 7 \in S
        BY <2>0, <3>3
    <3>4. CASE {0, 3, 7} \cap S = {} /\ 14 \in S
        BY <2>0, <3>4
    <3>5. CASE {0, 3, 7, 14} \cap S = {} /\ 30 \in S
        BY <2>0, <3>5
    <3>6. CASE {0, 3, 7, 14, 30} \cap S = {} /\ 60 \in S
        BY <2>0, <3>6
    <3>7. CASE {0, 3, 7, 14, 30, 60} \cap S = {} /\ 90 \in S
        BY <2>0, <3>7
    <3>8. CASE {0, 3, 7, 14, 30, 60, 90} \cap S = {}
        BY <2>0, <2>4, <3>8
    <3> QED
        BY <3>1, <3>2, <3>3, <3>4, <3>5, <3>6, <3>7, <3>8
  <2>6. Min(S) \in {120, 90, 60, 30, 14, 7, 3, 0}
      BY <2>0, <2>5 DEF Min
  <2>7. UpcomingLadder(Min(S)) \in Levels
      BY <2>6 DEF UpcomingLadder, Levels
  <2> QED
      BY <2>2, <2>6, <2>7, LevelsRanked DEF PageRows
<1> QED
    BY <1>1, <1>2

LEMMA ClassifiedIsOpen ==
  ASSUME NEW date \in Int, NEW day \in Int, NEW evening \in BOOLEAN
  PROVE  ClassifyStatus(date, day, evening) \in OpenDeadline
BY DEF ClassifyStatus, OpenDeadline

\* A set of natural numbers has a least one.
LEMMA LeastNat ==
  ASSUME NEW T, T \subseteq Nat, T # {}
  PROVE  \E x \in T : \A y \in T : x <= y
<1> DEFINE R == OpToRel(<, Nat)
<1>1. IsWellFoundedOn(R, Nat)
    BY NatLessThanWellFounded DEF OpToRel
<1>2. \A x, y \in Nat : x < y => <<x, y>> \in R
    BY DEF OpToRel
<1> HIDE DEF R
<1>3. PICK x \in T : \A y \in T : <<y, x>> \notin R
    BY <1>1, WFMin
<1>4. \A y \in T : ~(y < x)
    BY <1>2, <1>3
<1> QED
    BY <1>4

\* Among rules in force one is the most specific and then of the lowest priority number.
LEMMA ResolvedIsActive == \A day : ResolvePolicy(day) \subseteq Policies
<1> SUFFICES ASSUME NEW day PROVE ResolvePolicy(day) \subseteq Policies
    OBVIOUS
<1> DEFINE F == {p \in Policies : Effective(p, day)}
<1>0. \A p \in F : p \in Policies /\ p.specificity \in 0..2 /\ p.priority \in Nat
    BY PolicyAssumption DEF IsPolicy
<1>1. CASE F = {}
    BY <1>1 DEF ResolvePolicy
<1>2. CASE F # {}
  <2> HIDE DEF F
  <2> DEFINE G == {2 - p.specificity : p \in F}
  <2>1. G \subseteq Nat /\ G # {}
      BY <1>0, <1>2
  <2>2. PICK g \in G : \A y \in G : g <= y
      BY <2>1, LeastNat
  <2> DEFINE H == {p \in F : 2 - p.specificity = g}
  <2>3. H # {} /\ \A p \in H, q \in F : p.specificity >= q.specificity
      BY <1>0, <2>2
  <2> DEFINE K == {p.priority : p \in H}
  <2>4. K \subseteq Nat /\ K # {}
      BY <1>0, <2>3
  <2>5. PICK k \in K : \A y \in K : k <= y
      BY <2>4, LeastNat
  <2>6. PICK p \in H : p.priority = k
      BY <2>5
  <2>7. p \in F /\ \A q \in F : Better(p, q)
    <3> SUFFICES ASSUME NEW q \in F PROVE p \in F /\ Better(p, q)
        BY <2>6
    <3>1. p \in F /\ p.specificity \in Int /\ q.specificity \in Int /\ p.specificity >= q.specificity
        BY <1>0, <2>3, <2>6
    <3>2. CASE p.specificity = q.specificity
      <4>1. q \in H
          BY <2>6, <3>2
      <4> QED
          BY <2>5, <2>6, <3>1, <3>2, <4>1 DEF Better
    <3>3. CASE p.specificity > q.specificity
        BY <3>1, <3>3 DEF Better
    <3> QED
        BY <3>1, <3>2, <3>3
  <2>8. (CHOOSE r \in F : \A q \in F : Better(r, q)) \in F
      BY <2>7
  <2>9. ResolvePolicy(day) = {CHOOSE r \in F : \A q \in F : Better(r, q)}
      BY <1>2 DEF ResolvePolicy, F
  <2> QED
      BY <1>0, <2>8, <2>9
<1> QED
    BY <1>1, <1>2

\* What a plan lists: keys of the rule, none of them NoKey.
LEMMA PlannedKeys ==
  ASSUME NEW p \in Policies, NEW day \in DayStops, NEW x \in Plan[p][day]
  PROVE  KeyOf(x) \in Keys /\ KeyOf(x) # NoKey /\ KeyOf(x).type \in {StatutoryType} \cup Milestones
<1>0. Plan[p][day] = Planned(p, day)
    BY DEF Plan
<1>1. x \in Planned(p, day) /\ x.due \in Int
    BY <1>0, FinitePlans
<1>2. x.rule = p.rule /\ x.type \in {StatutoryType} \cup DOMAIN Offsets(p)
    BY <1>1 DEF Planned
<1>3. DOMAIN Offsets(p) \subseteq Milestones
    BY PolicyAssumption DEF Offsets, IsPolicy
<1>4. "-" \notin {StatutoryType} \cup Milestones
    BY DEF StatutoryType, Milestones, Offset
<1> QED
    BY <1>1, <1>2, <1>3, <1>4 DEF KeyOf, NoKey, Keys

\* The keys that are still missing, in an order.
LEMMA MissingInOrder ==
  ASSUME NEW p \in Policies, today \in DayStops
  PROVE  /\ Cardinality(Missing(p)) \in Nat
         /\ SetToSeq(Missing(p)) \in [1..Cardinality(Missing(p)) -> Missing(p)]
         /\ IsInjective(SetToSeq(Missing(p)))
<1> DEFINE all == {KeyOf(x) : x \in Plan[p][today]}
           f == [x \in Plan[p][today] |-> KeyOf(x)]
<1>1. IsFiniteSet(Plan[p][today])
    BY FinitePlans
<1>2. f \in Surjection(Plan[p][today], all)
    BY DEF Surjection
<1> HIDE DEF f
<1>3. IsFiniteSet(all)
    BY <1>1, <1>2, FS_Surjection
<1> HIDE DEF all
<1>4. IsFiniteSet(all \ Known)
    BY <1>3, FS_Difference
<1>5. Missing(p) = all \ Known
    BY DEF Missing, all
<1>6. Cardinality(Missing(p)) \in Nat /\ ExistsBijection(1..Cardinality(Missing(p)), Missing(p))
    BY <1>4, <1>5, FS_CardinalityType
<1>7. \E g \in [1..Cardinality(Missing(p)) -> Missing(p)] : IsInjective(g)
    BY <1>6 DEF ExistsBijection, Bijection, Injection
<1> QED
    BY <1>6, <1>7 DEF SetToSeq

\* A row of a missing key.
LEMMA FreshRow ==
  ASSUME NEW k \in Keys, k.type \in {StatutoryType} \cup Milestones, NEW evening \in BOOLEAN, today \in DayStops
  PROVE  /\ Row(k, evening) \in DeadlineRows /\ Row(k, evening).key = k /\ Rises(Row(k, evening))
<1>1. k.due \in Int /\ today \in Int
    BY CalendarAssumption DEF Keys
<1>2. ClassifyStatus(k.due, today, evening) \in DeadlineStatuses
    BY <1>1, ClassifiedIsOpen DEF DeadlineStatuses
<1>3. "none" \in DOMAIN LevelRank /\ <<>> \in Seq(PageRows)
    BY LevelsRanked DEF Levels
<1>4. Row(k, evening) \in DeadlineRows
    BY <1>1, <1>2, <1>3 DEF Row, DeadlineRows, PageRows
<1>5. Row(k, evening).key = k /\ Row(k, evening).pages = <<>>
    BY DEF Row
<1>6. Rises(Row(k, evening))
    BY <1>5 DEF Rises
<1> QED
    BY <1>4, <1>5, <1>6

\* Rows that are written one by one, where each keeps its key or loses it.
LEMMA RowsRewritten ==
  ASSUME DeadlineInv, rows' \in Seq(DeadlineRows), DOMAIN rows' = DOMAIN rows,
         \A i \in DOMAIN rows : rows'[i].key \in {rows[i].key, NoKey} /\ Rises(rows'[i]),
         today' \in DayStops, dstatus' \in DutyStatuses, refresh' \in {refresh, NotRefreshing}
  PROVE  DeadlineInv'
<1>1. DOMAIN refresh \subseteq DOMAIN rows /\ DOMAIN NotRefreshing = {} /\ RefreshIsOpen
    BY DEF DeadlineInv, DeadlineTypeOK, NotRefreshing
<1>2. \A i, j \in DOMAIN rows : rows[i].key = rows[j].key /\ i # j => rows[i].key = NoKey
    BY DEF DeadlineInv, DeadlineTypeOK
<1>3. \A i, j \in DOMAIN rows' : rows'[i].key = rows'[j].key /\ i # j => rows'[i].key = NoKey
    BY <1>2
<1>4. DOMAIN refresh' \subseteq DOMAIN rows' /\ RefreshIsOpen'
    BY <1>1 DEF RefreshIsOpen
<1> QED
    BY <1>3, <1>4 DEF DeadlineInv, DeadlineTypeOK

\* materialize_for_obligation adds what is missing, each key once.
LEMMA MaterializedKeeps ==
  ASSUME DeadlineInv, NEW p \in Policies, NEW evening \in BOOLEAN, Materialized(p, evening),
         UNCHANGED <<today, refresh>>, dstatus' \in DutyStatuses
  PROVE  DeadlineInv'
<1> DEFINE keys == SetToSeq(Missing(p))
           N == Cardinality(Missing(p))
           new == [i \in DOMAIN keys |-> Row(keys[i], evening)]
<1>0. /\ rows \in Seq(DeadlineRows) /\ today \in DayStops /\ DOMAIN refresh \subseteq DOMAIN rows /\ RefreshIsOpen
      /\ \A i, j \in DOMAIN rows : rows[i].key = rows[j].key /\ i # j => rows[i].key = NoKey
      /\ \A i \in DOMAIN rows : Rises(rows[i])
    BY DEF DeadlineInv, DeadlineTypeOK
<1>1. N \in Nat /\ keys \in [1..N -> Missing(p)] /\ IsInjective(keys)
    BY <1>0, MissingInOrder
<1>2. ASSUME NEW k \in Missing(p)
      PROVE  /\ k \in Keys /\ k # NoKey /\ k.type \in {StatutoryType} \cup Milestones
             /\ \A i \in DOMAIN rows : rows[i].key # k
    <2>1. PICK x \in Plan[p][today] : k = KeyOf(x)
        BY DEF Missing
    <2>2. k \in Keys /\ k # NoKey /\ k.type \in {StatutoryType} \cup Milestones
        BY <1>0, <2>1, PlannedKeys
    <2>3. k \notin Known
        BY DEF Missing
    <2> QED
        BY <2>2, <2>3 DEF Known
<1> HIDE DEF keys, N
<1>3. ASSUME NEW i \in 1..N
      PROVE  new[i] \in DeadlineRows /\ new[i].key = keys[i] /\ Rises(new[i])
    BY <1>0, <1>1, <1>2, FreshRow
<1>4. new \in Seq(DeadlineRows) /\ Len(new) = N /\ DOMAIN new = 1..N
    BY <1>1, <1>3
<1>5. rows' = rows \o new
    BY DEF Materialized, Appended, keys
<1> HIDE DEF new
<1>6. /\ rows' \in Seq(DeadlineRows) /\ Len(rows') = Len(rows) + N
      /\ \A i \in 1..Len(rows) : rows'[i] = rows[i]
      /\ \A i \in 1..Len(rows') : i > Len(rows) => i - Len(rows) \in 1..N /\ rows'[i] = new[i - Len(rows)]
  <2>1. /\ rows' \in Seq(DeadlineRows) /\ Len(rows') = Len(rows) + Len(new)
        /\ \A i \in 1..(Len(rows) + Len(new)) : rows'[i] = IF i <= Len(rows) THEN rows[i] ELSE new[i - Len(rows)]
      BY <1>0, <1>4, <1>5, ConcatProperties
  <2>2. Len(rows) \in Nat /\ Len(new) = N /\ N \in Nat
      BY <1>0, <1>1, <1>4
  <2>3. ASSUME NEW i \in 1..Len(rows)
        PROVE  rows'[i] = rows[i]
    <3>1. i \in 1..(Len(rows) + Len(new)) /\ i <= Len(rows)
        BY <2>2
    <3> QED
        BY <2>1, <3>1
  <2>4. ASSUME NEW i \in 1..Len(rows'), i > Len(rows)
        PROVE  i - Len(rows) \in 1..N /\ rows'[i] = new[i - Len(rows)]
    <3>1. i \in 1..(Len(rows) + Len(new)) /\ ~(i <= Len(rows)) /\ i - Len(rows) \in 1..N
        BY <2>1, <2>2, <2>4
    <3> QED
        BY <2>1, <3>1
  <2> QED
      BY <2>1, <2>2, <2>3, <2>4
<1>7. DOMAIN rows = 1..Len(rows) /\ DOMAIN rows' = 1..Len(rows') /\ Len(rows) \in Nat
    BY <1>0, <1>6
<1>8. ASSUME NEW i \in DOMAIN rows' PROVE Rises(rows'[i])
  <2>1. CASE i \in DOMAIN rows
      BY <1>0, <1>6, <1>7, <2>1
  <2>2. CASE i > Len(rows)
      BY <1>3, <1>6, <1>7, <2>2
  <2> QED
      BY <1>7, <2>1, <2>2
<1>9. ASSUME NEW i \in DOMAIN rows', NEW j \in DOMAIN rows', i < j, rows'[i].key = rows'[j].key
      PROVE  rows'[i].key = NoKey
  <2>1. CASE j \in DOMAIN rows
    <3>1. i \in DOMAIN rows
        BY <1>7, <1>9, <2>1
    <3> QED
        BY <1>0, <1>6, <1>7, <1>9, <2>1, <3>1
  <2>2. CASE j > Len(rows) /\ i \in DOMAIN rows
    <3>1. rows'[j].key \in Missing(p) /\ rows'[i] = rows[i]
        BY <1>1, <1>3, <1>6, <1>7, <2>2
    <3> QED
        BY <1>2, <1>9, <2>2, <3>1
  <2>3. CASE j > Len(rows) /\ i > Len(rows)
    <3>1. /\ i - Len(rows) \in 1..N /\ rows'[i].key = keys[i - Len(rows)]
          /\ j - Len(rows) \in 1..N /\ rows'[j].key = keys[j - Len(rows)]
        BY <1>3, <1>6, <1>7, <2>3
    <3>2. i - Len(rows) = j - Len(rows)
        BY <1>1, <1>9, <3>1 DEF IsInjective
    <3> QED
        BY <1>7, <1>9, <3>2
  <2> QED
      BY <1>7, <2>1, <2>2, <2>3
<1>10. \A i, j \in DOMAIN rows' : rows'[i].key = rows'[j].key /\ i # j => rows'[i].key = NoKey
    BY <1>7, <1>9
<1>11. DOMAIN refresh' \subseteq DOMAIN rows' /\ RefreshIsOpen'
    BY <1>0, <1>1, <1>6, <1>7 DEF RefreshIsOpen
<1> QED
    BY <1>0, <1>6, <1>8, <1>10, <1>11 DEF DeadlineInv, DeadlineTypeOK

LEMMA DeadlineInvStep == DeadlineInv /\ [DeadlineNext]_deadlineVars => DeadlineInv'
<1> SUFFICES ASSUME DeadlineInv, [DeadlineNext]_deadlineVars PROVE DeadlineInv'
    OBVIOUS
<1>0. /\ rows \in Seq(DeadlineRows) /\ today \in DayStops /\ dstatus \in DutyStatuses
      /\ DOMAIN refresh \subseteq DOMAIN rows /\ RefreshIsOpen /\ \A i \in DOMAIN rows : Rises(rows[i])
    BY DEF DeadlineInv, DeadlineTypeOK
<1>a. today \in Int /\ \A i \in DOMAIN rows : rows[i] \in DeadlineRows /\ rows[i].due \in Int
  <2>1. today \in Int
      BY <1>0, CalendarAssumption
  <2>2. ASSUME NEW i \in DOMAIN rows PROVE rows[i] \in DeadlineRows /\ rows[i].due \in Int
    <3>1. rows[i] \in DeadlineRows
        BY <1>0
    <3> QED
        BY <3>1 DEF DeadlineRows
  <2> QED
      BY <2>1, <2>2
<1>b. ASSUME NEW x \in DutyStatuses, NEW d \in DayStops, dstatus' = x, today' = d, UNCHANGED <<rows, refresh>>
      PROVE  DeadlineInv'
    BY <1>b DEF DeadlineInv, DeadlineTypeOK, RefreshIsOpen
<1>1. CASE CreateObligation \/ Tick \/ OpenCase \/ DutySatisfied \/ UNCHANGED deadlineVars
    BY <1>0, <1>b, <1>1 DEF CreateObligation, Tick, OpenCase, DutySatisfied, deadlineVars, DutyStatuses
<1>2. CASE Materialize \/ CheckLicenseRenewals
  <2>1. PICK p \in ResolvePolicy(today), evening \in BOOLEAN :
          Materialized(p, evening) /\ dstatus' \in {SweepStatus(p), "IN_CASE"}
      BY <1>2 DEF Materialize, CheckLicenseRenewals
  <2>2. p \in Policies
      BY <2>1, ResolvedIsActive
  <2>3. dstatus' \in DutyStatuses
      BY <1>0, <2>1 DEF SweepStatus, DutyStatuses
  <2>4. UNCHANGED <<today, refresh>>
      BY <1>2 DEF Materialize, CheckLicenseRenewals
  <2> QED
      BY <2>1, <2>2, <2>3, <2>4, MaterializedKeeps
<1>3. CASE RefreshReads
  <2>1. UNCHANGED <<today, dstatus, rows, moves>>
      BY <1>3 DEF RefreshReads
  <2>2. PICK evening \in BOOLEAN : \E D \in SUBSET OpenRows :
          refresh' = [i \in D |-> ClassifyStatus(rows[i].due, today, evening)]
      BY <1>3 DEF RefreshReads, Refreshable
  <2>3. PICK D \in SUBSET OpenRows : refresh' = [i \in D |-> ClassifyStatus(rows[i].due, today, evening)]
      BY <2>2
  <2>4. D \subseteq DOMAIN rows
      BY DEF OpenRows
  <2>5. DOMAIN refresh' \subseteq DOMAIN rows' /\ RefreshIsOpen'
      BY <1>a, <2>1, <2>3, <2>4, ClassifiedIsOpen DEF RefreshIsOpen
  <2> QED
      BY <2>1, <2>5 DEF DeadlineInv, DeadlineTypeOK
<1>4. CASE RefreshWrites
  <2>1. /\ UNCHANGED <<today, dstatus>> /\ refresh' = NotRefreshing
        /\ rows' = [i \in DOMAIN rows |->
                IF i \in DOMAIN refresh THEN [rows[i] EXCEPT !.status = refresh[i]] ELSE rows[i]]
      BY <1>4 DEF RefreshWrites
  <2>2. ASSUME NEW i \in DOMAIN rows
        PROVE  rows'[i] \in DeadlineRows /\ rows'[i].key = rows[i].key /\ Rises(rows'[i])
    <3>1. CASE i \in DOMAIN refresh
      <4>1. rows'[i] = [rows[i] EXCEPT !.status = refresh[i]] /\ refresh[i] \in DeadlineStatuses
          BY <1>0, <2>1, <3>1 DEF RefreshIsOpen, DeadlineStatuses
      <4>2. /\ rows'[i] \in DeadlineRows /\ rows'[i].key = rows[i].key
            /\ rows'[i].pages = rows[i].pages /\ rows'[i].level = rows[i].level
          BY <1>a, <4>1 DEF DeadlineRows
      <4> QED
          BY <1>0, <4>2 DEF Rises
    <3>2. CASE i \notin DOMAIN refresh
        BY <1>0, <1>a, <2>1, <3>2
    <3> QED
        BY <3>1, <3>2
  <2>3. rows' \in Seq(DeadlineRows) /\ DOMAIN rows' = DOMAIN rows
      BY <1>0, <2>1, <2>2
  <2> QED
      BY <1>0, <2>1, <2>2, <2>3, RowsRewritten
<1>5. CASE Escalate
  <2>1. /\ UNCHANGED <<today, dstatus, refresh>>
        /\ rows' = [i \in DOMAIN rows |-> IF Pageable(i) THEN Paged(i) ELSE rows[i]]
      BY <1>5 DEF Escalate
  <2>2. ASSUME NEW i \in DOMAIN rows
        PROVE  rows'[i] \in DeadlineRows /\ rows'[i].key = rows[i].key /\ Rises(rows'[i])
    <3>1. CASE Pageable(i)
      <4> DEFINE w == Window(rows[i].due, today)
      <4>1. Rank(w.level) > Rank(rows[i].level) /\ HasRecipient(w.level)
          BY <3>1 DEF Pageable
      <4>2. w \in PageRows
          BY <1>a, <4>1, WindowLevels
      <4>3. rows'[i] = [rows[i] EXCEPT !.pages = Append(@, w), !.level = w.level]
          BY <2>1, <3>1 DEF Paged
      <4> HIDE DEF w
      <4>4. rows[i].pages \in Seq(PageRows) /\ w.level \in DOMAIN LevelRank
          BY <1>a, <4>2 DEF DeadlineRows, PageRows
      <4>5. Append(rows[i].pages, w) \in Seq(PageRows)
          BY <4>2, <4>4
      <4>6. /\ rows'[i] \in DeadlineRows /\ rows'[i].key = rows[i].key
            /\ rows'[i].pages = Append(rows[i].pages, w) /\ rows'[i].level = w.level
          BY <1>a, <4>3, <4>4, <4>5 DEF DeadlineRows, PageRows
      <4>7. \A n \in DOMAIN rows[i].pages : rows[i].pages[n].level \in Levels
        <5> SUFFICES ASSUME NEW n \in DOMAIN rows[i].pages PROVE rows[i].pages[n].level \in Levels
            OBVIOUS
        <5>1. rows[i].pages[n] \in PageRows
            BY <4>4
        <5> QED
            BY <5>1, LevelsRanked DEF PageRows
      <4>8. w.level \in Levels /\ rows[i].level \in Levels
          BY <1>a, <4>4, LevelsRanked DEF DeadlineRows
      <4>9. /\ \A n \in DOMAIN rows[i].pages : Rank(rows[i].pages[n].level) < Rank(w.level)
            /\ \A n \in DOMAIN rows[i].pages : Rank(rows[i].pages[n].level) \in Nat
            /\ Rank(w.level) \in Nat
        <5>1. \A n \in DOMAIN rows[i].pages : Rank(rows[i].pages[n].level) <= Rank(rows[i].level)
            BY <1>0 DEF Rises
        <5>2. \A n \in DOMAIN rows[i].pages : Rank(rows[i].pages[n].level) \in Nat
            BY <4>7, LevelsRanked
        <5>3. Rank(w.level) \in Nat /\ Rank(rows[i].level) \in Nat
            BY <4>8, LevelsRanked
        <5> QED
            BY <4>1, <5>1, <5>2, <5>3
      <4>10. /\ Len(rows[i].pages) \in Nat /\ DOMAIN rows[i].pages = 1..Len(rows[i].pages)
             /\ DOMAIN rows'[i].pages = 1..(Len(rows[i].pages) + 1)
             /\ \A n \in DOMAIN rows[i].pages : rows'[i].pages[n] = rows[i].pages[n]
             /\ rows'[i].pages[Len(rows[i].pages) + 1] = w
          BY <4>2, <4>4, <4>6
      <4>11. \A m, n \in DOMAIN rows'[i].pages : m < n =>
                Rank(rows'[i].pages[m].level) < Rank(rows'[i].pages[n].level)
        <5> SUFFICES ASSUME NEW m \in DOMAIN rows'[i].pages, NEW n \in DOMAIN rows'[i].pages, m < n
                     PROVE  Rank(rows'[i].pages[m].level) < Rank(rows'[i].pages[n].level)
            OBVIOUS
        <5>1. m \in DOMAIN rows[i].pages
            BY <4>10
        <5>2. CASE n \in DOMAIN rows[i].pages
            BY <1>0, <4>10, <5>1, <5>2 DEF Rises
        <5>3. CASE n = Len(rows[i].pages) + 1
            BY <4>9, <4>10, <5>1, <5>3
        <5> QED
            BY <4>10, <5>2, <5>3
      <4>12. \A n \in DOMAIN rows'[i].pages : Rank(rows'[i].pages[n].level) <= Rank(rows'[i].level)
        <5> SUFFICES ASSUME NEW n \in DOMAIN rows'[i].pages
                     PROVE  Rank(rows'[i].pages[n].level) <= Rank(rows'[i].level)
            OBVIOUS
        <5>1. CASE n \in DOMAIN rows[i].pages
            BY <4>6, <4>9, <4>10, <5>1
        <5>2. CASE n = Len(rows[i].pages) + 1
            BY <4>6, <4>9, <4>10, <5>2
        <5> QED
            BY <4>10, <5>1, <5>2
      <4> QED
          BY <4>6, <4>11, <4>12 DEF Rises
    <3>2. CASE ~Pageable(i)
        BY <1>0, <1>a, <2>1, <3>2
    <3> QED
        BY <3>1, <3>2
  <2>3. rows' \in Seq(DeadlineRows) /\ DOMAIN rows' = DOMAIN rows
      BY <1>0, <2>1, <2>2
  <2> QED
      BY <1>0, <2>1, <2>2, <2>3, RowsRewritten
<1>6. ASSUME NEW i \in DOMAIN rows, NEW row \in DeadlineRows, rows' = [rows EXCEPT ![i] = row],
             row.key \in {rows[i].key, NoKey}, row.pages = rows[i].pages, row.level = rows[i].level,
             UNCHANGED <<today, dstatus, refresh>>
      PROVE  DeadlineInv'
  <2>1. rows' \in Seq(DeadlineRows) /\ DOMAIN rows' = DOMAIN rows
      BY <1>0, <1>6
  <2>2. \A j \in DOMAIN rows : rows'[j] = IF j = i THEN row ELSE rows[j]
      BY <1>0, <1>6
  <2>3. Rises(row)
      BY <1>0, <1>6 DEF Rises
  <2>4. \A j \in DOMAIN rows : rows'[j].key \in {rows[j].key, NoKey} /\ Rises(rows'[j])
      BY <1>0, <1>6, <2>2, <2>3
  <2> QED
      BY <1>0, <1>6, <2>1, <2>4, RowsRewritten
<1>7. ASSUME NEW i \in DOMAIN rows, OverrideDeadline(i) PROVE DeadlineInv'
  <2>1. PICK to \in MoveTo, evening \in BOOLEAN : rows' = [rows EXCEPT ![i] = MovedRow(i, to, evening)]
      BY <1>7 DEF OverrideDeadline
  <2>2. to \in Int /\ ClassifyStatus(to, today, evening) \in DeadlineStatuses
      BY <1>a, CalendarAssumption, ClassifiedIsOpen DEF DeadlineStatuses
  <2>3. NoKey \in Keys
      BY DEF NoKey, Keys, Nothing
  <2>4. /\ MovedRow(i, to, evening) \in DeadlineRows /\ MovedRow(i, to, evening).key = NoKey
        /\ MovedRow(i, to, evening).pages = rows[i].pages /\ MovedRow(i, to, evening).level = rows[i].level
      BY <1>a, <2>2, <2>3 DEF MovedRow, DeadlineRows
  <2>5. UNCHANGED <<today, dstatus, refresh>>
      BY <1>7 DEF OverrideDeadline
  <2> QED
      BY <1>6, <2>1, <2>4, <2>5
<1>8. ASSUME NEW i \in DOMAIN rows, CompleteDeadline(i) PROVE DeadlineInv'
  <2> DEFINE row == [rows[i] EXCEPT !.status = "COMPLETED"]
  <2>1. rows' = [rows EXCEPT ![i] = row] /\ UNCHANGED <<today, dstatus, refresh>>
      BY <1>0, <1>8 DEF CompleteDeadline
  <2>2. row \in DeadlineRows /\ row.key = rows[i].key /\ row.pages = rows[i].pages /\ row.level = rows[i].level
      BY <1>a DEF DeadlineRows, DeadlineStatuses
  <2> QED
      BY <1>6, <2>1, <2>2
<1> QED
    BY <1>1, <1>2, <1>3, <1>4, <1>5, <1>7, <1>8 DEF DeadlineNext

LEMMA DeadlineInvInit == DeadlineInit => DeadlineInv
<1> SUFFICES ASSUME DeadlineInit PROVE DeadlineInv
    OBVIOUS
<1>1. today \in DayStops
    BY CalendarAssumption DEF DeadlineInit, Min
<1>2. rows = <<>> /\ refresh = <<>> /\ dstatus = "NONE"
    BY DEF DeadlineInit, NotRefreshing
<1>3. rows \in Seq(DeadlineRows) /\ DOMAIN rows = {} /\ DOMAIN refresh = {}
    BY <1>2
<1> QED
    BY <1>1, <1>2, <1>3 DEF DeadlineInv, DeadlineTypeOK, RefreshIsOpen, DutyStatuses

\* However often the sweep runs and whatever a manager moves meanwhile, a deadline pages each
\* level at most once and never a lower one after a higher, and a key names one deadline
\* (run_escalations, materialize_for_obligation).
THEOREM PagedOnce == DeadlineSpec => [](DeadlineTypeOK /\ NoRepage)
<1>1. DeadlineInv => DeadlineTypeOK /\ NoRepage
    BY DEF DeadlineInv, NoRepage, Rises
<1> QED
    BY <1>1, DeadlineInvInit, DeadlineInvStep, PTL DEF DeadlineSpec
-----------------------------------------------------------------------------
\* The invariant of the background work, for every set of jobs, workers and rules.
THEOREM BackgroundSafe == BackgroundSpec => []BackgroundInv
<1> DEFINE I == (LeasedTypeOK /\ HoldsAKey) /\ DeadlineInv
<1>1. BackgroundInit => I
    BY LeasedTypesInit, DeadlineInvInit DEF BackgroundInit
<1>2. I /\ [BackgroundNext]_<<focus, lead, vars, leasedVars, deadlineVars>> => I'
  <2> SUFFICES ASSUME I, [BackgroundNext]_<<focus, lead, vars, leasedVars, deadlineVars>> PROVE I'
      OBVIOUS
  <2>1. [LeasedNext]_leasedVars /\ [DeadlineNext]_deadlineVars
      BY DEF BackgroundNext
  <2> QED
      BY <2>1, LeasedTypeStep, DeadlineInvStep
<1>3. I => BackgroundInv
    BY DEF BackgroundInv, DeadlineInv, NoRepage, Rises
<1> QED
    BY <1>1, <1>2, <1>3, PTL DEF BackgroundSpec

\* The run's milestones are those of every lead time.
THEOREM MilestonesAlwaysKeepOrder == BackgroundSpec => []MilestonesKeepOrder
<1> DEFINE L == lead \in Nat \ {0}
<1>1. BackgroundInit => L
    BY DEF BackgroundInit, MaxLead
<1>2. L /\ [BackgroundNext]_<<focus, lead, vars, leasedVars, deadlineVars>> => L'
    BY DEF BackgroundNext
<1>3. L => MilestonesKeepOrder
    BY LadderKeepsOrder DEF MilestonesKeepOrder
<1> QED
    BY <1>1, <1>2, <1>3, PTL DEF BackgroundSpec
=============================================================================
