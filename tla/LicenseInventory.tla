-------------------------- MODULE LicenseInventory --------------------------
(***************************************************************************)
(* The licence inventory (app/services/license_inventory_service.py) and   *)
(* the master tracker import that fills it (tracker_import_service.py,     *)
(* app/imports/master_tracker.py): dry run, plan, apply.                   *)
(*                                                                         *)
(* All licences are of one legal entity, jurisdiction and licence type,    *)
(* the scope of the "one live authority" index.  A transition reads the    *)
(* licence and looks for a clash, then writes what differs from what it    *)
(* read; an apply reads the plan's status, then works in one transaction,  *)
(* each row in a savepoint.                                                *)
(***************************************************************************)
EXTENDS Naturals, Sequences

CONSTANTS
  Clerks,         \* people using the inventory endpoints
  Importers,      \* administrators applying plans
  Numbers,        \* licence numbers; "-" is none
  NewStatuses,    \* statuses people and spreadsheets give
  MaxLicences, MaxPlans, MaxSheetRows, MaxExpiry,
  MaxLicEdits     \* bound: requests that change a licence

ASSUME LicBounds ==
  {MaxLicences, MaxPlans, MaxSheetRows, MaxExpiry, MaxLicEdits} \subseteq Nat /\ "-" \notin Numbers
-----------------------------------------------------------------------------
LicenseStatuses == {"NOT_STARTED", "APPLICATION_IN_PROGRESS", "PENDING_REGULATOR", "APPROVED",
  "ACTIVE", "RENEWAL_IN_PROGRESS", "EXPIRED", "REINSTATING", "SUSPENDED", "REVOKED",
  "SURRENDERED", "NOT_REQUIRED", "UNKNOWN"}
ASSUME StatusNames == NewStatuses \subseteq LicenseStatuses

LIVE_LICENSE_STATUSES == {"APPLICATION_IN_PROGRESS", "PENDING_REGULATOR", "APPROVED", "ACTIVE",
  "RENEWAL_IN_PROGRESS", "REINSTATING", "SUSPENDED"}
TERMINAL_LICENSE_STATUSES == {"REVOKED", "SURRENDERED", "NOT_REQUIRED"}
Confidences == {"MANUAL_ENTRY", "TRACKER_IMPORT", "VERIFIED_DOCUMENT"}
ImportRowActions == {"INSERT", "UPDATE", "SKIP_UNCHANGED", "CONFLICT_REVIEW", "ERROR"}
APPLYING_ROW_ACTIONS == {"INSERT", "UPDATE"}

VARIABLES
  licences,  \* license_inventory with what license_status_events announced
  plans,     \* tracker_import_runs that were planned, with their rows
  applying,  \* the plan an apply request found PLANNED
  intent,    \* the transition a request is about to write
  licEdits

licVars == <<licences, plans, applying, intent, licEdits>>

\* exp = 0: no expiry date. said: the to_status of every event. from: the plan and row that
\* inserted it. lost: an import replaced an expiry date that evidence had verified.
LicenceRows == [key : Numbers \cup {"-"}, number : Numbers \cup {"-"}, st : LicenseStatuses,
                exp : 0..MaxExpiry, conf : Confidences, extra : BOOLEAN,
                said : SUBSET LicenseStatuses, from : (0..MaxPlans) \X (0..MaxSheetRows), lost : BOOLEAN]
SheetRows == [bad : BOOLEAN, number : Numbers \cup {"-"}, st : NewStatuses, exp : 0..MaxExpiry]
NoIntent == [lic |-> 0]

LicInit ==
  /\ licences = <<>> /\ plans = <<>> /\ licEdits = 0
  /\ applying = [i \in Importers |-> 0] /\ intent = [c \in Clerks |-> NoIntent]

\* Rows keep their types, and a planned row is inserted at most once, however often and
\* however concurrently its plan is applied.
LicTypeOK ==
  /\ licences \in Seq(LicenceRows) /\ licEdits \in 0..MaxLicEdits
  /\ applying \in [Importers -> 0..Len(plans)]
  /\ \A p \in DOMAIN plans : plans[p].st \in {"PLANNED", "COMPLETED"}
  /\ \A p \in DOMAIN plans : \A r \in DOMAIN plans[p].rows :
       /\ plans[p].rows[r].action \in ImportRowActions
       /\ plans[p].rows[r].target \in 0..MaxLicences
  /\ \A l, m \in DOMAIN licences : licences[l].from = licences[m].from /\ licences[l].from # <<0, 0>> => l = m

LicEdit == licEdits < MaxLicEdits /\ licEdits' = licEdits + 1
-----------------------------------------------------------------------------
(* What the tables and the service refuse.                                 *)

Occupies(row) == row.st \in LIVE_LICENSE_STATUSES /\ ~row.extra

\* The service's look for a clash; L is the table as the transaction sees it.
Clash(L, l) == \E m \in DOMAIN L \ {l} : Occupies(L[m])

\* license_key, of scope and number, is unique.
KeyTaken(L, key) == \E l \in DOMAIN L : L[l].key = key

NoIndex(L) == TRUE
\* uq_license_inventory_live_authority
IndexAllows(L) == \A l, m \in DOMAIN L : Occupies(L[l]) /\ Occupies(L[m]) => l = m
-----------------------------------------------------------------------------
(* Requests on licences.                                                   *)

NewLicence(number, s, e, conf, extra, from) ==
  [key |-> number, number |-> number, st |-> s, exp |-> e, conf |-> conf, extra |-> extra,
   said |-> {s}, from |-> from, lost |-> FALSE]

Creatable(L, row) ==
  /\ Len(L) < MaxLicences /\ ~KeyTaken(L, row.key)
  /\ Occupies(row) => ~Clash(L, 0)

CreateLicense(number, s, extra) ==
  LET row == NewLicence(number, s, 0, "MANUAL_ENTRY", extra, <<0, 0>>)
  IN  /\ LicEdit /\ Creatable(licences, row)
      /\ licences' = Append(licences, row) /\ IndexAllows(licences')
      /\ UNCHANGED <<plans, applying, intent>>

\* transition_status: what it may do to a licence it read.
MayBecome(L, l, to) ==
  /\ L[l].st \in TERMINAL_LICENSE_STATUSES => to \in {"REINSTATING", "APPLICATION_IN_PROGRESS"}
  /\ to \in LIVE_LICENSE_STATUSES /\ L[l].st \notin LIVE_LICENSE_STATUSES /\ ~L[l].extra => ~Clash(L, l)

StatusReads(c, l, to) ==
  /\ intent[c] = NoIntent /\ LicEdit /\ MayBecome(licences, l, to)
  /\ intent' = [intent EXCEPT ![c] = [lic |-> l, was |-> licences[l].st, to |-> to]]
  /\ UNCHANGED <<licences, plans, applying>>

\* The commit: the index may still refuse it, and a status that was read is not written.
StatusCommits(c) ==
  /\ intent[c] # NoIntent
  /\ LET i == intent[c]
         next == [licences EXCEPT ![i.lic].said = @ \cup {i.to}, ![i.lic].st = IF i.to = i.was THEN @ ELSE i.to]
     IN  licences' = IF IndexAllows(next) THEN next ELSE licences
  /\ intent' = [intent EXCEPT ![c] = NoIntent]
  /\ UNCHANGED <<plans, applying, licEdits>>

\* update_license: given fields, current_status being protected.
UpdatedLicence(row, number, e, conf, s) ==
  [row EXCEPT !.number = IF number = "-" THEN @ ELSE number, !.exp = IF e = 0 THEN @ ELSE e, !.conf = conf]

UpdateLicense(l, number, e, s) ==
  /\ LicEdit
  /\ licences' = [licences EXCEPT ![l] = UpdatedLicence(@, number, e, @.conf, s)] /\ IndexAllows(licences')
  /\ UNCHANGED <<plans, applying, intent>>

\* record_renewed_evidence: ACTIVE whatever it was; only the index stands in the way.
RecordRenewedEvidence(l, e) ==
  /\ LicEdit
  /\ licences' = [licences EXCEPT ![l].exp = e, ![l].conf = "VERIFIED_DOCUMENT", ![l].st = "ACTIVE",
                                  ![l].said = @ \cup {"ACTIVE"}]
  /\ IndexAllows(licences')
  /\ UNCHANGED <<plans, applying, intent>>
-----------------------------------------------------------------------------
(* The tracker import.                                                     *)

\* normalize_rows: rows with issues, and rows that repeat the business key of an earlier one.
Faulty(sheet, r) ==
  sheet[r].bad \/ \E q \in 1..(r - 1) : ~sheet[q].bad /\ sheet[q].number = sheet[r].number

Matching(row) == {l \in DOMAIN licences : row.number # "-" => licences[l].number = row.number}

IsUnchanged(l, row) ==
  /\ row.st = licences[l].st
  /\ row.exp # 0 => row.exp = licences[l].exp
  /\ row.number # "-" => row.number = licences[l].number

\* _decide
Decision(sheet, r) ==
  LET row == sheet[r]
      existing == Matching(row)
      l == CHOOSE m \in existing : TRUE
      disagrees == licences[l].conf = "VERIFIED_DOCUMENT" /\ row.exp # 0 /\ licences[l].exp # 0
                   /\ row.exp # licences[l].exp
      unclear == disagrees \/ existing # {l}
  IN  CASE Faulty(sheet, r) -> [action |-> "ERROR", target |-> 0]
        [] ~Faulty(sheet, r) /\ existing = {} -> [action |-> "INSERT", target |-> 0]
        [] OTHER -> [action |-> IF unclear THEN "CONFLICT_REVIEW"
                                ELSE IF IsUnchanged(l, row) THEN "SKIP_UNCHANGED" ELSE "UPDATE",
                     target |-> l]

\* plan: the dry run changes no licence.
PlanImport(sheet) ==
  /\ Len(plans) < MaxPlans
  /\ plans' = Append(plans, [st |-> "PLANNED", rows |-> [r \in DOMAIN sheet |->
       LET d == Decision(sheet, r)
       IN  [number |-> sheet[r].number, st |-> sheet[r].st, exp |-> sheet[r].exp,
            action |-> d.action, target |-> d.target]]])
  /\ UNCHANGED <<licences, applying, intent, licEdits>>

ApplyReads(i, p) ==
  /\ applying[i] = 0 /\ plans[p].st = "PLANNED"
  /\ applying' = [applying EXCEPT ![i] = p]
  /\ UNCHANGED <<licences, plans, intent, licEdits>>

InsertRow(L, row, from) ==
  LET new == NewLicence(row.number, row.st, row.exp, "TRACKER_IMPORT", FALSE, from)
  IN  IF Creatable(L, new) /\ IndexAllows(Append(L, new)) THEN Append(L, new) ELSE L

\* The target is written as it is now; the plan's decision is not taken again.
UpdateRow(L, row) ==
  LET t == row.target
      given == UpdatedLicence(L[t], row.number, row.exp, "TRACKER_IMPORT", L[t].st)
      lost == L[t].lost \/ (L[t].conf = "VERIFIED_DOCUMENT" /\ row.exp \notin {0, L[t].exp})
      set == [L EXCEPT ![t] = [given EXCEPT !.lost = lost]]
      moved == [set EXCEPT ![t].st = row.st, ![t].said = @ \cup {row.st}]
  IN  IF row.st = L[t].st THEN set
      ELSE IF MayBecome(set, t, row.st) /\ IndexAllows(moved) THEN moved ELSE L

\* A row that fails is rolled back to its savepoint and recorded; the others stand.
ApplyRow(L, r, p) ==
  LET row == plans[p].rows[r]
  IN  CASE row.action = "INSERT" -> InsertRow(L, row, <<p, r>>)
        [] row.action = "UPDATE" -> UpdateRow(L, row)
        [] OTHER -> L

\* The table after the plan's rows, one after the other.
ApplyRows(p) ==
  LET last == Len(plans[p].rows)
      table[r \in 0..last] == IF r = 0 THEN licences ELSE ApplyRow(table[r - 1], r, p)
  IN  table[last]

ApplyCommits(i) ==
  LET p == applying[i]
  IN  /\ p # 0
      /\ licences' = ApplyRows(p)
      /\ plans' = [plans EXCEPT ![p].st = "COMPLETED"]
      /\ applying' = [applying EXCEPT ![i] = 0]
      /\ UNCHANGED <<intent, licEdits>>

\* The apply dies before its commit: nothing was written.
ApplyDies(i) ==
  /\ applying[i] # 0 /\ applying' = [applying EXCEPT ![i] = 0]
  /\ UNCHANGED <<licences, plans, intent, licEdits>>

LicNext ==
  \/ \E n \in Numbers \cup {"-"}, s \in NewStatuses, extra \in BOOLEAN : CreateLicense(n, s, extra)
  \/ \E l \in DOMAIN licences :
       \/ \E c \in Clerks, to \in NewStatuses : StatusReads(c, l, to)
       \/ \E n \in Numbers \cup {"-"}, e \in 0..MaxExpiry, s \in NewStatuses : UpdateLicense(l, n, e, s)
       \/ \E e \in 1..MaxExpiry : RecordRenewedEvidence(l, e)
  \/ \E c \in Clerks : StatusCommits(c)
  \/ \E n \in 1..MaxSheetRows : \E sheet \in [1..n -> SheetRows] : PlanImport(sheet)
  \/ \E i \in Importers :
       \/ \E p \in DOMAIN plans : ApplyReads(i, p)
       \/ ApplyCommits(i) \/ ApplyDies(i)

LicSpec == LicInit /\ [][LicNext]_licVars
-----------------------------------------------------------------------------
\* "One live authority per entity/jurisdiction/type" (models/licensing.py), although the
\* service looks for a clash before it writes and renewed evidence does not look at all.
OneLiveAuthority == \A l, m \in DOMAIN licences : Occupies(licences[l]) /\ Occupies(licences[m]) => l = m

\* "Status changes append license_status_events" (docs/license-inventory.md): whichever path
\* and race set it, the status of a licence is one that an event of its history announced.
StatusIsWitnessed == \A l \in DOMAIN licences : licences[l].st \in licences[l].said

\* "Verified evidence wins over conflicting spreadsheet values; conflicts are never silently
\* overwritten" (docs/license-inventory.md).
VerifiedSurvives == \A l \in DOMAIN licences : ~licences[l].lost

\* The invariant of the inventory: one live authority, every status announced by an event.
InventoryInv == LicTypeOK /\ OneLiveAuthority /\ StatusIsWitnessed
=============================================================================
