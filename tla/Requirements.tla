---------------------------- MODULE Requirements ----------------------------
(***************************************************************************)
(* The requirement matrix: what a rule set says about one jurisdiction     *)
(* (app/requirements), and the governance around it: source snapshots and  *)
(* their review, rule sets, one assessment with its result, its review,    *)
(* counsel review and overrides (app/services/requirement_*_service.py).   *)
(*                                                                         *)
(* A condition is one connective over facts tested with is_true, a fact is *)
(* "T", "F" or missing ("U"). Requests are atomic; the evaluation job and  *)
(* the public fetch are not: both read, then commit.                       *)
(***************************************************************************)
EXTENDS Integers, Sequences, FiniteSetsExt

CONSTANTS
  Facts,  \* fact paths of the operating profile
  MaxSnapshots, MaxOverrides, MaxReruns

ASSUME ReqBounds == MaxSnapshots \in Nat /\ MaxOverrides \in Nat /\ MaxReruns \in Nat
-----------------------------------------------------------------------------
RequirementOutcomes == {"LIKELY_REQUIRED", "POSSIBLY_REQUIRED", "LIKELY_NOT_REQUIRED",
                        "COUNSEL_REVIEW", "OUT_OF_SCOPE", "INSUFFICIENT_INFORMATION"}
Confident == {"LIKELY_REQUIRED", "LIKELY_NOT_REQUIRED"}
OutcomeCautionRank ==
  [OUT_OF_SCOPE |-> 0, LIKELY_NOT_REQUIRED |-> 1, INSUFFICIENT_INFORMATION |-> 2,
   POSSIBLY_REQUIRED |-> 3, LIKELY_REQUIRED |-> 4, COUNSEL_REVIEW |-> 5]
MostCautious(S) == CHOOSE o \in S : \A p \in S : OutcomeCautionRank[o] >= OutcomeCautionRank[p]

AuthoritativeLevels == {"OFFICIAL_PRIMARY", "OFFICIAL_GUIDANCE", "APPROVED_COUNSEL"}
FreshnessSeverity ==
  [FRESH |-> 0, DUE_FOR_VERIFICATION |-> 1, UNKNOWN |-> 2, STALE |-> 3, NO_SOURCE |-> 4]
\* summarize: the worst citation's status, NO_SOURCE where there is none.
Summarize(S) == IF S = {} THEN "NO_SOURCE"
                ELSE CHOOSE s \in S : \A t \in S : FreshnessSeverity[s] >= FreshnessSeverity[t]

\* Kleene evaluation of a condition [key, over].
EvaluateCondition(c, facts) ==
  LET some(v) == \E f \in c.over : facts[f] = v
  IN  CASE c.key = "all"  -> IF some("F") THEN "F" ELSE IF some("U") THEN "U" ELSE "T"
        [] c.key = "any"  -> IF some("T") THEN "T" ELSE IF some("U") THEN "U" ELSE "F"
        [] c.key = "none" -> IF some("T") THEN "F" ELSE IF some("U") THEN "U" ELSE "T"

\* Rules in force for the jurisdiction; at = "any" is the catch-all without a jurisdiction.
ResolveEffectiveRules(rules, j, when) ==
  {r \in rules : r.from <= when /\ when <= r.to /\ r.at \in {"any", j}}
Specificity(r) == IF r.at = "any" THEN 0 ELSE 1
\* The matches nothing precedes: most specific, then lowest priority number.
Primary(M) == {r \in M : \A s \in M : \/ Specificity(r) > Specificity(s)
                                      \/ Specificity(r) = Specificity(s) /\ r.priority <= s.priority}

StaysConfident(outcome, unknown) == outcome
\* A rule that only waits for a fact keeps "not required" provisional.
Provisional(outcome, unknown) ==
  IF unknown # {} /\ outcome = "LIKELY_NOT_REQUIRED" THEN "POSSIBLY_REQUIRED" ELSE outcome

\* The first half of evaluate_jurisdiction: the outcome before the sources are looked at.
RuleOutcome(effective, matched, unknown) ==
  LET said == {r.outcome : r \in Primary(matched)}
      agreed == IF Cardinality(said) > 1 THEN MostCautious(said \cup {"COUNSEL_REVIEW"})
                ELSE CHOOSE o \in said : TRUE
  IN  CASE effective = {} \/ (matched = {} /\ unknown # {}) -> "INSUFFICIENT_INFORMATION"
        [] matched # {} -> Provisional(agreed, unknown)
        [] OTHER -> "LIKELY_NOT_REQUIRED"

\* The second half: stale, absent or merely operational sources cannot back a confident answer,
\* and "not required" is always for counsel.
Backed(outcome, chosen, cites) ==
  LET fresh  == Summarize({c.fresh : c \in cites})
      weak   == fresh \in {"STALE", "NO_SOURCE"} /\ outcome \in Confident
      first  == CASE ~weak -> outcome
                  [] weak /\ outcome = "LIKELY_REQUIRED" -> "POSSIBLY_REQUIRED"
                  [] OTHER -> "COUNSEL_REVIEW"
      vendor == /\ chosen # {} /\ cites # {} /\ first \in Confident
                /\ \A c \in cites : c.level \notin AuthoritativeLevels
      last   == IF vendor THEN "POSSIBLY_REQUIRED" ELSE first
  IN  [outcome |-> last,
       counsel |-> \/ \E r \in chosen : r.counsel
                   \/ outcome = "COUNSEL_REVIEW" \/ weak \/ vendor
                   \/ last = "LIKELY_NOT_REQUIRED"]

EvaluateJurisdiction(rules, facts, j, when, inScope) ==
  LET effective == ResolveEffectiveRules(rules, j, when)
      matched == {r \in effective : EvaluateCondition(r.cond, facts) = "T"}
      unknown == {r \in effective : EvaluateCondition(r.cond, facts) = "U"}
      chosen  == IF matched # {} THEN matched ELSE unknown
  IN  IF inScope
      THEN Backed(RuleOutcome(effective, matched, unknown), chosen, UNION {r.cites : r \in chosen})
      ELSE [outcome |-> "OUT_OF_SCOPE", counsel |-> FALSE]

Truths == {"T", "F", "U"}
\* g knows at least what f knows.
Completes(g, f) == \A x \in Facts : f[x] # "U" => g[x] = f[x]

\* Learning a missing fact never turns this "not required" into anything else.
SurvivesFacts(rules, f) ==
  EvaluateJurisdiction(rules, f, "j1", 1, TRUE).outcome = "LIKELY_NOT_REQUIRED" =>
    \A g \in [Facts -> Truths] : Completes(g, f) =>
      EvaluateJurisdiction(rules, g, "j1", 1, TRUE).outcome = "LIKELY_NOT_REQUIRED"
-----------------------------------------------------------------------------
VARIABLES
  source,     \* requirement_sources: current_snapshot_id (0: none), verification_status, age
  fetching,   \* current snapshot the running fetch read, -1 when none runs
  snapshots,  \* requirement_source_snapshots, by version
  ruleSet,    \* the rule set: status, snapshot its rule cites (0: no rule), the rule's outcome
  assessment, \* requirement_assessments: status
  result,     \* its result, or NoResult
  overrides,  \* assessment_overrides of the result, oldest first
  evalJob     \* the EVALUATE job: status, the assessment status it read, reruns after crashes

reqVars == <<source, fetching, snapshots, ruleSet, assessment, result, overrides, evalJob>>
reqEval == <<assessment, result, overrides, evalJob>>
reqSrc  == <<source, fetching, snapshots>>

SnapshotRows == [content : 1..2, review : {"PENDING_REVIEW", "APPROVED", "REJECTED", "SUPERSEDED"}]
SourceStatuses == {"UNVERIFIED", "VERIFIED", "STALE", "CHANGED_PENDING_REVIEW"}
\* DUE_FOR_VERIFICATION only warns the owner: it counts as FRESH.
Ages == {"UNKNOWN", "FRESH", "STALE"}
AssessmentStatuses == {"-", "DRAFT", "EVALUATED", "COUNSEL_REVIEW", "APPROVED"}
ReviewedOutcomes == {"LIKELY_REQUIRED", "LIKELY_NOT_REQUIRED", "-"}
ResultRows == [outcome : RequirementOutcomes, counsel : BOOLEAN, reviewed : ReviewedOutcomes,
               decided : BOOLEAN]
NoResult == [outcome |-> "-", counsel |-> FALSE, reviewed |-> "-", decided |-> FALSE]
OverrideRows == [outcome : Confident, live : BOOLEAN]
Reviewed(n) == n \in DOMAIN snapshots /\ snapshots[n].review \in {"APPROVED", "SUPERSEDED"}

\* Rows keep their types, the current snapshot and the one a rule cites were approved.
ReqTypeOK ==
  /\ fetching \in {-1} \cup 0..MaxSnapshots
  /\ source \in [current : 0..MaxSnapshots, status : SourceStatuses, age : Ages]
  /\ snapshots \in Seq(SnapshotRows) /\ Len(snapshots) <= MaxSnapshots
  /\ ruleSet \in [status : {"DRAFT", "ACTIVE"}, cites : 0..MaxSnapshots, outcome : Confident]
  /\ assessment \in AssessmentStatuses /\ result \in ResultRows \cup {NoResult}
  /\ overrides \in Seq(OverrideRows)
  /\ evalJob \in [status : {"-", "PENDING", "RUNNING", "COMPLETED"},
                  read : AssessmentStatuses, reruns : 0..MaxReruns]
  /\ source.current # 0 => Reviewed(source.current)
  /\ ruleSet.cites # 0 => Reviewed(ruleSet.cites)

\* register_source, create_rule_set.
ReqInit ==
  /\ fetching = -1
  /\ source = [current |-> 0, status |-> "UNVERIFIED", age |-> "UNKNOWN"]
  /\ snapshots = <<>>
  /\ ruleSet \in [status : {"DRAFT"}, cites : {0}, outcome : Confident]
  /\ assessment = "-" /\ result = NoResult /\ overrides = <<>>
  /\ evalJob = [status |-> "-", read |-> "-", reruns |-> 0]
-----------------------------------------------------------------------------
(* Sources and their snapshots.                                            *)

\* add_snapshot, comparing with the current snapshot it read: the same content only verifies the
\* source, other content is a pending version. Either way the source counts as just verified.
AddSnapshot(content, current) ==
  \/ /\ current # 0 /\ snapshots[current].content = content
     /\ source' = [source EXCEPT !.status = "VERIFIED", !.age = "FRESH"]
     /\ UNCHANGED snapshots
  \/ /\ ~(current # 0 /\ snapshots[current].content = content)
     /\ Len(snapshots) < MaxSnapshots
     /\ snapshots' = Append(snapshots, [content |-> content, review |-> "PENDING_REVIEW"])
     /\ source' = [source EXCEPT !.age = "FRESH",
                     !.status = IF current = 0 THEN @ ELSE "CHANGED_PENDING_REVIEW"]

UploadSnapshot ==
  /\ \E content \in 1..2 : AddSnapshot(content, source.current)
  /\ UNCHANGED <<fetching, ruleSet, reqEval>>

\* The fetch reads the source, waits for the page, and adds the snapshot in the same session.
FetchReads ==
  /\ fetching = -1 /\ fetching' = source.current
  /\ UNCHANGED <<source, snapshots, ruleSet, reqEval>>

FetchPublicSnapshot ==
  /\ fetching # -1 /\ fetching' = -1
  /\ \E page \in 1..2 : AddSnapshot(page, fetching)
  /\ UNCHANGED <<ruleSet, reqEval>>

PendingOnly(n) == n \in DOMAIN snapshots /\ snapshots[n].review = "PENDING_REVIEW"

ReviewSnapshot(n, approve) ==
  /\ PendingOnly(n)
  /\ snapshots' = [m \in DOMAIN snapshots |->
       CASE m = n -> [snapshots[m] EXCEPT !.review = IF approve THEN "APPROVED" ELSE "REJECTED"]
         [] m # n /\ approve /\ m = source.current -> [snapshots[m] EXCEPT !.review = "SUPERSEDED"]
         [] OTHER -> snapshots[m]]
  /\ source' = IF approve
               THEN [current |-> n, status |-> "VERIFIED", age |-> "FRESH"]
               ELSE [source EXCEPT !.status = IF source.current = 0
                                              THEN "UNVERIFIED" ELSE "VERIFIED"]
  /\ UNCHANGED <<fetching, ruleSet, reqEval>>

\* freshness_report.
FreshnessReport ==
  /\ source.age = "STALE" /\ source' = [source EXCEPT !.status = "STALE"]
  /\ UNCHANGED <<fetching, snapshots, ruleSet, reqEval>>

\* Time: the verification window is over.
SourceAges ==
  /\ source.age = "FRESH" /\ source' = [source EXCEPT !.age = "STALE"]
  /\ UNCHANGED <<fetching, snapshots, ruleSet, reqEval>>
-----------------------------------------------------------------------------
(* The rule set.                                                           *)

\* A rule is added to a DRAFT set and must cite reviewed snapshots; activation checks again.
CreateRequirementRule(n) ==
  /\ ruleSet.status = "DRAFT" /\ Reviewed(n) /\ ruleSet' = [ruleSet EXCEPT !.cites = n]
  /\ UNCHANGED <<reqSrc, reqEval>>

ActivateRuleSet ==
  /\ ruleSet.cites # 0 /\ Reviewed(ruleSet.cites) /\ ruleSet' = [ruleSet EXCEPT !.status = "ACTIVE"]
  /\ UNCHANGED <<reqSrc, reqEval>>

\* _load_rules: the one rule, unconditional, with the citation as fresh as its source.
LoadRules ==
  {[cond |-> [key |-> "all", over |-> {}], outcome |-> ruleSet.outcome, at |-> "any",
    priority |-> 100, from |-> 0, to |-> 9, counsel |-> FALSE,
    cites |-> IF Reviewed(ruleSet.cites)
              THEN {[fresh |-> source.age, level |-> "OFFICIAL_PRIMARY"]} ELSE {}]}
-----------------------------------------------------------------------------
(* The assessment.                                                         *)
CreateAssessment ==
  /\ assessment = "-" /\ ruleSet.status = "ACTIVE" /\ assessment' = "DRAFT"
  /\ UNCHANGED <<reqSrc, ruleSet, result, overrides, evalJob>>

\* The job's key names the assessment and its inputs: it is queued once, ever.
EvaluateAssessment ==
  /\ assessment # "-" /\ evalJob.status = "-" /\ evalJob' = [evalJob EXCEPT !.status = "PENDING"]
  /\ UNCHANGED <<reqSrc, ruleSet, assessment, result, overrides>>

\* An APPROVED assessment is refused: the job fails for good.
EvaluateReads ==
  /\ evalJob.status = "PENDING"
  /\ evalJob' = IF assessment = "APPROVED" THEN [evalJob EXCEPT !.status = "COMPLETED"]
                ELSE [evalJob EXCEPT !.status = "RUNNING", !.read = assessment]
  /\ UNCHANGED <<reqSrc, ruleSet, assessment, result, overrides>>

\* The results are deleted, their overrides with them, and written anew; the status is part of
\* the UPDATE only where it differs from the one that was read.
Evaluate ==
  /\ evalJob.status = "RUNNING"
  /\ LET r == EvaluateJurisdiction(LoadRules, [f \in Facts |-> "U"], "j1", 1, TRUE)
         status == IF r.counsel THEN "COUNSEL_REVIEW" ELSE "EVALUATED"
     IN  /\ result' = [outcome |-> r.outcome, counsel |-> r.counsel, reviewed |-> "-", decided |-> FALSE]
         /\ assessment' = IF status = evalJob.read THEN assessment ELSE status
  /\ overrides' = <<>>
  \* The worker dies before the job is marked: another runs it again.
  /\ \/ evalJob' = [evalJob EXCEPT !.status = "COMPLETED"]
     \/ /\ evalJob.reruns < MaxReruns
        /\ evalJob' = [evalJob EXCEPT !.status = "PENDING", !.reruns = @ + 1]
  /\ UNCHANGED <<reqSrc, ruleSet>>

\* review_result, by a reviewer or, through the counsel endpoint, by counsel.
ReviewResult(outcome, by) ==
  /\ result # NoResult
  /\ result.counsel => by = "counsel"
  /\ result' = [result EXCEPT !.reviewed = outcome, !.decided = TRUE]
  /\ UNCHANGED <<reqSrc, ruleSet, assessment, overrides, evalJob>>

CounselUnflagged == [result EXCEPT !.reviewed = "-", !.decided = FALSE]
CounselFlagged == [result EXCEPT !.counsel = TRUE, !.reviewed = "-", !.decided = FALSE]

RequestCounselReview ==
  /\ result # NoResult /\ result' = CounselFlagged
  /\ assessment' = IF assessment = "APPROVED" THEN assessment ELSE "COUNSEL_REVIEW"
  /\ UNCHANGED <<reqSrc, ruleSet, overrides, evalJob>>

\* Declaring "not required" by override needs more than a manager's authority.
OverrideResult(outcome, authority) ==
  /\ result # NoResult /\ Len(overrides) < MaxOverrides
  /\ outcome = "LIKELY_NOT_REQUIRED" => authority # "COMPLIANCE_MANAGER"
  /\ overrides' = Append(overrides, [outcome |-> outcome, live |-> TRUE])
  /\ result' = [result EXCEPT !.reviewed = outcome, !.decided = TRUE]
  /\ UNCHANGED <<reqSrc, ruleSet, assessment, evalJob>>

\* Time: an override's valid_to passes.
OverrideExpires ==
  /\ \E i \in DOMAIN overrides : overrides' = [overrides EXCEPT ![i].live = FALSE]
  /\ UNCHANGED <<reqSrc, ruleSet, assessment, result, evalJob>>

ApproveAssessment ==
  /\ assessment \in {"EVALUATED", "COUNSEL_REVIEW"} /\ result # NoResult /\ result.decided
  /\ assessment' = "APPROVED"
  /\ UNCHANGED <<reqSrc, ruleSet, result, overrides, evalJob>>

\* effective_outcome: the newest override in force, else the review, else the computed outcome.
EffectiveOutcome ==
  LET live == {i \in DOMAIN overrides : overrides[i].live}
  IN  CASE live # {} -> overrides[Max(live)].outcome
        [] live = {} /\ result.reviewed # "-" -> result.reviewed
        [] OTHER -> result.outcome

ReqNext ==
  \/ UploadSnapshot \/ FetchReads \/ FetchPublicSnapshot
  \/ \E n \in 1..MaxSnapshots : \/ \E approve \in BOOLEAN : ReviewSnapshot(n, approve)
                                \/ CreateRequirementRule(n)
  \/ FreshnessReport \/ SourceAges \/ ActivateRuleSet
  \/ CreateAssessment \/ EvaluateAssessment \/ EvaluateReads \/ Evaluate
  \/ \E o \in ReviewedOutcomes, by \in {"reviewer", "counsel"} : ReviewResult(o, by)
  \/ \E o \in Confident, a \in {"COMPLIANCE_MANAGER", "INTERNAL_COUNSEL"} : OverrideResult(o, a)
  \/ RequestCounselReview \/ OverrideExpires \/ ApproveAssessment

ReqSpec == ReqInit /\ [][ReqNext]_reqVars
-----------------------------------------------------------------------------
\* Whatever is overridden, expired, re-evaluated or sent back, "not required" never governs a
\* result that nobody has decided and that counsel is not asked about.
NotRequiredIsWatched ==
  EffectiveOutcome = "LIKELY_NOT_REQUIRED" => result.decided \/ result.counsel

\* The invariant of the evaluation: one current snapshot and assessment, and no unwatched "not
\* required".
RequirementsInv == ReqTypeOK /\ NotRequiredIsWatched
=============================================================================
