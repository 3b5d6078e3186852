-------------------------- MODULE PortalGovernance --------------------------
(***************************************************************************)
(* The governance boundary of portal assistance: portal definitions,       *)
(* review versions, adapter versions and user authorizations of            *)
(* app/services/portal_governance_service.py, the policy decisions of      *)
(* app/portals/policies.py, the expiry of app/workers/scheduling.py, and   *)
(* the two places a portal run meets them: create_run pins a review and an *)
(* adapter, revalidate_governance checks the pins before any work.         *)
(*                                                                         *)
(* A request here makes no external call: one transaction, one action.     *)
(***************************************************************************)
EXTENDS Naturals, Sequences, FiniteSets

CONSTANTS
  MaxReviews,     \* bound: review versions of the portal
  MaxAdapters,    \* bound: adapter versions of the portal
  MaxGovEdits     \* bound: direct edits of the portal's status, and authorizations

ASSUME GovAssumption ==
  MaxReviews \in Nat /\ MaxAdapters \in Nat /\ MaxGovEdits \in Nat

VARIABLES
  portal,       \* the portal_definitions row: [status, level]
  reviews,      \* its portal_review_versions
  adapters,     \* its portal_adapter_versions (one adapter key), by status
  auth,         \* the operator's portal_user_authorizations row
  grun,         \* a portal run: [status, review, adapter]
  gwork,        \* the run's automation: "none", "queued", "acting"
  withdrawn,    \* review versions that were APPROVED once and are not (history)
  govEdits

govVars == <<portal, reviews, adapters, auth, grun, gwork, withdrawn, govEdits>>

ApprovedPortal == {"APPROVED_PREPARE_ONLY", "APPROVED_ASSISTED"}
PortalStatuses == ApprovedPortal \cup
  {"DISCOVERED", "REVIEW_PENDING", "AUTOMATION_PROHIBITED", "TEMPORARILY_SUSPENDED",
   "EXPIRED", "RETIRED"}
Levels == {"PREPARE_ONLY", "ASSISTED_ENTRY"}
PortalRows == [status : PortalStatuses, level : Levels]
ReviewStatuses == {"DRAFT", "APPROVED", "SUPERSEDED", "SUSPENDED", "EXPIRED"}
\* clear: terms, findings and action lists admit approval; lapsed: valid_to has passed.
ReviewRows == [status : ReviewStatuses, compliance : BOOLEAN, security : BOOLEAN,
               clear : BOOLEAN, lapsed : BOOLEAN]
AdapterStatuses == {"DRAFT", "ACTIVE", "SUSPENDED"}
AuthStatuses == {"NONE", "ACTIVE", "EXPIRED", "REVOKED"}
NoGovRun == [status |-> "NONE", review |-> 0, adapter |-> 0]
GovRunRows == [status : {"NONE", "READY", "OPEN", "FAILED_REVIEW", "DONE"},
               review : 0..MaxReviews, adapter : 0..MaxAdapters]

ActiveReviews == {i \in DOMAIN reviews : reviews[i].status = "APPROVED"}
ActiveAdapters == {i \in DOMAIN adapters : adapters[i] = "ACTIVE"}

\* Every table keeps its type; uq_portal_review_active and uq_portal_adapter_active hold.
GovTypeOK ==
  /\ portal \in PortalRows
  /\ reviews \in Seq(ReviewRows) /\ Len(reviews) <= MaxReviews
  /\ adapters \in Seq(AdapterStatuses) /\ Len(adapters) <= MaxAdapters
  /\ auth \in AuthStatuses
  /\ grun \in GovRunRows /\ gwork \in {"none", "queued", "acting"}
  /\ withdrawn \subseteq 1..MaxReviews /\ govEdits \in 0..MaxGovEdits
  /\ Cardinality(ActiveReviews) <= 1 /\ Cardinality(ActiveAdapters) <= 1

GovInit ==
  /\ portal \in [status : {"DISCOVERED"}, level : Levels]
  /\ reviews = <<>> /\ adapters = <<>> /\ auth = "NONE"
  /\ grun = NoGovRun /\ gwork = "none" /\ withdrawn = {} /\ govEdits = 0
-----------------------------------------------------------------------------
\* policies.approval_is_current on the pinned or the active review.
ApprovalIsCurrent(r) ==
  /\ portal.status \in ApprovedPortal
  /\ r \in ActiveReviews /\ ~reviews[r].lapsed

AuthorizationIsCurrent == auth = "ACTIVE"

\* PortalRunService.revalidate_governance: the FAILED_REVIEW it writes on a refusal is rolled
\* back with the request that raised.
RevalidateGovernance ==
  /\ ApprovalIsCurrent(grun.review)
  /\ grun.adapter # 0 => grun.adapter \in ActiveAdapters

\* update_portal: only the two automated approvals ask for an active review.
UpdatePortal ==
  /\ govEdits < MaxGovEdits /\ govEdits' = govEdits + 1
  /\ \E s \in PortalStatuses, l \in Levels :
       /\ s = "APPROVED_ASSISTED" => ActiveReviews # {}
       /\ portal' = [status |-> s, level |-> l]
  /\ UNCHANGED <<reviews, adapters, auth, grun, gwork, withdrawn>>

CreateReview ==
  /\ Len(reviews) < MaxReviews
  /\ \E clear \in BOOLEAN :
       reviews' = Append(reviews, [status |-> "DRAFT", compliance |-> FALSE,
                                   security |-> FALSE, clear |-> clear, lapsed |-> FALSE])
  /\ portal' = [portal EXCEPT !.status = "REVIEW_PENDING"]
  /\ UNCHANGED <<adapters, auth, grun, gwork, withdrawn, govEdits>>

RecordReviewSignoff(r) ==
  /\ reviews[r].status = "DRAFT"
  /\ \/ reviews' = [reviews EXCEPT ![r].compliance = TRUE]
     \/ reviews' = [reviews EXCEPT ![r].security = TRUE]
  /\ UNCHANGED <<portal, adapters, auth, grun, gwork, withdrawn, govEdits>>

PortalStatusOf(level) ==
  IF level = "PREPARE_ONLY" THEN "APPROVED_PREPARE_ONLY" ELSE "APPROVED_ASSISTED"

\* The approvable draft, before the row is read for its status.
ReviewIsComplete(r) == reviews[r].compliance /\ reviews[r].security /\ reviews[r].clear

ApproveAnyStatus(r) ==
  /\ reviews[r].status \in {"DRAFT", "SUSPENDED"} /\ ReviewIsComplete(r)
  /\ reviews' = [i \in DOMAIN reviews |->
       IF i = r THEN [reviews[i] EXCEPT !.status = "APPROVED"]
       ELSE IF i \in ActiveReviews THEN [reviews[i] EXCEPT !.status = "SUPERSEDED"]
       ELSE reviews[i]]
  /\ withdrawn' = withdrawn \cup ActiveReviews
  /\ portal' = [portal EXCEPT !.status = PortalStatusOf(portal.level)]
  /\ UNCHANGED <<adapters, auth, grun, gwork, govEdits>>

\* approve_review: the current review is superseded in the same transaction.
ApproveReview(r) ==
  /\ reviews[r].status = "DRAFT" /\ ReviewIsComplete(r)
  /\ reviews' = [i \in DOMAIN reviews |->
       IF i = r THEN [reviews[i] EXCEPT !.status = "APPROVED"]
       ELSE IF i \in ActiveReviews THEN [reviews[i] EXCEPT !.status = "SUPERSEDED"]
       ELSE reviews[i]]
  /\ withdrawn' = withdrawn \cup ActiveReviews
  /\ portal' = [portal EXCEPT !.status = PortalStatusOf(portal.level)]
  /\ UNCHANGED <<adapters, auth, grun, gwork, govEdits>>

SuspendReview(r) ==
  /\ r \in ActiveReviews
  /\ reviews' = [reviews EXCEPT ![r].status = "SUSPENDED"]
  /\ withdrawn' = withdrawn \cup {r}
  /\ portal' = [portal EXCEPT !.status = "TEMPORARILY_SUSPENDED"]
  /\ UNCHANGED <<adapters, auth, grun, gwork, govEdits>>

\* Time passes valid_to; nothing is written until the scheduler's next cycle.
ReviewLapses(r) ==
  /\ ~reviews[r].lapsed
  /\ reviews' = [reviews EXCEPT ![r].lapsed = TRUE]
  /\ UNCHANGED <<portal, adapters, auth, grun, gwork, withdrawn, govEdits>>

\* run_scheduler_cycle, part 5: a lapsed review takes its portal and its open runs with it.
ExpireReview(r) ==
  /\ r \in ActiveReviews /\ reviews[r].lapsed
  /\ reviews' = [reviews EXCEPT ![r].status = "EXPIRED"]
  /\ withdrawn' = withdrawn \cup {r}
  /\ portal' = [portal EXCEPT !.status = "EXPIRED"]
  /\ grun' = IF grun.review = r /\ grun.status \in {"READY", "OPEN", "FAILED_REVIEW"}
             THEN [grun EXCEPT !.status = "FAILED_REVIEW"] ELSE grun
  /\ UNCHANGED <<adapters, auth, gwork, govEdits>>

CreateAdapter ==
  /\ Len(adapters) < MaxAdapters
  /\ adapters' = Append(adapters, "DRAFT")
  /\ UNCHANGED <<portal, reviews, auth, grun, gwork, withdrawn, govEdits>>

\* activate_adapter: a SUSPENDED version may be activated again.
ActivateAdapter(a) ==
  /\ portal.status \notin {"AUTOMATION_PROHIBITED", "TEMPORARILY_SUSPENDED", "EXPIRED", "RETIRED"}
  /\ ActiveReviews # {}
  /\ adapters' = [i \in DOMAIN adapters |->
       IF i = a THEN "ACTIVE" ELSE IF i \in ActiveAdapters THEN "SUSPENDED" ELSE adapters[i]]
  /\ UNCHANGED <<portal, reviews, auth, grun, gwork, withdrawn, govEdits>>

UpsertAuthorization ==
  /\ govEdits < MaxGovEdits /\ govEdits' = govEdits + 1
  /\ auth' \in {"ACTIVE", "REVOKED"}
  /\ UNCHANGED <<portal, reviews, adapters, grun, gwork, withdrawn>>

ExpireAuthorization ==
  /\ auth = "ACTIVE" /\ auth' = "EXPIRED"
  /\ UNCHANGED <<portal, reviews, adapters, grun, gwork, withdrawn, govEdits>>
-----------------------------------------------------------------------------
\* create_run pins the active review and, above PREPARE_ONLY, an active adapter.
GovCreateRun ==
  /\ grun = NoGovRun
  /\ \E r \in ActiveReviews, a \in ActiveAdapters \cup {0} :
       /\ ApprovalIsCurrent(r)
       /\ a = 0 => (portal.level = "PREPARE_ONLY" /\ ActiveAdapters = {})
       /\ grun' = [status |-> "READY", review |-> r, adapter |-> a]
  /\ UNCHANGED <<portal, reviews, adapters, auth, gwork, withdrawn, govEdits>>

\* start, request_session, and the queue_* operations on an open run.
GovQueueWork ==
  /\ grun.status \in {"READY", "OPEN"} /\ gwork = "none"
  /\ RevalidateGovernance /\ AuthorizationIsCurrent
  /\ grun' = [grun EXCEPT !.status = "OPEN"]
  /\ gwork' = "queued"
  /\ UNCHANGED <<portal, reviews, adapters, auth, withdrawn, govEdits>>

\* _active_context and _start_session revalidate before the browser is touched; the
\* authorization is not looked at again.
GovBeginWork ==
  /\ gwork = "queued" /\ RevalidateGovernance /\ gwork' = "acting"
  /\ UNCHANGED <<portal, reviews, adapters, auth, grun, withdrawn, govEdits>>

\* A refused job: StateConflictError, record_failure, _fail_run_review.
GovRefuseWork ==
  /\ gwork = "queued" /\ ~RevalidateGovernance /\ gwork' = "none"
  /\ grun' = [grun EXCEPT !.status = "FAILED_REVIEW"]
  /\ UNCHANGED <<portal, reviews, adapters, auth, withdrawn, govEdits>>

\* The job ends; submission evidence or a cancellation closes the run.
GovEndWork ==
  /\ gwork = "acting" /\ gwork' = "none"
  /\ \/ UNCHANGED grun
     \/ grun' = [grun EXCEPT !.status = "DONE"]
  /\ UNCHANGED <<portal, reviews, adapters, auth, withdrawn, govEdits>>
-----------------------------------------------------------------------------
GovNext ==
  \/ UpdatePortal \/ CreateReview \/ CreateAdapter \/ UpsertAuthorization \/ ExpireAuthorization
  \/ \E r \in DOMAIN reviews :
       RecordReviewSignoff(r) \/ ApproveReview(r) \/ SuspendReview(r) \/ ReviewLapses(r)
         \/ ExpireReview(r)
  \/ \E a \in DOMAIN adapters : ActivateAdapter(a)
  \/ GovCreateRun \/ GovQueueWork \/ GovBeginWork \/ GovRefuseWork \/ GovEndWork

GovSpec == GovInit /\ [][GovNext]_govVars
-----------------------------------------------------------------------------

\* Automation acts only under a review that compliance and security both signed, whose validity
\* has not passed even if the scheduler has yet to mark it EXPIRED, and that nobody ever
\* suspended, superseded or revoked: a job that was queued before stops at the worker's check.
ActsUnderSignedReview ==
  [][gwork = "queued" /\ gwork' = "acting" =>
       /\ ReviewIsComplete(grun.review) /\ ~reviews[grun.review].lapsed
       /\ reviews[grun.review].status = "APPROVED" /\ grun.review \notin withdrawn]_govVars
=============================================================================
