--------------------------- MODULE LicensingProofs ---------------------------
(***************************************************************************)
(* Proofs about the licensing records, one part per record: the compliance *)
(* case, the governance of portals, the form and the information registry, *)
(* the packets, the document catalogue, the requirement evaluation and its *)
(* evaluator, the licence inventory with the tracker import. Each part     *)
(* names its inductive invariant and shows that it starts, stays and       *)
(* implies what the run checks; the theorems at the end put them together. *)
(***************************************************************************)
EXTENDS MCLicensing, FiniteSetTheorems, SequenceTheorems, WellFoundedInduction, TLAPS

(***************************************************************************)
(* The compliance case                                                     *)
(***************************************************************************)

\* The stages behind the renewed evidence.
Renewed == {"RENEWED_EVIDENCE_RECEIVED", "INVENTORY_UPDATE_PENDING", "COMPLETED"}

\* Renewed evidence is on record in every stage behind it, and behind every check that let a slow
\* request into such a stage; only its own stage puts it there.
EvidenceIsRecorded ==
  /\ ccase.stage \in Renewed => renewal = "proven"
  /\ slow # NoTransition /\ slow.to \in Renewed \ {"RENEWED_EVIDENCE_RECEIVED"} => renewal = "proven"

CaseIInv == CaseTypeOK /\ EvidenceIsRecorded

\* The stage matrix: what leads to a completed case.
LEMMA RenewedFrom ==
  ASSUME NEW from \in Stages, NEW to \in ALLOWED_TRANSITIONS(from), to \in Renewed \ {"RENEWED_EVIDENCE_RECEIVED"}
  PROVE  from \in Renewed
BY DEF Stages, Forward, ALLOWED_TRANSITIONS, Renewed, TERMINAL_STAGES, Abort, SubmittedStages

LEMMA CaseStarts == CaseInit => CaseIInv
<1> SUFFICES ASSUME CaseInit
             PROVE  CaseIInv
  OBVIOUS
<1>1. "DUE_IDENTIFIED" \in Stages
  BY DEF Stages, Forward
<1>2. STAGE_STATUS("DUE_IDENTIFIED") = "OPEN"
  BY DEF STAGE_STATUS, WaitingVendor, WaitingInternal, TERMINAL_STAGES
<1>3. ccase \in CaseRows /\ ccase.stage = "DUE_IDENTIFIED"
  BY <1>1, <1>2 DEF CaseInit, CaseRows, CaseStatuses
<1>4. caseForms \in CaseFormRows /\ caseForms.signed = FALSE
  BY DEF CaseInit, CaseFormRows
<1>5. QED
  BY <1>3, <1>4 DEF CaseInit, CaseIInv, CaseTypeOK, EvidenceIsRecorded, RenewalEvents, Renewed

\* What a transition that passed its checks, now or before, leaves behind.
LEMMA TransitionKeeps ==
  ASSUME CaseIInv, NEW to \in Stages, NEW given \in BOOLEAN, NEW reason \in BOOLEAN, NEW read,
         Transitioned(read, to, given, reason), UNCHANGED caseForms, slow' \in {slow, NoTransition},
         to = "RENEWED_EVIDENCE_RECEIVED" => given,
         to \in Renewed \ {"RENEWED_EVIDENCE_RECEIVED"} => renewal = "proven"
  PROVE  CaseIInv'
<1>0. CaseTypeOK /\ EvidenceIsRecorded
  BY DEF CaseIInv
<1>1. PICK st : st = IF STAGE_STATUS(to) = read THEN ccase.status ELSE STAGE_STATUS(to)
  OBVIOUS
<1>2. st \in CaseStatuses
  BY <1>0, <1>1 DEF CaseTypeOK, CaseRows, CaseStatuses
<1>3. PICK cl \in BOOLEAN : cl = (ccase.closed \/ reason)
  OBVIOUS
<1>4. ccase' = [stage |-> to, closed |-> cl, status |-> st]
  BY <1>1, <1>3 DEF Transitioned
<1>5. ccase' \in CaseRows /\ ccase'.stage = to
  BY <1>2, <1>4 DEF CaseRows
<1>6. renewal' \in RenewalEvents /\ (renewal = "proven" => renewal' = "proven")
      /\ (to = "RENEWED_EVIDENCE_RECEIVED" => renewal' = "proven")
  BY <1>0 DEF Transitioned, CaseTypeOK, RenewalEvents
<1>7. duty' \in {"IN_CASE", "SATISFIED"} /\ (to = "COMPLETED" => duty' = "SATISFIED")
  BY <1>0 DEF Transitioned, CaseTypeOK, ObligationAfter
<1>8. CaseTypeOK'
  BY <1>0, <1>5, <1>6, <1>7 DEF CaseTypeOK
<1>9. EvidenceIsRecorded'
  BY <1>0, <1>5, <1>6 DEF EvidenceIsRecorded, Renewed
<1>10. QED
  BY <1>8, <1>9 DEF CaseIInv

LEMMA CheckedKeeps ==
  ASSUME CaseIInv, NEW to \in Stages, NEW given \in BOOLEAN, NEW reason \in BOOLEAN,
         ValidateTransition(ccase.stage, to, given, reason)
  PROVE  /\ to = "RENEWED_EVIDENCE_RECEIVED" => given
         /\ to \in Renewed \ {"RENEWED_EVIDENCE_RECEIVED"} => renewal = "proven"
<1>1. ccase.stage \in Stages
  BY DEF CaseIInv, CaseTypeOK, CaseRows
<1>2. to \in ALLOWED_TRANSITIONS(ccase.stage) /\ (NeedsEvidence(to) => EvidenceGiven(to, given))
  BY DEF ValidateTransition
<1>3. QED
  BY <1>1, <1>2, RenewedFrom DEF NeedsEvidence, EvidenceGiven, CaseIInv, EvidenceIsRecorded

LEMMA CaseStays == CaseIInv /\ [CaseNext]_caseVars => CaseIInv'
<1> SUFFICES ASSUME CaseIInv, [CaseNext]_caseVars
             PROVE  CaseIInv'
  OBVIOUS
<1>0. CaseTypeOK /\ EvidenceIsRecorded
  BY DEF CaseIInv
<1>1. CASE TransitionCase
  <2>1. PICK to \in Stages, given \in BOOLEAN, reason \in BOOLEAN :
          ValidateTransition(ccase.stage, to, given, reason) /\ Transitioned(ccase.status, to, given, reason)
    BY <1>1 DEF TransitionCase
  <2>2. UNCHANGED <<caseForms, slow>>
    BY <1>1 DEF TransitionCase
  <2>3. QED
    BY <2>1, <2>2, CheckedKeeps, TransitionKeeps
<1>2. CASE TransitionReads
  <2>1. PICK to \in Stages : ValidateTransition(ccase.stage, to, TRUE, FALSE) /\ slow' = [to |-> to, status |-> ccase.status]
    BY <1>2 DEF TransitionReads
  <2>2. to \in Renewed \ {"RENEWED_EVIDENCE_RECEIVED"} => renewal = "proven"
    BY <2>1, CheckedKeeps
  <2>3. slow' \in [to : Stages, status : CaseStatuses] /\ slow'.to = to
    BY <1>0, <2>1 DEF CaseTypeOK, CaseRows
  <2>4. UNCHANGED <<ccase, renewal, caseForms, duty>>
    BY <1>2 DEF TransitionReads
  <2>5. QED
    BY <1>0, <2>2, <2>3, <2>4 DEF CaseIInv, CaseTypeOK, EvidenceIsRecorded
<1>3. CASE TransitionCommits
  <2>1. slow # NoTransition /\ Transitioned(slow.status, slow.to, TRUE, FALSE) /\ slow' = NoTransition /\ UNCHANGED caseForms
    BY <1>3 DEF TransitionCommits
  <2>2. slow.to \in Stages
    BY <1>0, <2>1 DEF CaseTypeOK
  <2>3. slow.to \in Renewed \ {"RENEWED_EVIDENCE_RECEIVED"} => renewal = "proven"
    BY <1>0, <2>1 DEF EvidenceIsRecorded
  <2>4. QED
    BY <2>1, <2>2, <2>3, TransitionKeeps
<1>4. CASE FormNeedsSignature \/ FormIsSigned
  <2>1. UNCHANGED <<ccase, renewal, duty, slow>>
    BY <1>4 DEF FormNeedsSignature, FormIsSigned
  <2>2. caseForms' \in CaseFormRows /\ (caseForms'.signed => caseForms'.required)
    <3>1. CASE FormNeedsSignature
      BY <3>1 DEF FormNeedsSignature, CaseFormRows
    <3>2. CASE FormIsSigned
      <4>1. caseForms \in CaseFormRows /\ caseForms.required /\ caseForms' = [caseForms EXCEPT !.signed = TRUE]
        BY <1>0, <3>2 DEF FormIsSigned, CaseTypeOK
      <4>2. caseForms' \in CaseFormRows /\ caseForms'.required = caseForms.required
        BY <4>1 DEF CaseFormRows
      <4>3. QED
        BY <4>1, <4>2
    <3>3. QED
      BY <1>4, <3>1, <3>2
  <2>3. QED
    BY <1>0, <2>1, <2>2 DEF CaseIInv, CaseTypeOK, EvidenceIsRecorded
<1>5. CASE UNCHANGED caseVars
  BY <1>0, <1>5 DEF caseVars, CaseIInv, CaseTypeOK, EvidenceIsRecorded
<1>6. QED
  BY <1>1, <1>2, <1>3, <1>4, <1>5 DEF CaseNext

LEMMA CaseIsSafe == CaseIInv => CaseInv
BY DEF CaseIInv, CaseInv, EvidenceIsRecorded, CompletedHasEvidence, Renewed

\* A step into a submission stage, other than the commit of a slow request, finds the forms signed.
LEMMA SubmissionStep ==
  ASSUME CaseNext, ccase'.stage \in POST_SIGNATURE_STAGES, ccase'.stage # ccase.stage, slow' = slow, caseForms.required
  PROVE  caseForms.signed
<1>1. CASE TransitionCase
  <2>1. PICK to \in Stages, given \in BOOLEAN, reason \in BOOLEAN :
          ValidateTransition(ccase.stage, to, given, reason) /\ Transitioned(ccase.status, to, given, reason)
    BY <1>1 DEF TransitionCase
  <2>2. ccase'.stage = to
    BY <2>1 DEF Transitioned
  <2>3. QED
    BY <2>1, <2>2 DEF ValidateTransition, SignatureSettled
<1>2. CASE TransitionCommits
  BY <1>2 DEF TransitionCommits
<1>3. CASE TransitionReads \/ FormNeedsSignature \/ FormIsSigned
  BY <1>3 DEF TransitionReads, FormNeedsSignature, FormIsSigned
<1>4. QED
  BY <1>1, <1>2, <1>3 DEF CaseNext

(***************************************************************************)
(* The governance of portals                                               *)
(***************************************************************************)

\* One review and one adapter in force; a review in force is complete and was never withdrawn.
GovIInv ==
  /\ portal \in PortalRows
  /\ reviews \in Seq(ReviewRows) /\ Len(reviews) <= MaxReviews
  /\ adapters \in Seq(AdapterStatuses) /\ Len(adapters) <= MaxAdapters
  /\ auth \in AuthStatuses
  /\ grun \in GovRunRows /\ gwork \in {"none", "queued", "acting"} /\ govEdits \in 0..MaxGovEdits
  /\ \A i, j \in ActiveReviews : i = j
  /\ \A i, j \in ActiveAdapters : i = j
  /\ withdrawn \subseteq DOMAIN reviews
  /\ \A r \in DOMAIN reviews : reviews[r].status = "APPROVED" => ReviewIsComplete(r)
  /\ \A r \in withdrawn : reviews[r].status \notin {"DRAFT", "APPROVED"}

LEMMA GovFacts ==
  ASSUME GovIInv
  PROVE  /\ MaxReviews \in Nat /\ MaxAdapters \in Nat /\ MaxGovEdits \in Nat
         /\ Len(reviews) \in Nat /\ DOMAIN reviews = 1..Len(reviews) /\ DOMAIN reviews \subseteq 1..MaxReviews
         /\ Len(adapters) \in Nat /\ DOMAIN adapters = 1..Len(adapters) /\ DOMAIN adapters \subseteq 1..MaxAdapters
         /\ \A r \in DOMAIN reviews : reviews[r] \in ReviewRows
         /\ \A a \in DOMAIN adapters : adapters[a] \in AdapterStatuses
<1>1. MaxReviews \in Nat /\ MaxAdapters \in Nat /\ MaxGovEdits \in Nat
  BY GovAssumption
<1>2. reviews \in Seq(ReviewRows) /\ Len(reviews) <= MaxReviews /\ adapters \in Seq(AdapterStatuses) /\ Len(adapters) <= MaxAdapters
  BY DEF GovIInv
<1>3. Len(reviews) \in Nat /\ DOMAIN reviews = 1..Len(reviews) /\ Len(adapters) \in Nat /\ DOMAIN adapters = 1..Len(adapters)
  BY <1>2
<1>4. DOMAIN reviews \subseteq 1..MaxReviews /\ DOMAIN adapters \subseteq 1..MaxAdapters
  BY <1>1, <1>2, <1>3
<1>5. QED
  BY <1>1, <1>2, <1>3, <1>4

LEMMA GovStarts == GovInit => GovIInv
<1> SUFFICES ASSUME GovInit
             PROVE  GovIInv
  OBVIOUS
<1>0. MaxReviews \in Nat /\ MaxAdapters \in Nat /\ MaxGovEdits \in Nat
  BY GovAssumption
<1>1. 0 \in 0..MaxReviews /\ 0 \in 0..MaxAdapters /\ 0 \in 0..MaxGovEdits /\ 0 <= MaxReviews /\ 0 <= MaxAdapters
  BY <1>0
<1>2. reviews = <<>> /\ adapters = <<>> /\ Len(reviews) = 0 /\ Len(adapters) = 0 /\ DOMAIN reviews = {} /\ DOMAIN adapters = {}
  BY DEF GovInit
<1>3. grun \in GovRunRows
  BY <1>1 DEF GovInit, NoGovRun, GovRunRows
<1>4. portal \in PortalRows
  BY DEF GovInit, PortalRows, PortalStatuses
<1>5. ActiveReviews = {} /\ ActiveAdapters = {}
  BY <1>2 DEF ActiveReviews, ActiveAdapters
<1>6. auth \in AuthStatuses /\ gwork \in {"none", "queued", "acting"} /\ govEdits \in 0..MaxGovEdits /\ withdrawn = {}
  BY <1>1 DEF GovInit, AuthStatuses
<1>7. QED
  BY <1>1, <1>2, <1>3, <1>4, <1>5, <1>6 DEF GovIInv

\* Reviews and adapters stay as they are.
LEMMA GovQuiet ==
  ASSUME GovIInv, UNCHANGED <<reviews, adapters, withdrawn>>,
         portal' \in PortalRows, auth' \in AuthStatuses, grun' \in GovRunRows, gwork' \in {"none", "queued", "acting"},
         govEdits' \in 0..MaxGovEdits
  PROVE  GovIInv'
BY DEF GovIInv, ActiveReviews, ActiveAdapters, ReviewIsComplete

\* Every review stays as it is, is withdrawn, is signed while a draft, or is the one that comes
\* into force: complete, and with no other in force.
LEMMA ReviewsKeep ==
  ASSUME GovIInv, UNCHANGED <<adapters, auth, gwork, govEdits>>, portal' \in PortalRows, grun' \in GovRunRows,
         reviews' \in Seq(ReviewRows), Len(reviews') <= MaxReviews, DOMAIN reviews \subseteq DOMAIN reviews',
         withdrawn \subseteq withdrawn', withdrawn' \subseteq DOMAIN reviews,
         \A r \in withdrawn' \ withdrawn : reviews'[r].status \notin {"DRAFT", "APPROVED"},
         \A r \in withdrawn : reviews'[r].status = reviews[r].status,
         \A r \in DOMAIN reviews' \ DOMAIN reviews : reviews'[r].status = "DRAFT",
         \A r \in DOMAIN reviews : reviews'[r].status = "APPROVED" =>
           \/ /\ reviews[r].status = "APPROVED" /\ reviews'[r].compliance = reviews[r].compliance
              /\ reviews'[r].security = reviews[r].security /\ reviews'[r].clear = reviews[r].clear
           \/ /\ reviews'[r].compliance /\ reviews'[r].security /\ reviews'[r].clear
              /\ \A q \in DOMAIN reviews : q # r => reviews'[q].status # "APPROVED"
  PROVE  GovIInv'
<1>1. \A i, j \in ActiveReviews' : i = j
  <2> SUFFICES ASSUME NEW i \in ActiveReviews', NEW j \in ActiveReviews'
               PROVE  i = j
    OBVIOUS
  <2>1. i \in DOMAIN reviews /\ j \in DOMAIN reviews /\ reviews'[i].status = "APPROVED" /\ reviews'[j].status = "APPROVED"
    BY DEF ActiveReviews
  <2>2. QED
    BY <2>1 DEF GovIInv, ActiveReviews
<1>2. \A r \in DOMAIN reviews' : reviews'[r].status = "APPROVED" => ReviewIsComplete(r)'
  BY DEF GovIInv, ReviewIsComplete
<1>3. \A i, j \in ActiveAdapters' : i = j
  BY DEF GovIInv, ActiveAdapters
<1>4. \A r \in withdrawn' : reviews'[r].status \notin {"DRAFT", "APPROVED"}
  BY DEF GovIInv
<1>5. QED
  BY <1>1, <1>2, <1>3, <1>4 DEF GovIInv

\* The rows a review may become.
LEMMA ReviewRowsAre ==
  ASSUME GovIInv, NEW r \in DOMAIN reviews, NEW st \in ReviewStatuses
  PROVE  /\ [reviews[r] EXCEPT !.status = st] \in ReviewRows /\ [reviews[r] EXCEPT !.status = st].status = st
         /\ [reviews[r] EXCEPT !.status = st].compliance = reviews[r].compliance
         /\ [reviews[r] EXCEPT !.status = st].security = reviews[r].security
         /\ [reviews[r] EXCEPT !.status = st].clear = reviews[r].clear
<1>0. reviews[r] \in ReviewRows
  BY GovFacts
<1>1. PICK a : a = [reviews[r] EXCEPT !.status = st]
  OBVIOUS
<1>2. a \in ReviewRows /\ a.status = st /\ a.compliance = reviews[r].compliance /\ a.security = reviews[r].security
      /\ a.clear = reviews[r].clear
  BY <1>0, <1>1 DEF ReviewRows
<1>3. QED
  BY <1>1, <1>2

LEMMA ReviewCreated ==
  ASSUME GovIInv, CreateReview
  PROVE  GovIInv'
<1>1. PICK clear \in BOOLEAN : reviews' = Append(reviews, [status |-> "DRAFT", compliance |-> FALSE, security |-> FALSE,
                                                           clear |-> clear, lapsed |-> FALSE])
  BY DEF CreateReview
<1>2. PICK row : row = [status |-> "DRAFT", compliance |-> FALSE, security |-> FALSE, clear |-> clear, lapsed |-> FALSE]
  OBVIOUS
<1>3. row \in ReviewRows /\ row.status = "DRAFT"
  BY <1>2 DEF ReviewRows, ReviewStatuses
<1>4. reviews \in Seq(ReviewRows) /\ Len(reviews) \in Nat /\ Len(reviews) < MaxReviews /\ MaxReviews \in Nat
      /\ DOMAIN reviews = 1..Len(reviews)
  BY GovFacts DEF GovIInv, CreateReview
<1>5. /\ reviews' \in Seq(ReviewRows) /\ Len(reviews') = Len(reviews) + 1
      /\ \A i \in 1..Len(reviews) : reviews'[i] = reviews[i]
      /\ reviews'[Len(reviews) + 1] = row
  BY <1>1, <1>2, <1>3, <1>4, AppendProperties
<1>6. DOMAIN reviews' = 1..(Len(reviews) + 1) /\ Len(reviews') <= MaxReviews
  BY <1>4, <1>5
<1>7. DOMAIN reviews \subseteq DOMAIN reviews' /\ \A i \in DOMAIN reviews' : i \in DOMAIN reviews \/ i = Len(reviews) + 1
  BY <1>4, <1>6
<1>8. portal' \in PortalRows
  BY DEF CreateReview, GovIInv, PortalRows, PortalStatuses
<1>9. UNCHANGED <<adapters, auth, grun, gwork, withdrawn, govEdits>>
  BY DEF CreateReview
<1>10. withdrawn \subseteq DOMAIN reviews /\ grun \in GovRunRows
  BY DEF GovIInv
<1>11. QED
  BY <1>3, <1>4, <1>5, <1>6, <1>7, <1>8, <1>9, <1>10, ReviewsKeep

LEMMA ReviewEdited ==
  ASSUME GovIInv, NEW r \in DOMAIN reviews, RecordReviewSignoff(r) \/ ReviewLapses(r)
  PROVE  GovIInv'
<1>0. reviews[r] \in ReviewRows /\ UNCHANGED <<portal, adapters, auth, grun, gwork, withdrawn, govEdits>>
  BY GovFacts DEF RecordReviewSignoff, ReviewLapses
<1>1. PICK row : /\ reviews' = [reviews EXCEPT ![r] = row] /\ row \in ReviewRows /\ row.status = reviews[r].status
                 /\ \/ row.status = "DRAFT"
                    \/ /\ row.compliance = reviews[r].compliance /\ row.security = reviews[r].security
                       /\ row.clear = reviews[r].clear
  <2>1. CASE reviews[r].status = "DRAFT" /\ reviews' = [reviews EXCEPT ![r].compliance = TRUE]
    <3>1. PICK row : row = [reviews[r] EXCEPT !.compliance = TRUE]
      OBVIOUS
    <3>2. row \in ReviewRows /\ row.status = reviews[r].status
      BY <1>0, <3>1 DEF ReviewRows
    <3>3. reviews' = [reviews EXCEPT ![r] = row]
      BY <2>1, <3>1
    <3>4. QED
      BY <2>1, <3>2, <3>3
  <2>2. CASE reviews[r].status = "DRAFT" /\ reviews' = [reviews EXCEPT ![r].security = TRUE]
    <3>1. PICK row : row = [reviews[r] EXCEPT !.security = TRUE]
      OBVIOUS
    <3>2. row \in ReviewRows /\ row.status = reviews[r].status
      BY <1>0, <3>1 DEF ReviewRows
    <3>3. reviews' = [reviews EXCEPT ![r] = row]
      BY <2>2, <3>1
    <3>4. QED
      BY <2>2, <3>2, <3>3
  <2>3. CASE reviews' = [reviews EXCEPT ![r].lapsed = TRUE]
    <3>1. PICK row : row = [reviews[r] EXCEPT !.lapsed = TRUE]
      OBVIOUS
    <3>2. row \in ReviewRows /\ row.status = reviews[r].status /\ row.compliance = reviews[r].compliance
          /\ row.security = reviews[r].security /\ row.clear = reviews[r].clear
      BY <1>0, <3>1 DEF ReviewRows
    <3>3. reviews' = [reviews EXCEPT ![r] = row]
      BY <2>3, <3>1
    <3>4. QED
      BY <3>2, <3>3
  <2>4. QED
    BY <2>1, <2>2, <2>3 DEF RecordReviewSignoff, ReviewLapses
<1>2. reviews \in Seq(ReviewRows) /\ r \in 1..Len(reviews) /\ DOMAIN reviews = 1..Len(reviews)
  BY GovFacts DEF GovIInv
<1>3. reviews' \in Seq(ReviewRows) /\ Len(reviews') = Len(reviews)
  BY <1>1, <1>2, ExceptSeq
<1>4. DOMAIN reviews' = DOMAIN reviews /\ reviews'[r] = row /\ \A q \in DOMAIN reviews : q # r => reviews'[q] = reviews[q]
  BY <1>1, <1>2
<1>5. /\ withdrawn \subseteq DOMAIN reviews /\ grun \in GovRunRows /\ portal \in PortalRows /\ Len(reviews) <= MaxReviews
  BY DEF GovIInv
<1>6. QED
  BY <1>0, <1>1, <1>3, <1>4, <1>5, ReviewsKeep

LEMMA ReviewEnds ==
  ASSUME GovIInv, NEW r \in DOMAIN reviews, SuspendReview(r) \/ ExpireReview(r)
  PROVE  GovIInv'
<1>0. /\ UNCHANGED <<adapters, auth, gwork, govEdits>> /\ withdrawn' = withdrawn \cup {r} /\ r \in ActiveReviews
  BY DEF SuspendReview, ExpireReview
<1>1. PICK st \in {"SUSPENDED", "EXPIRED"} : reviews' = [reviews EXCEPT ![r].status = st]
  BY DEF SuspendReview, ExpireReview
<1>2. PICK row : row = [reviews[r] EXCEPT !.status = st]
  OBVIOUS
<1>3. row \in ReviewRows /\ row.status = st
  BY <1>1, <1>2, ReviewRowsAre DEF ReviewStatuses
<1>4. reviews' = [reviews EXCEPT ![r] = row]
  BY <1>1, <1>2
<1>5. reviews \in Seq(ReviewRows) /\ r \in 1..Len(reviews) /\ DOMAIN reviews = 1..Len(reviews)
  BY GovFacts DEF GovIInv
<1>6. reviews' \in Seq(ReviewRows) /\ Len(reviews') = Len(reviews)
  BY <1>3, <1>4, <1>5, ExceptSeq
<1>7. DOMAIN reviews' = DOMAIN reviews /\ reviews'[r] = row /\ \A q \in DOMAIN reviews : q # r => reviews'[q] = reviews[q]
  BY <1>4, <1>5
<1>8. portal' \in PortalRows
  BY DEF SuspendReview, ExpireReview, GovIInv, PortalRows, PortalStatuses
<1>9. grun' \in GovRunRows
  <2>1. grun \in GovRunRows
    BY DEF GovIInv
  <2>2. [grun EXCEPT !.status = "FAILED_REVIEW"] \in GovRunRows
    BY <2>1 DEF GovRunRows
  <2>3. QED
    BY <2>1, <2>2 DEF SuspendReview, ExpireReview
<1>10. r \notin withdrawn
  BY <1>0 DEF GovIInv, ActiveReviews
<1>11. withdrawn \subseteq DOMAIN reviews /\ Len(reviews) <= MaxReviews
  BY DEF GovIInv
<1>12. \A q \in withdrawn : reviews'[q].status = reviews[q].status
  BY <1>7, <1>10, <1>11
<1>13. \A q \in withdrawn' \ withdrawn : reviews'[q].status \notin {"DRAFT", "APPROVED"}
  BY <1>0, <1>1, <1>3, <1>7
<1>14. \A q \in DOMAIN reviews : reviews'[q].status = "APPROVED" => reviews'[q] = reviews[q]
  BY <1>1, <1>3, <1>7
<1>15. QED
  BY <1>0, <1>6, <1>7, <1>8, <1>9, <1>11, <1>12, <1>13, <1>14, ReviewsKeep

LEMMA ReviewApproved ==
  ASSUME GovIInv, NEW r \in DOMAIN reviews, ApproveReview(r)
  PROVE  GovIInv'
<1>0. /\ UNCHANGED <<adapters, auth, grun, gwork, govEdits>> /\ withdrawn' = withdrawn \cup ActiveReviews
      /\ reviews[r].status = "DRAFT" /\ ReviewIsComplete(r)
  BY DEF ApproveReview
<1>1. DOMAIN reviews' = DOMAIN reviews
  BY DEF ApproveReview
<1>2. ASSUME NEW i \in DOMAIN reviews
      PROVE  reviews'[i] = IF i = r THEN [reviews[i] EXCEPT !.status = "APPROVED"]
                           ELSE IF i \in ActiveReviews THEN [reviews[i] EXCEPT !.status = "SUPERSEDED"] ELSE reviews[i]
  BY DEF ApproveReview
<1>3. ASSUME NEW i \in DOMAIN reviews
      PROVE  /\ reviews'[i] \in ReviewRows
             /\ i = r => /\ reviews'[i].status = "APPROVED" /\ reviews'[i].compliance = reviews[i].compliance
                         /\ reviews'[i].security = reviews[i].security /\ reviews'[i].clear = reviews[i].clear
             /\ i # r /\ i \in ActiveReviews => reviews'[i].status = "SUPERSEDED"
             /\ i # r /\ i \notin ActiveReviews => reviews'[i] = reviews[i]
  <2>1. "APPROVED" \in ReviewStatuses /\ "SUPERSEDED" \in ReviewStatuses /\ reviews[i] \in ReviewRows
    BY GovFacts DEF ReviewStatuses
  <2>2. CASE i = r
    <3>1. reviews'[i] = [reviews[i] EXCEPT !.status = "APPROVED"]
      BY <1>2, <2>2
    <3>2. QED
      BY <2>1, <2>2, <3>1, ReviewRowsAre
  <2>3. CASE i # r /\ i \in ActiveReviews
    <3>1. reviews'[i] = [reviews[i] EXCEPT !.status = "SUPERSEDED"]
      BY <1>2, <2>3
    <3>2. QED
      BY <2>1, <2>3, <3>1, ReviewRowsAre
  <2>4. CASE i # r /\ i \notin ActiveReviews
    BY <1>2, <2>1, <2>4
  <2>5. QED
    BY <2>2, <2>3, <2>4
<1>4. reviews' \in Seq(ReviewRows) /\ Len(reviews') = Len(reviews)
  <2>1. Len(reviews) \in Nat /\ DOMAIN reviews = 1..Len(reviews)
    BY GovFacts
  <2>2. reviews' = [i \in 1..Len(reviews) |-> reviews'[i]]
    BY <2>1 DEF ApproveReview
  <2>3. \A i \in 1..Len(reviews) : reviews'[i] \in ReviewRows
    BY <1>3, <2>1
  <2>4. reviews' \in [1..Len(reviews) -> ReviewRows]
    BY <2>2, <2>3
  <2>5. QED
    BY <2>1, <2>4
<1>5. portal' \in PortalRows
  BY DEF ApproveReview, GovIInv, PortalRows, PortalStatuses, PortalStatusOf, ApprovedPortal
<1>6. withdrawn \subseteq DOMAIN reviews /\ Len(reviews) <= MaxReviews /\ grun \in GovRunRows
  BY DEF GovIInv
<1>7. r \notin ActiveReviews /\ r \notin withdrawn /\ ActiveReviews \subseteq DOMAIN reviews
      /\ \A q \in withdrawn : q \notin ActiveReviews
  BY <1>0 DEF ActiveReviews, GovIInv
<1>8. \A q \in DOMAIN reviews : q # r => reviews'[q].status # "APPROVED"
  BY <1>3 DEF ActiveReviews
<1>9. reviews'[r].compliance /\ reviews'[r].security /\ reviews'[r].clear
  BY <1>0, <1>3 DEF ReviewIsComplete
<1>10. \A q \in withdrawn : reviews'[q].status = reviews[q].status
  BY <1>3, <1>6, <1>7
<1>11. \A q \in withdrawn' \ withdrawn : reviews'[q].status \notin {"DRAFT", "APPROVED"}
  BY <1>0, <1>3, <1>7
<1>12. QED
  BY <1>0, <1>1, <1>4, <1>5, <1>6, <1>7, <1>8, <1>9, <1>10, <1>11, ReviewsKeep

LEMMA AdaptersKeep ==
  ASSUME GovIInv, CreateAdapter \/ \E a \in DOMAIN adapters : ActivateAdapter(a)
  PROVE  GovIInv'
<1>0. UNCHANGED <<portal, reviews, auth, grun, gwork, withdrawn, govEdits>>
  BY DEF CreateAdapter, ActivateAdapter
<1>1. /\ adapters \in Seq(AdapterStatuses) /\ Len(adapters) \in Nat /\ DOMAIN adapters = 1..Len(adapters)
      /\ Len(adapters) <= MaxAdapters /\ MaxAdapters \in Nat
  BY GovFacts DEF GovIInv
<1>2. /\ adapters' \in Seq(AdapterStatuses) /\ Len(adapters') <= MaxAdapters /\ \A i, j \in ActiveAdapters' : i = j
  <2>1. CASE CreateAdapter
    <3>1. adapters' = Append(adapters, "DRAFT") /\ Len(adapters) < MaxAdapters /\ "DRAFT" \in AdapterStatuses
      BY <2>1 DEF CreateAdapter, AdapterStatuses
    <3>2. /\ adapters' \in Seq(AdapterStatuses) /\ Len(adapters') = Len(adapters) + 1
          /\ \A i \in 1..Len(adapters) : adapters'[i] = adapters[i]
          /\ adapters'[Len(adapters) + 1] = "DRAFT"
      BY <1>1, <3>1, AppendProperties
    <3>3. DOMAIN adapters' = 1..(Len(adapters) + 1) /\ Len(adapters') <= MaxAdapters
      BY <1>1, <3>1, <3>2
    <3>4. \A i \in DOMAIN adapters' : i \in DOMAIN adapters \/ i = Len(adapters) + 1
      BY <1>1, <3>3
    <3>5. ActiveAdapters' \subseteq ActiveAdapters
      BY <1>1, <3>2, <3>4 DEF ActiveAdapters
    <3>6. QED
      BY <3>2, <3>3, <3>5 DEF GovIInv
  <2>2. ASSUME NEW a \in DOMAIN adapters, ActivateAdapter(a)
        PROVE  /\ adapters' \in Seq(AdapterStatuses) /\ Len(adapters') <= MaxAdapters /\ \A i, j \in ActiveAdapters' : i = j
    <3>1. adapters' = [i \in 1..Len(adapters) |->
            IF i = a THEN "ACTIVE" ELSE IF i \in ActiveAdapters THEN "SUSPENDED" ELSE adapters[i]]
      BY <1>1, <2>2 DEF ActivateAdapter
    <3>2. \A i \in 1..Len(adapters) : adapters'[i] \in AdapterStatuses /\ (adapters'[i] = "ACTIVE" => i = a)
      BY <1>1, <3>1 DEF AdapterStatuses, ActiveAdapters
    <3>3. adapters' \in [1..Len(adapters) -> AdapterStatuses]
      BY <3>1, <3>2
    <3>4. adapters' \in Seq(AdapterStatuses) /\ Len(adapters') = Len(adapters) /\ DOMAIN adapters' = 1..Len(adapters)
      BY <1>1, <3>3
    <3>5. QED
      BY <1>1, <3>2, <3>4 DEF ActiveAdapters
  <2>3. QED
    BY <2>1, <2>2
<1>3. QED
  BY <1>0, <1>2 DEF GovIInv, ActiveReviews, ReviewIsComplete

LEMMA GovRunsKeep ==
  ASSUME GovIInv, \/ UpdatePortal \/ UpsertAuthorization \/ ExpireAuthorization
                  \/ GovCreateRun \/ GovQueueWork \/ GovBeginWork \/ GovRefuseWork \/ GovEndWork
  PROVE  GovIInv'
<1>0. /\ portal \in PortalRows /\ auth \in AuthStatuses /\ grun \in GovRunRows /\ gwork \in {"none", "queued", "acting"}
      /\ govEdits \in 0..MaxGovEdits /\ MaxGovEdits \in Nat
  BY GovFacts DEF GovIInv
<1>1. UNCHANGED <<reviews, adapters, withdrawn>>
  BY DEF UpdatePortal, UpsertAuthorization, ExpireAuthorization, GovCreateRun, GovQueueWork, GovBeginWork, GovRefuseWork,
         GovEndWork
<1>2. govEdits' \in 0..MaxGovEdits
  BY <1>0 DEF UpdatePortal, UpsertAuthorization, ExpireAuthorization, GovCreateRun, GovQueueWork, GovBeginWork,
              GovRefuseWork, GovEndWork
<1>3. portal' \in PortalRows
  BY <1>0 DEF UpdatePortal, UpsertAuthorization, ExpireAuthorization, GovCreateRun, GovQueueWork, GovBeginWork,
              GovRefuseWork, GovEndWork, PortalRows
<1>4. auth' \in AuthStatuses /\ gwork' \in {"none", "queued", "acting"}
  BY <1>0 DEF UpdatePortal, UpsertAuthorization, ExpireAuthorization, GovCreateRun, GovQueueWork, GovBeginWork,
              GovRefuseWork, GovEndWork, AuthStatuses
<1>5. grun' \in GovRunRows
  <2>1. \A st \in {"OPEN", "FAILED_REVIEW", "DONE"} : [grun EXCEPT !.status = st] \in GovRunRows
    BY <1>0 DEF GovRunRows
  <2>2. CASE GovCreateRun
    <3>1. PICK r \in ActiveReviews, a \in ActiveAdapters \cup {0} : grun' = [status |-> "READY", review |-> r, adapter |-> a]
      BY <2>2 DEF GovCreateRun
    <3>2. MaxReviews \in Nat /\ MaxAdapters \in Nat /\ r \in 1..MaxReviews /\ (a = 0 \/ a \in 1..MaxAdapters)
      BY GovFacts DEF ActiveReviews, ActiveAdapters
    <3>3. r \in 0..MaxReviews /\ a \in 0..MaxAdapters
      BY <3>2
    <3>4. QED
      BY <3>1, <3>3 DEF GovRunRows
  <2>3. CASE ~GovCreateRun
    BY <1>0, <2>1, <2>3 DEF UpdatePortal, UpsertAuthorization, ExpireAuthorization, GovQueueWork, GovBeginWork,
                            GovRefuseWork, GovEndWork
  <2>4. QED
    BY <2>2, <2>3
<1>6. QED
  BY <1>1, <1>2, <1>3, <1>4, <1>5, GovQuiet

LEMMA GovStays == GovIInv /\ [GovNext]_govVars => GovIInv'
<1> SUFFICES ASSUME GovIInv, [GovNext]_govVars
             PROVE  GovIInv'
  OBVIOUS
<1>1. CASE UNCHANGED govVars
  <2>1. UNCHANGED <<portal, reviews, adapters, auth, grun, gwork, withdrawn, govEdits>>
    BY <1>1 DEF govVars
  <2>2. QED
    BY <2>1, GovQuiet DEF GovIInv
<1>2. CASE GovNext
  BY <1>2, GovRunsKeep, ReviewCreated, AdaptersKeep, ReviewEdited, ReviewApproved, ReviewEnds DEF GovNext
<1>3. QED
  BY <1>1, <1>2

LEMMA AtMostOne ==
  ASSUME NEW S, \A x, y \in S : x = y
  PROVE  Cardinality(S) <= 1
<1>1. CASE S = {}
  BY <1>1, FS_EmptySet
<1>2. CASE S # {}
  <2>1. PICK x \in S : TRUE
    BY <1>2
  <2>2. S = {x}
    BY <2>1
  <2>3. Cardinality(S) = 1
    BY <2>2, FS_Singleton
  <2>4. QED
    BY <2>3
<1>3. QED
  BY <1>1, <1>2

LEMMA GovIsTyped == GovIInv => GovTypeOK
<1> SUFFICES ASSUME GovIInv
             PROVE  GovTypeOK
  OBVIOUS
<1>1. Cardinality(ActiveReviews) <= 1 /\ Cardinality(ActiveAdapters) <= 1
  BY AtMostOne DEF GovIInv
<1>2. withdrawn \subseteq 1..MaxReviews
  BY GovFacts DEF GovIInv
<1>3. QED
  BY <1>1, <1>2 DEF GovIInv, GovTypeOK

\* Automation starts under a review in force, hence complete and never withdrawn.
LEMMA ActsStep ==
  ASSUME GovIInv, GovNext, gwork = "queued", gwork' = "acting"
  PROVE  /\ ReviewIsComplete(grun.review) /\ ~reviews[grun.review].lapsed
         /\ reviews[grun.review].status = "APPROVED" /\ grun.review \notin withdrawn
<1>1. GovBeginWork
  BY DEF GovNext, UpdatePortal, CreateReview, CreateAdapter, UpsertAuthorization, ExpireAuthorization, RecordReviewSignoff,
         ApproveReview, SuspendReview, ReviewLapses, ExpireReview, ActivateAdapter, GovCreateRun, GovQueueWork,
         GovRefuseWork, GovEndWork
<1>2. grun.review \in ActiveReviews /\ ~reviews[grun.review].lapsed
  BY <1>1 DEF GovBeginWork, RevalidateGovernance, ApprovalIsCurrent
<1>3. QED
  BY <1>2 DEF GovIInv, ActiveReviews
(***************************************************************************)
(* Form preparation                                                        *)
(***************************************************************************)

\* What a field may hold: nothing, a value typed by hand, or a row of the registry that was approved
\* for this entity or for all of them.
Entitled(v) ==
  \/ v \in {0, TypedByHand}
  \/ v \in DOMAIN infos /\ infos[v].approved /\ (infos[v].entity = "ours" \/ infos[v].cross)

\* A job that has read its form found no draft there, and with one worker none can have come since.
PreparingAlone ==
  /\ \A j \in DOMAIN prepares : prepares[j].form \in DOMAIN forms
  /\ \A j \in DOMAIN prepares : prepares[j].st = "RENDERED" => prepares[j].content \in Contents
  /\ \A j, k \in Preparing : j = k
  /\ \A j \in Preparing : forms[prepares[j].form].draft = NoDraft

\* A form is frozen with a stored draft and nothing outstanding; where it is signed follows from the
\* template once its fields are laid out.
SignatureKept(row) ==
  /\ row.signature_required => SignatureRequired
  /\ row.fields # NoRows /\ SignatureRequired => row.signature_required
  /\ row.status = "SIGNATURE_PENDING" => row.signature_required
  /\ row.status = "READY_FOR_SUBMISSION" => ~row.signature_required
  /\ row.status = "SIGNED" \/ (row.status = "SUBMITTED_EXTERNALLY" /\ row.signature_required) =>
       row.signed \notin {NoDraft, row.approved_draft}

FormRowOK(row) ==
  /\ row.draft # NoDraft => row.draft \in DOMAIN drafts
  /\ row.status \in FROZEN_INSTANCE_STATUSES =>
       /\ row.draft # NoDraft /\ row.approved_draft = row.draft /\ drafts[row.draft]
       /\ \A f \in DOMAIN FormFields : row.fields[f].status \notin OUTSTANDING_FIELD_STATUSES
  /\ \A f \in DOMAIN FormFields : Entitled(row.fields[f].val)
  /\ SignatureKept(row)

\* One value of a scope is in force, and somebody approved it.
OneApproved ==
  /\ \A i, j \in DOMAIN infos :
       infos[i].status = "APPROVED" /\ infos[j].status = "APPROVED" /\ infos[i].entity = infos[j].entity => i = j
  /\ \A i \in DOMAIN infos : infos[i].status = "APPROVED" => infos[i].approved

FormIInv ==
  /\ infos \in Seq(InfoRows) /\ Len(infos) <= MaxInfos /\ OneApproved
  /\ template \in FormTemplateStatuses /\ mapping \in [DOMAIN FormFields -> {"-", "PROPOSED", "APPROVED"}]
  /\ forms \in Seq(FormRows) /\ Len(forms) <= MaxForms
  /\ prepares \in Seq(PrepareRows)
  /\ DOMAIN drafts \subseteq Contents /\ drafts \in [DOMAIN drafts -> BOOLEAN]
  /\ formEdits \in 0..MaxFormEdits
  /\ PreparingAlone
  /\ \A i \in DOMAIN forms : FormRowOK(forms[i])

LEMMA FormFacts ==
  ASSUME FormIInv
  PROVE  /\ MaxInfos \in Nat /\ MaxForms \in Nat /\ MaxFormEdits \in Nat
         /\ Len(infos) \in Nat /\ DOMAIN infos = 1..Len(infos) /\ DOMAIN infos \subseteq 1..MaxInfos
         /\ Len(forms) \in Nat /\ DOMAIN forms = 1..Len(forms) /\ DOMAIN forms \subseteq 1..MaxForms
         /\ Len(prepares) \in Nat /\ DOMAIN prepares = 1..Len(prepares)
         /\ \A i \in DOMAIN infos : infos[i] \in InfoRows
         /\ \A i \in DOMAIN forms : forms[i] \in FormRows
         /\ \A j \in DOMAIN prepares : prepares[j] \in PrepareRows
<1>1. MaxInfos \in Nat /\ MaxForms \in Nat /\ MaxFormEdits \in Nat
  BY FormBounds
<1>2. infos \in Seq(InfoRows) /\ Len(infos) <= MaxInfos /\ forms \in Seq(FormRows) /\ Len(forms) <= MaxForms
      /\ prepares \in Seq(PrepareRows)
  BY DEF FormIInv
<1>3. Len(infos) \in Nat /\ DOMAIN infos = 1..Len(infos) /\ Len(forms) \in Nat /\ DOMAIN forms = 1..Len(forms)
      /\ Len(prepares) \in Nat /\ DOMAIN prepares = 1..Len(prepares)
  BY <1>2
<1>4. DOMAIN infos \subseteq 1..MaxInfos /\ DOMAIN forms \subseteq 1..MaxForms
  BY <1>1, <1>2, <1>3
<1>5. QED
  BY <1>1, <1>2, <1>3, <1>4

LEMMA FormStarts == FormInit => FormIInv
<1> SUFFICES ASSUME FormInit
             PROVE  FormIInv
  OBVIOUS
<1>0. MaxInfos \in Nat /\ MaxForms \in Nat /\ MaxFormEdits \in Nat
  BY FormBounds
<1>1. 0 <= MaxInfos /\ 0 <= MaxForms /\ 0 \in 0..MaxFormEdits
  BY <1>0
<1>2. infos = <<>> /\ forms = <<>> /\ prepares = <<>> /\ drafts = <<>> /\ formEdits = 0
      /\ Len(infos) = 0 /\ Len(forms) = 0 /\ DOMAIN infos = {} /\ DOMAIN forms = {} /\ DOMAIN prepares = {} /\ DOMAIN drafts = {}
  BY DEF FormInit
<1>3. infos \in Seq(InfoRows) /\ forms \in Seq(FormRows) /\ prepares \in Seq(PrepareRows)
  BY <1>2
<1>4. Preparing = {}
  BY <1>2 DEF Preparing
<1>5. PreparingAlone
  BY <1>2, <1>4 DEF PreparingAlone
<1>6. OneApproved
  BY <1>2 DEF OneApproved
<1>7. drafts \in [DOMAIN drafts -> BOOLEAN]
  BY <1>2
<1>8. template \in FormTemplateStatuses /\ mapping \in [DOMAIN FormFields -> {"-", "PROPOSED", "APPROVED"}]
  BY DEF FormInit, FormTemplateStatuses
<1>9. QED
  BY <1>1, <1>2, <1>3, <1>5, <1>6, <1>7, <1>8 DEF FormIInv

\* What the registry does leaves every value entitled that a form holds: an approval is not taken
\* back, nor is the entity or the release to all entities.
LEMMA InfosKeep ==
  ASSUME FormIInv, infos' \in Seq(InfoRows), Len(infos') <= MaxInfos, DOMAIN infos \subseteq DOMAIN infos',
         \A i \in DOMAIN infos : /\ infos'[i].entity = infos[i].entity
                                 /\ infos[i].approved => infos'[i].approved
                                 /\ infos[i].cross => infos'[i].cross,
         OneApproved', formEdits' \in 0..MaxFormEdits, InfoFrame
  PROVE  FormIInv'
<1>1. UNCHANGED <<template, mapping, forms, prepares, drafts>>
  BY DEF InfoFrame
<1>2. ASSUME NEW v, Entitled(v)
      PROVE  Entitled(v)'
  BY <1>2 DEF Entitled
<1>3. ASSUME NEW i \in DOMAIN forms, NEW row, row = forms[i]
      PROVE  FormRowOK(row)'
  <2>1. FormRowOK(row)
    BY <1>3 DEF FormIInv
  <2>2. SignatureKept(row)
    BY <2>1 DEF FormRowOK
  <2>3. \A f \in DOMAIN FormFields : Entitled(row.fields[f].val)'
    BY <2>1, <1>2 DEF FormRowOK
  <2>4. QED
    BY <1>1, <2>1, <2>2, <2>3 DEF FormRowOK, SignatureKept
<1>4. \A i \in DOMAIN forms' : FormRowOK(forms[i])'
  BY <1>1, <1>3
<1>5. PreparingAlone'
  BY <1>1 DEF FormIInv, PreparingAlone, Preparing
<1>6. QED
  BY <1>1, <1>4, <1>5 DEF FormIInv


LEMMA InfoRowsAre ==
  ASSUME FormIInv, NEW i \in DOMAIN infos, NEW st \in InformationValueStatuses, NEW fr \in Freshness, NEW x \in BOOLEAN
  PROVE  /\ [infos[i] EXCEPT !.status = st] \in InfoRows /\ [infos[i] EXCEPT !.status = st].status = st
         /\ [infos[i] EXCEPT !.status = st].entity = infos[i].entity
         /\ [infos[i] EXCEPT !.status = st].approved = infos[i].approved
         /\ [infos[i] EXCEPT !.status = st].cross = infos[i].cross
         /\ [infos[i] EXCEPT !.fresh = fr] \in InfoRows /\ [infos[i] EXCEPT !.fresh = fr].status = infos[i].status
         /\ [infos[i] EXCEPT !.fresh = fr].entity = infos[i].entity
         /\ [infos[i] EXCEPT !.fresh = fr].approved = infos[i].approved
         /\ [infos[i] EXCEPT !.fresh = fr].cross = infos[i].cross
         /\ [infos[i] EXCEPT !.status = "APPROVED", !.approved = TRUE, !.cross = x] \in InfoRows
         /\ [infos[i] EXCEPT !.status = "APPROVED", !.approved = TRUE, !.cross = x].entity = infos[i].entity
         /\ [infos[i] EXCEPT !.status = "APPROVED", !.approved = TRUE, !.cross = x].approved
         /\ [infos[i] EXCEPT !.status = "APPROVED", !.approved = TRUE, !.cross = x].cross = x
<1>0. infos[i] \in InfoRows
  BY FormFacts
<1>1. PICK a : a = [infos[i] EXCEPT !.status = st]
  OBVIOUS
<1>2. a \in InfoRows /\ a.status = st /\ a.entity = infos[i].entity /\ a.approved = infos[i].approved /\ a.cross = infos[i].cross
  BY <1>0, <1>1 DEF InfoRows
<1>3. PICK b : b = [infos[i] EXCEPT !.fresh = fr]
  OBVIOUS
<1>4. b \in InfoRows /\ b.status = infos[i].status /\ b.entity = infos[i].entity /\ b.approved = infos[i].approved
      /\ b.cross = infos[i].cross
  BY <1>0, <1>3 DEF InfoRows
<1>5. PICK c : c = [infos[i] EXCEPT !.status = "APPROVED", !.approved = TRUE, !.cross = x]
  OBVIOUS
<1>6. c \in InfoRows /\ c.entity = infos[i].entity /\ c.approved /\ c.cross = x
  BY <1>0, <1>5 DEF InfoRows, InformationValueStatuses
<1>7. QED
  BY <1>1, <1>2, <1>3, <1>4, <1>5, <1>6

LEMMA AmongFirst ==
  ASSUME NEW n \in Nat, NEW S \in SUBSET (1..n)
  PROVE  IsFiniteSet(S) /\ Cardinality(S) \in Nat /\ Cardinality(S) <= n
<1>1. IsFiniteSet(1..n) /\ Cardinality(1..n) = IF 1 > n THEN 0 ELSE n - 1 + 1
  BY FS_Interval
<1>2. Cardinality(1..n) = n
  BY <1>1
<1>3. IsFiniteSet(S) /\ Cardinality(S) <= n
  BY <1>1, <1>2, FS_Subset
<1>4. QED
  BY <1>3, FS_CardinalityType

LEMMA InfoProposed ==
  ASSUME FormIInv, NEW e \in {"ours", "theirs", "-"}, ProposeValue(e)
  PROVE  FormIInv'
<1>1. PICK row : row = [status |-> "DRAFT", entity |-> e, ver |-> InfoHighest(e) + 1,
                        cross |-> FALSE, fresh |-> "FRESH", approved |-> FALSE]
  OBVIOUS
<1>2. infos \in Seq(InfoRows) /\ Len(infos) \in Nat /\ Len(infos) < MaxInfos /\ MaxInfos \in Nat
      /\ DOMAIN infos = 1..Len(infos) /\ infos' = Append(infos, row)
  BY <1>1, FormFacts DEF FormIInv, ProposeValue
<1>3. InfoHighest(e) \in Nat /\ InfoHighest(e) <= Len(infos)
  <2>1. {i \in DOMAIN infos : infos[i].entity = e} \in SUBSET (1..Len(infos))
    BY <1>2
  <2>2. QED
    BY <1>2, <2>1, AmongFirst DEF InfoHighest
<1>4. InfoHighest(e) + 1 \in 1..MaxInfos
  BY <1>2, <1>3
<1>5. row \in InfoRows /\ row.status = "DRAFT"
  BY <1>1, <1>4 DEF InfoRows, InformationValueStatuses, Freshness
<1>6. /\ infos' \in Seq(InfoRows) /\ Len(infos') = Len(infos) + 1
      /\ \A i \in 1..Len(infos) : infos'[i] = infos[i]
      /\ infos'[Len(infos) + 1] = row
  BY <1>2, <1>5, AppendProperties
<1>7. DOMAIN infos' = 1..(Len(infos) + 1) /\ Len(infos') <= MaxInfos
  BY <1>2, <1>6
<1>8. DOMAIN infos \subseteq DOMAIN infos' /\ \A i \in DOMAIN infos' : i \in DOMAIN infos \/ i = Len(infos) + 1
  BY <1>2, <1>7
<1>9. OneApproved'
  BY <1>2, <1>5, <1>6, <1>8 DEF FormIInv, OneApproved
<1>10. formEdits' \in 0..MaxFormEdits /\ InfoFrame
  BY DEF FormIInv, ProposeValue
<1>11. QED
  BY <1>2, <1>6, <1>7, <1>8, <1>9, <1>10, InfosKeep

\* One row changes, and does not become APPROVED.
LEMMA InfoChanged ==
  ASSUME FormIInv, NEW i \in DOMAIN infos, NEW q \in InfoRows, infos' = [infos EXCEPT ![i] = q],
         q.entity = infos[i].entity, q.approved = infos[i].approved, q.cross = infos[i].cross,
         q.status = "APPROVED" => infos[i].status = "APPROVED",
         formEdits' \in 0..MaxFormEdits, InfoFrame
  PROVE  FormIInv'
<1>1. infos \in Seq(InfoRows) /\ Len(infos) <= MaxInfos
  BY DEF FormIInv
<1>2. infos' \in Seq(InfoRows) /\ Len(infos') = Len(infos) /\ DOMAIN infos' = DOMAIN infos
  BY <1>1
<1>3. \A j \in DOMAIN infos : infos'[j] = IF j = i THEN q ELSE infos[j]
  BY <1>1
<1>4. OneApproved'
  BY <1>2, <1>3 DEF FormIInv, OneApproved
<1>5. QED
  BY <1>1, <1>2, <1>3, <1>4, InfosKeep

LEMMA SecondThoughtBounded ==
  ASSUME FormIInv, SecondThought
  PROVE  formEdits' \in 0..MaxFormEdits
<1>1. formEdits \in 0..MaxFormEdits /\ MaxFormEdits \in Nat
  BY FormFacts DEF FormIInv
<1>2. QED
  BY <1>1 DEF SecondThought

LEMMA InfoEdited ==
  ASSUME FormIInv, NEW i \in DOMAIN infos, SubmitForApproval(i) \/ RejectValue(i) \/ SupersedeValue(i) \/ ValueAges(i)
  PROVE  FormIInv'
<1>0. "PENDING_APPROVAL" \in InformationValueStatuses /\ "REJECTED" \in InformationValueStatuses
      /\ "SUPERSEDED" \in InformationValueStatuses /\ "STALE" \in Freshness /\ "EXPIRED" \in Freshness
  BY DEF InformationValueStatuses, Freshness
<1>1. CASE SubmitForApproval(i)
  <2>1. infos' = [infos EXCEPT ![i] = [infos[i] EXCEPT !.status = "PENDING_APPROVAL"]]
    BY <1>1 DEF SubmitForApproval
  <2>2. formEdits' \in 0..MaxFormEdits /\ InfoFrame
    BY <1>1 DEF SubmitForApproval, FormIInv
  <2>3. QED
    BY <1>0, <2>1, <2>2, InfoRowsAre, InfoChanged
<1>2. CASE RejectValue(i)
  <2>1. infos' = [infos EXCEPT ![i] = [infos[i] EXCEPT !.status = "REJECTED"]]
    BY <1>2 DEF RejectValue
  <2>2. formEdits' \in 0..MaxFormEdits /\ InfoFrame
    BY <1>2, SecondThoughtBounded DEF RejectValue
  <2>3. QED
    BY <1>0, <2>1, <2>2, InfoRowsAre, InfoChanged
<1>3. CASE SupersedeValue(i)
  <2>1. infos' = [infos EXCEPT ![i] = [infos[i] EXCEPT !.status = "SUPERSEDED"]]
    BY <1>3 DEF SupersedeValue
  <2>2. formEdits' \in 0..MaxFormEdits /\ InfoFrame
    BY <1>3, SecondThoughtBounded DEF SupersedeValue
  <2>3. QED
    BY <1>0, <2>1, <2>2, InfoRowsAre, InfoChanged
<1>4. CASE ValueAges(i)
  <2>1. PICK fr \in Freshness : infos' = [infos EXCEPT ![i] = [infos[i] EXCEPT !.fresh = fr]]
    BY <1>0, <1>4 DEF ValueAges
  <2>2. formEdits' \in 0..MaxFormEdits /\ InfoFrame
    BY <1>4, SecondThoughtBounded DEF ValueAges
  <2>3. QED
    BY <1>0, <2>1, <2>2, InfoRowsAre, InfoChanged, ZenonT(40)
<1>5. QED
  BY <1>1, <1>2, <1>3, <1>4

\* Every row of the registry is rewritten in place.
LEMMA InfosRewritten ==
  ASSUME FormIInv, NEW New(_), infos' = [j \in DOMAIN infos |-> New(j)], \A j \in DOMAIN infos : New(j) \in InfoRows
  PROVE  infos' \in Seq(InfoRows) /\ Len(infos') = Len(infos) /\ DOMAIN infos' = DOMAIN infos
         /\ \A j \in DOMAIN infos : infos'[j] = New(j)
<1>1. Len(infos) \in Nat /\ DOMAIN infos = 1..Len(infos)
  BY FormFacts
<1>2. infos' \in [1..Len(infos) -> InfoRows]
  BY <1>1
<1>3. infos' \in Seq(InfoRows)
  BY <1>1, <1>2
<1>4. QED
  BY <1>1, <1>2, <1>3

LEMMA InfoApproved ==
  ASSUME FormIInv, NEW i \in DOMAIN infos, NEW cross \in BOOLEAN, ApproveValue(i, cross)
  PROVE  FormIInv'
<1> DEFINE Up == [infos[i] EXCEPT !.status = "APPROVED", !.approved = TRUE, !.cross = infos[i].cross \/ cross]
           New(j) == CASE j = i -> [infos[j] EXCEPT !.status = "APPROVED", !.approved = TRUE, !.cross = @ \/ cross]
                       [] j \in SupersededBy(i) -> [infos[j] EXCEPT !.status = "SUPERSEDED"]
                       [] OTHER -> infos[j]
<1>0. "SUPERSEDED" \in InformationValueStatuses /\ "FRESH" \in Freshness /\ i \notin SupersededBy(i)
      /\ (infos[i].cross \/ cross) \in BOOLEAN
  BY DEF InformationValueStatuses, Freshness, SupersededBy
<1>1. infos' = [j \in DOMAIN infos |-> New(j)]
  BY DEF ApproveValue
<1>2. \A j \in DOMAIN infos : infos[j] \in InfoRows
  BY FormFacts
<1>3. Up \in InfoRows /\ Up.entity = infos[i].entity /\ Up.approved /\ (infos[i].cross => Up.cross)
  <2>1. PICK x \in BOOLEAN : x = (infos[i].cross \/ cross)
    BY <1>0
  <2>2. PICK up : up = [infos[i] EXCEPT !.status = "APPROVED", !.approved = TRUE, !.cross = x]
    OBVIOUS
  <2>3. up \in InfoRows /\ up.entity = infos[i].entity /\ up.approved /\ up.cross = x
    BY <1>0, <2>2, InfoRowsAre, ZenonT(40)
  <2>4. up = Up /\ (infos[i].cross => x)
    BY <2>1, <2>2
  <2>5. QED
    BY <2>3, <2>4
<1>4. ASSUME NEW j \in DOMAIN infos
      PROVE  /\ New(j) \in InfoRows /\ New(j).entity = infos[j].entity
             /\ infos[j].approved => New(j).approved
             /\ infos[j].cross => New(j).cross
             /\ New(j).status = "APPROVED" => New(j).approved
             /\ j # i /\ New(j).status = "APPROVED" => infos[j].status = "APPROVED" /\ infos[j].entity # infos[i].entity
  <2>1. CASE j = i
    <3>1. New(j) = Up
      BY <1>0, <2>1
    <3>2. QED
      BY <1>3, <2>1, <3>1
  <2>2. CASE j \in SupersededBy(i)
    <3>1. j # i /\ New(j) = [infos[j] EXCEPT !.status = "SUPERSEDED"]
      BY <1>0, <2>2
    <3>2. PICK q : q = New(j)
      OBVIOUS
    <3> HIDE DEF New
    <3>3. q \in InfoRows /\ q.status = "SUPERSEDED" /\ q.entity = infos[j].entity /\ q.approved = infos[j].approved
          /\ q.cross = infos[j].cross
      BY <1>2, <3>1, <3>2 DEF InfoRows, InformationValueStatuses
    <3>4. QED
      BY <3>1, <3>2, <3>3
  <2>3. CASE j # i /\ j \notin SupersededBy(i)
    <3>1. New(j) = infos[j]
      BY <2>3
    <3>2. QED
      BY <1>2, <2>3, <3>1 DEF SupersededBy, FormIInv, OneApproved
  <2>4. QED
    BY <2>1, <2>2, <2>3
<1> HIDE DEF New
<1>5. infos' \in Seq(InfoRows) /\ Len(infos') = Len(infos) /\ DOMAIN infos' = DOMAIN infos /\ \A j \in DOMAIN infos : infos'[j] = New(j)
  BY <1>1, <1>4, InfosRewritten
<1>6. OneApproved'
  BY <1>4, <1>5 DEF FormIInv, OneApproved
<1>7. formEdits' \in 0..MaxFormEdits /\ InfoFrame /\ Len(infos) <= MaxInfos
  BY DEF ApproveValue, FormIInv
<1>8. QED
  BY <1>4, <1>5, <1>6, <1>7, InfosKeep

LEMMA InfosExpire ==
  ASSUME FormIInv, ExpireStaleValues
  PROVE  FormIInv'
<1> DEFINE New(j) == IF infos[j].status = "APPROVED" /\ infos[j].fresh = "EXPIRED"
                     THEN [infos[j] EXCEPT !.status = "EXPIRED"] ELSE infos[j]
<1>0. "EXPIRED" \in InformationValueStatuses /\ "FRESH" \in Freshness /\ \A j \in DOMAIN infos : infos[j] \in InfoRows
  BY FormFacts DEF InformationValueStatuses, Freshness
<1>1. infos' = [j \in DOMAIN infos |-> New(j)]
  BY DEF ExpireStaleValues
<1>2. ASSUME NEW j \in DOMAIN infos
      PROVE  /\ New(j) \in InfoRows /\ New(j).entity = infos[j].entity
             /\ infos[j].approved => New(j).approved
             /\ infos[j].cross => New(j).cross
             /\ New(j).status = "APPROVED" => infos[j].status = "APPROVED"
  <2>1. CASE New(j) = infos[j]
    BY <1>0, <2>1
  <2>2. CASE New(j) = [infos[j] EXCEPT !.status = "EXPIRED"]
    BY <1>0, <2>2, InfoRowsAre, ZenonT(40)
  <2>3. QED
    BY <2>1, <2>2
<1> HIDE DEF New
<1>3. infos' \in Seq(InfoRows) /\ Len(infos') = Len(infos) /\ DOMAIN infos' = DOMAIN infos /\ \A j \in DOMAIN infos : infos'[j] = New(j)
  BY <1>1, <1>2, InfosRewritten
<1>4. OneApproved'
  BY <1>2, <1>3 DEF FormIInv, OneApproved
<1>5. formEdits' \in 0..MaxFormEdits /\ InfoFrame /\ Len(infos) <= MaxInfos
  BY DEF ExpireStaleValues, FormIInv
<1>6. QED
  BY <1>2, <1>3, <1>4, <1>5, InfosKeep

LEMMA TemplatesKeep ==
  ASSUME FormIInv,
         \/ InspectTemplate \/ ActivateTemplate
         \/ \E f \in DOMAIN FormFields, approve \in BOOLEAN : UpsertMapping(f, approve)
  PROVE  FormIInv'
<1>1. UNCHANGED <<infos, forms, prepares, drafts>>
  BY DEF InspectTemplate, ActivateTemplate, UpsertMapping, TemplateFrame
<1>2. formEdits' \in 0..MaxFormEdits
  BY SecondThoughtBounded DEF InspectTemplate, ActivateTemplate, UpsertMapping, FormIInv
<1>3. template' \in FormTemplateStatuses
  BY DEF InspectTemplate, ActivateTemplate, UpsertMapping, FormIInv, FormTemplateStatuses
<1>4. mapping' \in [DOMAIN FormFields -> {"-", "PROPOSED", "APPROVED"}]
  <2>1. CASE InspectTemplate \/ ActivateTemplate
    BY <2>1 DEF InspectTemplate, ActivateTemplate, FormIInv
  <2>2. ASSUME NEW f \in DOMAIN FormFields, NEW approve \in BOOLEAN, UpsertMapping(f, approve)
        PROVE  mapping' \in [DOMAIN FormFields -> {"-", "PROPOSED", "APPROVED"}]
    BY <2>2 DEF UpsertMapping, FormIInv
  <2>3. QED
    BY <2>1, <2>2
<1>5. OneApproved' /\ PreparingAlone'
  BY <1>1 DEF OneApproved, PreparingAlone, Preparing, FormIInv
<1>6. \A i \in DOMAIN forms' : FormRowOK(forms[i])'
  BY <1>1 DEF FormRowOK, Entitled, SignatureKept, FormIInv
<1>7. QED
  BY <1>1, <1>2, <1>3, <1>4, <1>5, <1>6 DEF FormIInv

\* One form changes and keeps the draft it has; the registry, the jobs and the stored drafts stay.
LEMMA FormChanged ==
  ASSUME FormIInv, NEW i \in DOMAIN forms, NEW q \in FormRows, forms' = [forms EXCEPT ![i] = q],
         q.draft = forms[i].draft, FormRowOK(q),
         UNCHANGED <<prepares, drafts>>, FormFrame, formEdits' \in 0..MaxFormEdits
  PROVE  FormIInv'
<1>1. UNCHANGED <<infos, template, mapping, prepares, drafts>>
  BY DEF FormFrame
<1>2. forms \in Seq(FormRows)
  BY DEF FormIInv
<1>3. forms' \in Seq(FormRows) /\ Len(forms') = Len(forms) /\ DOMAIN forms' = DOMAIN forms
  BY <1>2
<1>4. \A k \in DOMAIN forms : forms'[k] = IF k = i THEN q ELSE forms[k]
  BY <1>2
<1>5. ASSUME NEW k \in DOMAIN forms', NEW row, row = forms'[k]
      PROVE  FormRowOK(row)'
  <2>1. FormRowOK(row)
    BY <1>3, <1>4, <1>5 DEF FormIInv
  <2>2. QED
    BY <1>1, <2>1 DEF FormRowOK, Entitled, SignatureKept
<1>6. \A k \in DOMAIN forms' : FormRowOK(forms[k])'
  BY <1>5
<1>7. PreparingAlone'
  BY <1>1, <1>3, <1>4 DEF FormIInv, PreparingAlone, Preparing
<1>8. OneApproved'
  BY <1>1 DEF FormIInv, OneApproved
<1>9. QED
  BY <1>1, <1>3, <1>6, <1>7, <1>8 DEF FormIInv

\* The special contents: no draft holds what "no draft" stands for, where a field is signed.
LEMMA NoDraftIsNone ==
  ASSUME NEW f \in DOMAIN FormFields, NEW c \in Contents
  PROVE  c # NoDraft /\ c # Scan /\ Scan # NoDraft
<1>1. MaxInfos \in Nat
  BY FormBounds
<1>2. c[f] \in 0..TypedByHand /\ NoDraft[f] = TypedByHand + 1 /\ Scan[f] = TypedByHand + 2
  BY DEF Contents, NoDraft, Scan
<1>3. c[f] # NoDraft[f] /\ c[f] # Scan[f] /\ NoDraft[f] # Scan[f]
  BY <1>1, <1>2 DEF TypedByHand
<1>4. QED
  BY <1>3

LEMMA FormCreated ==
  ASSUME FormIInv, CreateInstance
  PROVE  FormIInv'
<1>1. PICK row : row = [status |-> "DRAFT", fields |-> NoRows, signature_required |-> FALSE,
                        snapshot |-> NoDraft, draft |-> NoDraft, approved_draft |-> NoDraft, signed |-> NoDraft]
  OBVIOUS
<1>2. forms \in Seq(FormRows) /\ Len(forms) \in Nat /\ Len(forms) < MaxForms /\ MaxForms \in Nat
      /\ DOMAIN forms = 1..Len(forms) /\ forms' = Append(forms, row)
  BY <1>1, FormFacts DEF FormIInv, CreateInstance
<1>3. NoRows \in [DOMAIN FormFields -> FieldRows] /\ \A f \in DOMAIN FormFields : NoRows[f] = [status |-> "-", val |-> 0]
  <2>1. 0 \in 0..TypedByHand
    BY FormBounds DEF TypedByHand
  <2>2. QED
    BY <2>1 DEF NoRows, FieldRows, FormFieldValueStatuses
<1>4. row \in FormRows
  BY <1>1, <1>3 DEF FormRows, FormInstanceStatuses
<1>5. UNCHANGED <<infos, template, mapping, prepares, drafts, formEdits>>
  BY DEF CreateInstance, FormFrame
<1>6. FormRowOK(row)
  <2>1. SignatureKept(row)
    BY <1>1 DEF SignatureKept
  <2>2. row.draft = NoDraft /\ row.status = "DRAFT" /\ \A f \in DOMAIN FormFields : row.fields[f].val = 0
    BY <1>1, <1>3
  <2>3. QED
    BY <2>1, <2>2 DEF FormRowOK, Entitled, FROZEN_INSTANCE_STATUSES
<1>7. /\ forms' \in Seq(FormRows) /\ Len(forms') = Len(forms) + 1
      /\ \A i \in 1..Len(forms) : forms'[i] = forms[i]
      /\ forms'[Len(forms) + 1] = row
  BY <1>2, <1>4, AppendProperties
<1>8. DOMAIN forms' = 1..(Len(forms) + 1) /\ Len(forms') <= MaxForms
  BY <1>2, <1>7
<1>9. DOMAIN forms \subseteq DOMAIN forms' /\ \A i \in DOMAIN forms' : i \in DOMAIN forms \/ i = Len(forms) + 1
  BY <1>2, <1>8
<1>10. ASSUME NEW k \in DOMAIN forms', NEW r, r = forms'[k]
       PROVE  FormRowOK(r)'
  <2>1. FormRowOK(r)
    BY <1>2, <1>6, <1>7, <1>9, <1>10 DEF FormIInv
  <2>2. QED
    BY <1>5, <2>1 DEF FormRowOK, Entitled, SignatureKept
<1>11. \A k \in DOMAIN forms' : FormRowOK(forms[k])'
  BY <1>10
<1>12. PreparingAlone'
  BY <1>2, <1>5, <1>7, <1>9 DEF FormIInv, PreparingAlone, Preparing
<1>13. OneApproved'
  BY <1>5 DEF FormIInv, OneApproved
<1>14. QED
  BY <1>5, <1>7, <1>8, <1>11, <1>12, <1>13 DEF FormIInv

\* What prefill writes: nothing, or the usable value of the registry.
LEMMA PrefilledIsEntitled ==
  ASSUME FormIInv, NEW f \in DOMAIN FormFields, NEW row \in PrefilledField(f)
  PROVE  row \in FieldRows /\ Entitled(row.val)
<1>1. MaxInfos \in Nat /\ DOMAIN infos \subseteq 1..MaxInfos
  BY FormFacts
<1>2. 0 \in 0..TypedByHand /\ \A i \in DOMAIN infos : i \in 0..TypedByHand
  BY <1>1 DEF TypedByHand
<1>3. \/ \E st \in FormFieldValueStatuses : row = [status |-> st, val |-> 0]
      \/ \E i \in ResolveForUse : row = [status |-> "AUTO_FILLED", val |-> i]
  BY DEF PrefilledField, Unmapped, FormFieldValueStatuses
<1>4. ASSUME NEW st \in FormFieldValueStatuses, row = [status |-> st, val |-> 0]
      PROVE  row \in FieldRows /\ Entitled(row.val)
  BY <1>2, <1>4 DEF FieldRows, Entitled
<1>5. ASSUME NEW i \in ResolveForUse, row = [status |-> "AUTO_FILLED", val |-> i]
      PROVE  row \in FieldRows /\ Entitled(row.val)
  <2>1. i \in DOMAIN infos /\ EvaluateReuse(i)
    BY DEF ResolveForUse
  <2>2. infos[i].approved /\ (infos[i].entity = "ours" \/ infos[i].cross)
    BY <2>1 DEF EvaluateReuse, FormIInv, OneApproved
  <2>3. row.val = i /\ row \in FieldRows
    BY <1>2, <1>5, <2>1 DEF FieldRows, FormFieldValueStatuses
  <2>4. QED
    BY <2>1, <2>2, <2>3 DEF Entitled
<1>6. QED
  BY <1>3, <1>4, <1>5

LEMMA FormPrefilled ==
  ASSUME FormIInv, NEW i \in DOMAIN forms, Prefill(i)
  PROVE  FormIInv'
<1>0. forms[i] \in FormRows /\ FormRowOK(forms[i]) /\ forms[i].status \notin FROZEN_INSTANCE_STATUSES
  BY FormFacts DEF FormIInv, Prefill
<1>1. PICK rows \in [DOMAIN FormFields -> UNION {PrefilledField(f) : f \in DOMAIN FormFields}] :
        /\ \A f \in DOMAIN FormFields : rows[f] \in PrefilledField(f)
        /\ forms' = [forms EXCEPT ![i].fields = rows, ![i].signature_required = SignatureRequired,
             ![i].status = IF \E f \in DOMAIN FormFields : rows[f].status \in OUTSTANDING_FIELD_STATUSES
                           THEN "MISSING_INFORMATION" ELSE "PREFILLED"]
  BY DEF Prefill
<1>2. PICK st \in {"MISSING_INFORMATION", "PREFILLED"} :
        forms' = [forms EXCEPT ![i].fields = rows, ![i].signature_required = SignatureRequired, ![i].status = st]
  <2>1. CASE \E f \in DOMAIN FormFields : rows[f].status \in OUTSTANDING_FIELD_STATUSES
    BY <1>1, <2>1
  <2>2. CASE ~\E f \in DOMAIN FormFields : rows[f].status \in OUTSTANDING_FIELD_STATUSES
    BY <1>1, <2>2
  <2>3. QED
    BY <2>1, <2>2
<1>3. PICK sr \in BOOLEAN : sr = SignatureRequired
  BY DEF SignatureRequired
<1>4. PICK q : q = [forms[i] EXCEPT !.fields = rows, !.signature_required = sr, !.status = st]
  OBVIOUS
<1>5. forms' = [forms EXCEPT ![i] = q]
  BY <1>2, <1>3, <1>4
<1>6. rows \in [DOMAIN FormFields -> FieldRows] /\ \A f \in DOMAIN FormFields : Entitled(rows[f].val)
  BY <1>1, PrefilledIsEntitled
<1>7. q \in FormRows /\ q.fields = rows /\ q.signature_required = sr /\ q.status = st /\ q.draft = forms[i].draft
  BY <1>0, <1>4, <1>6 DEF FormRows, FormInstanceStatuses
<1>8. SignatureKept(q)
  BY <1>3, <1>7 DEF SignatureKept
<1>9. FormRowOK(q)
  BY <1>0, <1>6, <1>7, <1>8 DEF FormRowOK, FROZEN_INSTANCE_STATUSES
<1>10. UNCHANGED <<prepares, drafts>> /\ FormFrame /\ formEdits' \in 0..MaxFormEdits
  BY DEF Prefill, FormIInv
<1>11. QED
  BY <1>5, <1>7, <1>9, <1>10, FormChanged

LEMMA FormFieldSet ==
  ASSUME FormIInv, NEW i \in DOMAIN forms, NEW f \in DOMAIN FormFields, NEW given \in BOOLEAN, NEW s \in PatchStatuses,
         SetField(i, f, given, s)
  PROVE  FormIInv'
<1>0. forms[i] \in FormRows /\ FormRowOK(forms[i]) /\ forms[i].status \notin FROZEN_INSTANCE_STATUSES
      /\ forms[i].fields \in [DOMAIN FormFields -> FieldRows] /\ forms[i].fields[f].status # "-"
  BY FormFacts DEF FormIInv, SetField, SettableField, FormRows
<1>1. PICK row : row = [status |-> s, val |-> IF given THEN TypedByHand ELSE forms[i].fields[f].val]
  OBVIOUS
<1>2. row \in FieldRows /\ Entitled(row.val)
  <2>1. TypedByHand \in 0..TypedByHand /\ s \in FormFieldValueStatuses
    BY FormBounds, PatchAssumption DEF TypedByHand
  <2>2. forms[i].fields[f].val \in 0..TypedByHand /\ Entitled(forms[i].fields[f].val)
    BY <1>0 DEF FieldRows, FormRowOK
  <2>3. CASE given
    BY <1>1, <2>1, <2>3 DEF FieldRows, Entitled
  <2>4. CASE ~given
    BY <1>1, <2>1, <2>2, <2>4 DEF FieldRows
  <2>5. QED
    BY <2>3, <2>4
<1>3. PICK after : after = [forms EXCEPT ![i].fields[f] = row]
  OBVIOUS
<1>4. PICK st : /\ st \in {"PREFILLED", forms[i].status}
                /\ forms' = [after EXCEPT ![i].status = st]
  <2>0. forms \in Seq(FormRows) /\ after[i].status = forms[i].status
    <3>1. forms \in Seq(FormRows)
      BY DEF FormIInv
    <3>2. after[i] = [forms[i] EXCEPT !.fields[f] = row]
      BY <1>3, <3>1
    <3>3. QED
      BY <1>0, <3>1, <3>2 DEF FormRows
  <2>1. PICK open : forms' = [after EXCEPT ![i].status = IF open = {} /\ @ = "MISSING_INFORMATION" THEN "PREFILLED" ELSE @]
    BY <1>1, <1>3 DEF SetField
  <2>2. QED
    BY <2>0, <2>1
<1>5. PICK fields : fields = [forms[i].fields EXCEPT ![f] = row]
  OBVIOUS
<1>6. PICK q : q = [forms[i] EXCEPT !.fields = fields, !.status = st]
  OBVIOUS
<1>7. forms' = [forms EXCEPT ![i] = q]
  <2>1. forms \in Seq(FormRows)
    BY DEF FormIInv
  <2>2. QED
    BY <1>0, <1>3, <1>4, <1>5, <1>6, <2>1 DEF FormRows
<1>8. fields \in [DOMAIN FormFields -> FieldRows] /\ \A g \in DOMAIN FormFields : Entitled(fields[g].val)
  BY <1>0, <1>2, <1>5 DEF FormRowOK
<1>9. st \in FormInstanceStatuses \ FROZEN_INSTANCE_STATUSES
  BY <1>0, <1>4 DEF FormRows, FormInstanceStatuses, FROZEN_INSTANCE_STATUSES
<1>10. q \in FormRows /\ q.fields = fields /\ q.status = st /\ q.draft = forms[i].draft
       /\ q.signature_required = forms[i].signature_required
  BY <1>0, <1>6, <1>8, <1>9 DEF FormRows
<1>11. SignatureKept(q)
  <2>1. forms[i].fields # NoRows
    BY <1>0 DEF NoRows
  <2>2. SignatureKept(forms[i])
    BY <1>0 DEF FormRowOK
  <2>3. QED
    BY <1>9, <1>10, <2>1, <2>2 DEF SignatureKept, FROZEN_INSTANCE_STATUSES
<1>12. FormRowOK(q)
  BY <1>0, <1>8, <1>9, <1>10, <1>11 DEF FormRowOK
<1>13. UNCHANGED <<prepares, drafts>> /\ FormFrame /\ formEdits' \in 0..MaxFormEdits
  BY SecondThoughtBounded DEF SetField
<1>14. QED
  BY <1>7, <1>10, <1>12, <1>13, FormChanged

LEMMA FormApproved ==
  ASSUME FormIInv, NEW i \in DOMAIN forms, ApproveForSignature(i)
  PROVE  FormIInv'
<1>0. forms[i] \in FormRows /\ FormRowOK(forms[i]) /\ DraftReviewed(i) /\ Outstanding(i) = {}
  BY FormFacts DEF FormIInv, ApproveForSignature
<1>1. PICK st : st = ApprovedStatus(i)
  OBVIOUS
<1>2. PICK q : q = [forms[i] EXCEPT !.approved_draft = forms[i].draft, !.status = st]
  OBVIOUS
<1>3. forms' = [forms EXCEPT ![i] = q]
  BY <1>1, <1>2 DEF ApproveForSignature
<1>4. /\ st \in {"SIGNATURE_PENDING", "READY_FOR_SUBMISSION"}
      /\ st = "SIGNATURE_PENDING" => forms[i].signature_required
      /\ st = "READY_FOR_SUBMISSION" => ~forms[i].signature_required
  BY <1>1 DEF ApprovedStatus
<1>5. /\ q \in FormRows /\ q.fields = forms[i].fields /\ q.status = st /\ q.draft = forms[i].draft
      /\ q.approved_draft = forms[i].draft /\ q.signature_required = forms[i].signature_required
  BY <1>0, <1>2, <1>4 DEF FormRows, FormInstanceStatuses
<1>6. SignatureKept(q)
  <2>1. SignatureKept(forms[i])
    BY <1>0 DEF FormRowOK
  <2>2. QED
    BY <1>4, <1>5, <2>1 DEF SignatureKept
<1>7. \A f \in DOMAIN FormFields : forms[i].fields[f].status \notin OUTSTANDING_FIELD_STATUSES
  BY <1>0 DEF Outstanding
<1>8. forms[i].draft # NoDraft /\ drafts[forms[i].draft]
  BY <1>0 DEF DraftReviewed
<1>9. FormRowOK(q)
  BY <1>0, <1>5, <1>6, <1>7, <1>8 DEF FormRowOK
<1>10. UNCHANGED <<prepares, drafts>> /\ FormFrame /\ formEdits' \in 0..MaxFormEdits
  BY DEF ApproveForSignature, ApprovalFrame, FormIInv
<1>11. QED
  BY <1>3, <1>5, <1>9, <1>10, FormChanged

LEMMA FormSigned ==
  ASSUME FormIInv, NEW i \in DOMAIN forms, RecordSignedDocument(i)
  PROVE  FormIInv'
<1>0. forms[i] \in FormRows /\ FormRowOK(forms[i]) /\ forms[i].status = "SIGNATURE_PENDING"
  BY FormFacts DEF FormIInv, RecordSignedDocument
<1>1. PICK d \in {Scan} \cup {c \in DOMAIN drafts : drafts[c]} :
        d # forms[i].approved_draft /\ forms' = [forms EXCEPT ![i].signed = d, ![i].status = "SIGNED"]
  BY DEF RecordSignedDocument
<1>2. PICK q : q = [forms[i] EXCEPT !.signed = d, !.status = "SIGNED"]
  OBVIOUS
<1>3. forms' = [forms EXCEPT ![i] = q]
  BY <1>1, <1>2
<1>4. d \in Contents \cup {NoDraft, Scan}
  BY <1>1 DEF FormIInv
<1>5. /\ q \in FormRows /\ q.fields = forms[i].fields /\ q.status = "SIGNED" /\ q.draft = forms[i].draft
      /\ q.approved_draft = forms[i].approved_draft /\ q.signature_required = forms[i].signature_required /\ q.signed = d
  BY <1>0, <1>2, <1>4 DEF FormRows, FormInstanceStatuses
<1>6. SignatureKept(forms[i])
  BY <1>0 DEF FormRowOK
<1>7. PICK f \in DOMAIN FormFields : TRUE
  BY <1>0, <1>6 DEF SignatureKept, SignatureRequired
<1>8. d # NoDraft
  <2>1. CASE d = Scan
    <3>1. MaxInfos \in Nat
      BY FormBounds
    <3>2. NoDraft[f] = TypedByHand + 1 /\ Scan[f] = TypedByHand + 2
      BY DEF NoDraft, Scan
    <3>3. NoDraft[f] # Scan[f]
      BY <3>1, <3>2 DEF TypedByHand
    <3>4. QED
      BY <2>1, <3>3
  <2>2. CASE d \in DOMAIN drafts
    BY <1>7, <2>2, NoDraftIsNone DEF FormIInv
  <2>3. QED
    BY <1>1, <2>1, <2>2
<1>9. SignatureKept(q)
  BY <1>1, <1>5, <1>6, <1>8 DEF SignatureKept
<1>10. FormRowOK(q)
  BY <1>0, <1>5, <1>9 DEF FormRowOK, FROZEN_INSTANCE_STATUSES
<1>11. UNCHANGED <<prepares, drafts>> /\ FormFrame /\ formEdits' \in 0..MaxFormEdits
  BY DEF RecordSignedDocument, ApprovalFrame, FormIInv
<1>12. QED
  BY <1>3, <1>5, <1>10, <1>11, FormChanged

LEMMA FormSubmitted ==
  ASSUME FormIInv, NEW i \in DOMAIN forms, RecordExternalSubmission(i)
  PROVE  FormIInv'
<1>0. forms[i] \in FormRows /\ FormRowOK(forms[i]) /\ forms[i].status \in {"SIGNED", "READY_FOR_SUBMISSION"}
  BY FormFacts DEF FormIInv, RecordExternalSubmission
<1>1. PICK q : q = [forms[i] EXCEPT !.status = "SUBMITTED_EXTERNALLY"]
  OBVIOUS
<1>2. forms' = [forms EXCEPT ![i] = q]
  BY <1>1 DEF RecordExternalSubmission
<1>3. /\ q \in FormRows /\ q.fields = forms[i].fields /\ q.status = "SUBMITTED_EXTERNALLY" /\ q.draft = forms[i].draft
      /\ q.approved_draft = forms[i].approved_draft /\ q.signature_required = forms[i].signature_required
      /\ q.signed = forms[i].signed
  BY <1>0, <1>1 DEF FormRows, FormInstanceStatuses
<1>4. SignatureKept(q)
  <2>1. SignatureKept(forms[i])
    BY <1>0 DEF FormRowOK
  <2>2. QED
    BY <1>0, <1>3, <2>1 DEF SignatureKept
<1>5. FormRowOK(q)
  BY <1>0, <1>3, <1>4 DEF FormRowOK, FROZEN_INSTANCE_STATUSES
<1>6. UNCHANGED <<prepares, drafts>> /\ FormFrame /\ formEdits' \in 0..MaxFormEdits
  BY DEF RecordExternalSubmission, ApprovalFrame, FormIInv
<1>7. QED
  BY <1>2, <1>3, <1>5, <1>6, FormChanged

LEMMA DocumentApproved ==
  ASSUME FormIInv, NEW d \in DOMAIN drafts, ApproveDocument(d)
  PROVE  FormIInv'
<1>1. UNCHANGED <<infos, template, mapping, forms, prepares, formEdits>>
  BY DEF ApproveDocument, ApprovalFrame, FormFrame
<1>2. drafts' = [drafts EXCEPT ![d] = TRUE] /\ drafts \in [DOMAIN drafts -> BOOLEAN]
  BY DEF ApproveDocument, FormIInv
<1>3. drafts' \in [DOMAIN drafts -> BOOLEAN] /\ DOMAIN drafts' = DOMAIN drafts
  BY <1>2
<1>4. \A c \in DOMAIN drafts : drafts[c] => drafts'[c]
  BY <1>2
<1>5. ASSUME NEW k \in DOMAIN forms, NEW row, row = forms[k]
      PROVE  FormRowOK(row)'
  <2>1. FormRowOK(row)
    BY <1>5 DEF FormIInv
  <2>2. QED
    BY <1>1, <1>3, <1>4, <2>1 DEF FormRowOK, Entitled, SignatureKept
<1>6. \A k \in DOMAIN forms' : FormRowOK(forms[k])'
  BY <1>1, <1>5
<1>7. PreparingAlone' /\ OneApproved'
  BY <1>1 DEF FormIInv, PreparingAlone, Preparing, OneApproved
<1>8. QED
  BY <1>1, <1>3, <1>6, <1>7 DEF FormIInv

\* Jobs change and the forms keep everything but a snapshot and a status.
LEMMA PreparesKeep ==
  ASSUME FormIInv, FormFrame, UNCHANGED <<drafts, formEdits>>, prepares' \in Seq(PrepareRows), PreparingAlone',
         forms' \in Seq(FormRows), Len(forms') = Len(forms), DOMAIN forms' = DOMAIN forms,
         \A k \in DOMAIN forms : FormRowOK(forms'[k])
  PROVE  FormIInv'
<1>1. UNCHANGED <<infos, template, mapping, drafts, formEdits>>
  BY DEF FormFrame
<1>2. ASSUME NEW k \in DOMAIN forms', NEW row, row = forms'[k]
      PROVE  FormRowOK(row)'
  <2>1. FormRowOK(row)
    BY <1>2
  <2>2. QED
    BY <1>1, <2>1 DEF FormRowOK, Entitled, SignatureKept
<1>3. \A k \in DOMAIN forms' : FormRowOK(forms[k])'
  BY <1>2
<1>4. OneApproved'
  BY <1>1 DEF FormIInv, OneApproved
<1>5. QED
  BY <1>1, <1>3, <1>4 DEF FormIInv

LEMMA FormGenerated ==
  ASSUME FormIInv, NEW i \in DOMAIN forms, GenerateForm(i)
  PROVE  FormIInv'
<1>1. PICK row : row = [form |-> i, st |-> "PENDING", seen |-> "DRAFT", content |-> NoDraft]
  OBVIOUS
<1>2. prepares \in Seq(PrepareRows) /\ Len(prepares) \in Nat /\ DOMAIN prepares = 1..Len(prepares)
      /\ prepares' = Append(prepares, row) /\ i \in 1..MaxForms
  BY <1>1, FormFacts DEF FormIInv, GenerateForm
<1>3. row \in PrepareRows /\ row.st = "PENDING" /\ row.form = i
  BY <1>1, <1>2 DEF PrepareRows, FormInstanceStatuses
<1>4. /\ prepares' \in Seq(PrepareRows) /\ Len(prepares') = Len(prepares) + 1
      /\ \A j \in 1..Len(prepares) : prepares'[j] = prepares[j]
      /\ prepares'[Len(prepares) + 1] = row
  BY <1>2, <1>3, AppendProperties
<1>5. DOMAIN prepares' = 1..(Len(prepares) + 1)
  BY <1>2, <1>4
<1>6. \A j \in DOMAIN prepares' : j \in DOMAIN prepares \/ j = Len(prepares) + 1
  BY <1>2, <1>5
<1>7. UNCHANGED <<forms, drafts, formEdits>> /\ FormFrame
  BY DEF GenerateForm
<1>8. \A j \in Preparing' : j \in Preparing /\ prepares'[j] = prepares[j]
  BY <1>2, <1>3, <1>4, <1>6 DEF Preparing
<1>9. PreparingAlone'
  <2>1. \A j \in DOMAIN prepares' : prepares'[j].form \in DOMAIN forms
    BY <1>2, <1>3, <1>4, <1>6 DEF FormIInv, PreparingAlone
  <2>2. \A j \in DOMAIN prepares' : prepares'[j].st = "RENDERED" => prepares'[j].content \in Contents
    BY <1>2, <1>3, <1>4, <1>6 DEF FormIInv, PreparingAlone
  <2>3. QED
    BY <1>7, <1>8, <2>1, <2>2 DEF FormIInv, PreparingAlone
<1>10. forms \in Seq(FormRows) /\ \A k \in DOMAIN forms : FormRowOK(forms[k])
  BY DEF FormIInv
<1>11. QED
  BY <1>4, <1>7, <1>9, <1>10, PreparesKeep

\* One job moves on: how its row looks then.
LEMMA JobChanged ==
  ASSUME FormIInv, NEW j \in DOMAIN prepares, NEW q \in PrepareRows, prepares' = [prepares EXCEPT ![j] = q],
         q.form = prepares[j].form
  PROVE  /\ prepares' \in Seq(PrepareRows) /\ DOMAIN prepares' = DOMAIN prepares
         /\ \A k \in DOMAIN prepares : prepares'[k] = IF k = j THEN q ELSE prepares[k]
         /\ \A k \in DOMAIN prepares : prepares'[k].form = prepares[k].form
         /\ q.form \in DOMAIN forms
<1>1. prepares \in Seq(PrepareRows)
  BY DEF FormIInv
<1>2. prepares' \in Seq(PrepareRows) /\ DOMAIN prepares' = DOMAIN prepares
      /\ \A k \in DOMAIN prepares : prepares'[k] = IF k = j THEN q ELSE prepares[k]
  BY <1>1
<1>3. q.form \in DOMAIN forms
  BY DEF FormIInv, PreparingAlone
<1>4. QED
  BY <1>2, <1>3

\* A worker reads only when no other job is under way.
LEMMA FormRead ==
  ASSUME FormIInv, NEW j \in DOMAIN prepares, PrepareReads(j)
  PROVE  FormIInv'
<1>1. PICK form : form = forms[prepares[j].form]
  OBVIOUS
<1>2. prepares[j] \in PrepareRows /\ form \in FormRows /\ prepares[j].form \in DOMAIN forms
  BY <1>1, FormFacts DEF FormIInv, PreparingAlone
<1>3. PICK st : /\ st = IF form.draft # NoDraft THEN "COMPLETED" ELSE "READ"
                /\ prepares' = [prepares EXCEPT ![j].st = st, ![j].seen = form.status]
  BY <1>1 DEF PrepareReads
<1>4. PICK q : q = [prepares[j] EXCEPT !.st = st, !.seen = form.status]
  OBVIOUS
<1>5. prepares' = [prepares EXCEPT ![j] = q]
  BY <1>3, <1>4
<1>6. st \in {"COMPLETED", "READ"} /\ (st = "READ" => form.draft = NoDraft)
  BY <1>3
<1>7. form.status \in FormInstanceStatuses
  BY <1>2 DEF FormRows
<1>8. q \in PrepareRows /\ q.st = st /\ q.form = prepares[j].form
  BY <1>2, <1>4, <1>6, <1>7 DEF PrepareRows
<1>9. /\ prepares' \in Seq(PrepareRows) /\ DOMAIN prepares' = DOMAIN prepares
      /\ \A k \in DOMAIN prepares : prepares'[k] = IF k = j THEN q ELSE prepares[k]
      /\ \A k \in DOMAIN prepares : prepares'[k].form = prepares[k].form
  BY <1>5, <1>8, JobChanged
<1>10. Preparing = {}
  <2>1. Len(prepares) \in Nat /\ Preparing \in SUBSET (1..Len(prepares))
    BY FormFacts DEF Preparing
  <2>2. IsFiniteSet(Preparing) /\ Cardinality(Preparing) \in Nat
    BY <2>1, AmongFirst
  <2>3. Cardinality(Preparing) = 0
    BY <2>2, OneGeneralWorker DEF PrepareReads
  <2>4. QED
    BY <2>2, <2>3, FS_EmptySet
<1>11. UNCHANGED <<forms, drafts, formEdits>> /\ FormFrame
  BY DEF PrepareReads
<1>12. \A k \in Preparing' : k = j /\ st = "READ"
  BY <1>6, <1>8, <1>9, <1>10 DEF Preparing
<1>13. PreparingAlone'
  <2>1. \A k \in DOMAIN prepares' : prepares'[k].st = "RENDERED" => prepares'[k].content \in Contents
    BY <1>6, <1>8, <1>9 DEF FormIInv, PreparingAlone
  <2>2. \A k \in DOMAIN prepares' : prepares'[k].form \in DOMAIN forms
    BY <1>9 DEF FormIInv, PreparingAlone
  <2>3. QED
    BY <1>1, <1>6, <1>9, <1>11, <1>12, <2>1, <2>2 DEF PreparingAlone
<1>14. forms \in Seq(FormRows) /\ \A k \in DOMAIN forms : FormRowOK(forms[k])
  BY DEF FormIInv
<1>15. QED
  BY <1>9, <1>11, <1>13, <1>14, PreparesKeep

LEMMA FormFails ==
  ASSUME FormIInv, NEW j \in DOMAIN prepares, PrepareFails(j)
  PROVE  FormIInv'
<1>1. PICK s \in {"PENDING", "FAILED_REVIEW"} : prepares' = [prepares EXCEPT ![j].st = s, ![j].content = NoDraft]
  BY DEF PrepareFails
<1>2. PICK q : q = [prepares[j] EXCEPT !.st = s, !.content = NoDraft]
  OBVIOUS
<1>3. prepares' = [prepares EXCEPT ![j] = q] /\ prepares[j] \in PrepareRows
  BY <1>1, <1>2, FormFacts
<1>4. q \in PrepareRows /\ q.st = s /\ q.form = prepares[j].form
  BY <1>2, <1>3 DEF PrepareRows
<1>5. /\ prepares' \in Seq(PrepareRows) /\ DOMAIN prepares' = DOMAIN prepares
      /\ \A k \in DOMAIN prepares : prepares'[k] = IF k = j THEN q ELSE prepares[k]
      /\ \A k \in DOMAIN prepares : prepares'[k].form = prepares[k].form
  BY <1>3, <1>4, JobChanged
<1>6. \A k \in Preparing' : k \in Preparing /\ prepares'[k] = prepares[k]
  BY <1>4, <1>5 DEF Preparing
<1>7. UNCHANGED <<forms, drafts, formEdits>> /\ FormFrame
  BY DEF PrepareFails
<1>8. PreparingAlone'
  <2>1. \A k \in DOMAIN prepares' : prepares'[k].st = "RENDERED" => prepares'[k].content \in Contents
    BY <1>4, <1>5 DEF FormIInv, PreparingAlone
  <2>2. \A k \in DOMAIN prepares' : prepares'[k].form \in DOMAIN forms
    BY <1>5 DEF FormIInv, PreparingAlone
  <2>3. QED
    BY <1>6, <1>7, <2>1, <2>2 DEF FormIInv, PreparingAlone
<1>9. forms \in Seq(FormRows) /\ \A k \in DOMAIN forms : FormRowOK(forms[k])
  BY DEF FormIInv
<1>10. QED
  BY <1>5, <1>7, <1>8, <1>9, PreparesKeep

\* A form without a draft is not frozen.
LEMMA NoDraftNotFrozen ==
  ASSUME FormIInv, NEW j \in Preparing
  PROVE  forms[prepares[j].form].draft = NoDraft /\ forms[prepares[j].form].status \notin FROZEN_INSTANCE_STATUSES
<1>1. j \in DOMAIN prepares
  BY DEF Preparing
<1>2. prepares[j].form \in DOMAIN forms /\ forms[prepares[j].form].draft = NoDraft
  BY <1>1 DEF FormIInv, PreparingAlone
<1>3. FormRowOK(forms[prepares[j].form])
  BY <1>2 DEF FormIInv
<1>4. QED
  BY <1>2, <1>3 DEF FormRowOK

LEMMA FilledIsContent ==
  ASSUME FormIInv, NEW i \in DOMAIN forms
  PROVE  Filled(i) \in Contents
<1>1. forms[i] \in FormRows
  BY FormFacts
<1>2. 0 \in 0..TypedByHand
  BY FormBounds DEF TypedByHand
<1>3. \A f \in DOMAIN FormFields : forms[i].fields[f].val \in 0..TypedByHand
  BY <1>1 DEF FormRows, FieldRows
<1>4. QED
  BY <1>2, <1>3 DEF Filled, Contents

LEMMA FormDrafted ==
  ASSUME FormIInv, NEW j \in DOMAIN prepares, GenerateDraft(j)
  PROVE  FormIInv'
<1>1. PICK i : i = prepares[j].form
  OBVIOUS
<1>2. prepares[j] \in PrepareRows /\ i \in DOMAIN forms /\ prepares[j].st = "READ" /\ j \in Preparing
  BY <1>1, FormFacts DEF FormIInv, PreparingAlone, GenerateDraft, Preparing
<1>3. forms[i] \in FormRows /\ FormRowOK(forms[i]) /\ forms[i].draft = NoDraft /\ forms[i].status \notin FROZEN_INSTANCE_STATUSES
  BY <1>1, <1>2, FormFacts, NoDraftNotFrozen DEF FormIInv
<1>4. UNCHANGED <<drafts, formEdits>> /\ FormFrame /\ forms \in Seq(FormRows)
  BY DEF GenerateDraft, FormIInv
<1>5. CASE Outstanding(i) = {}
  <2>1. PICK c \in Contents : c = Filled(i)
    BY <1>2, FilledIsContent
  <2>2. PICK st : /\ st \in {"READY_FOR_REVIEW", forms[i].status}
                  /\ prepares' = [prepares EXCEPT ![j].st = "RENDERED", ![j].content = c]
                  /\ forms' = [forms EXCEPT ![i].snapshot = c, ![i].status = st]
    <3>1. /\ prepares' = [prepares EXCEPT ![j].st = "RENDERED", ![j].content = c]
          /\ forms' = [forms EXCEPT ![i].snapshot = c,
               ![i].status = IF prepares[j].seen \in {"PREFILLED", "DRAFT"} THEN "READY_FOR_REVIEW" ELSE @]
      BY <1>1, <1>5, <2>1 DEF GenerateDraft
    <3>2. forms[i].status = [forms[i] EXCEPT !.snapshot = c].status
      BY <1>3 DEF FormRows
    <3>3. CASE prepares[j].seen \in {"PREFILLED", "DRAFT"}
      BY <3>1, <3>3
    <3>4. CASE prepares[j].seen \notin {"PREFILLED", "DRAFT"}
      <4>1. forms' = [forms EXCEPT ![i].snapshot = c, ![i].status = forms[i].status]
        BY <1>2, <1>3, <1>4, <3>1, <3>4 DEF FormRows
      <4>2. QED
        BY <3>1, <4>1
    <3>5. QED
      BY <3>3, <3>4
  <2>3. PICK q : q = [prepares[j] EXCEPT !.st = "RENDERED", !.content = c]
    OBVIOUS
  <2>4. PICK r : r = [forms[i] EXCEPT !.snapshot = c, !.status = st]
    OBVIOUS
  <2>5. prepares' = [prepares EXCEPT ![j] = q] /\ forms' = [forms EXCEPT ![i] = r]
    BY <2>2, <2>3, <2>4
  <2>6. q \in PrepareRows /\ q.st = "RENDERED" /\ q.form = prepares[j].form /\ q.content = c
    BY <1>2, <2>3 DEF PrepareRows
  <2>7. st \in FormInstanceStatuses \ FROZEN_INSTANCE_STATUSES
    BY <1>3, <2>2 DEF FormRows, FormInstanceStatuses, FROZEN_INSTANCE_STATUSES
  <2>8. /\ r \in FormRows /\ r.fields = forms[i].fields /\ r.draft = NoDraft /\ r.status = st
        /\ r.signature_required = forms[i].signature_required
    BY <1>3, <2>4, <2>7 DEF FormRows
  <2>9. FormRowOK(r)
    <3>1. SignatureKept(forms[i])
      BY <1>3 DEF FormRowOK
    <3>2. SignatureKept(r)
      BY <2>7, <2>8, <3>1 DEF SignatureKept, FROZEN_INSTANCE_STATUSES
    <3>3. QED
      BY <1>3, <2>7, <2>8, <3>2 DEF FormRowOK
  <2>10. /\ prepares' \in Seq(PrepareRows) /\ DOMAIN prepares' = DOMAIN prepares
         /\ \A k \in DOMAIN prepares : prepares'[k] = IF k = j THEN q ELSE prepares[k]
         /\ \A k \in DOMAIN prepares : prepares'[k].form = prepares[k].form
    BY <2>5, <2>6, JobChanged
  <2>11. /\ forms' \in Seq(FormRows) /\ Len(forms') = Len(forms) /\ DOMAIN forms' = DOMAIN forms
         /\ \A k \in DOMAIN forms : forms'[k] = IF k = i THEN r ELSE forms[k]
    BY <1>2, <1>4, <2>5, <2>8
  <2>12. \A k \in DOMAIN forms : FormRowOK(forms'[k]) /\ forms'[k].draft = forms[k].draft
    BY <1>3, <2>8, <2>9, <2>11 DEF FormIInv
  <2>13. Preparing' \subseteq Preparing
    BY <1>2, <2>10 DEF Preparing
  <2>14. PreparingAlone'
    <3>1. \A k \in DOMAIN prepares' : prepares'[k].st = "RENDERED" => prepares'[k].content \in Contents
      BY <2>6, <2>10 DEF FormIInv, PreparingAlone
    <3>2. \A k \in DOMAIN prepares' : prepares'[k].form \in DOMAIN forms'
      BY <2>10, <2>11 DEF FormIInv, PreparingAlone
    <3>3. \A k \in Preparing' : forms'[prepares'[k].form].draft = NoDraft
      BY <2>10, <2>12, <2>13, SMTT(20) DEF FormIInv, PreparingAlone, Preparing
    <3>4. QED
      BY <2>13, <3>1, <3>2, <3>3 DEF FormIInv, PreparingAlone
  <2>15. QED
    BY <1>4, <2>10, <2>11, <2>12, <2>14, PreparesKeep
<1>6. CASE Outstanding(i) # {}
  <2>1. UNCHANGED forms /\ prepares' = [prepares EXCEPT ![j].st = "FAILED_REVIEW"]
    BY <1>1, <1>6 DEF GenerateDraft
  <2>2. PICK q : q = [prepares[j] EXCEPT !.st = "FAILED_REVIEW"]
    OBVIOUS
  <2>3. q \in PrepareRows /\ q.st = "FAILED_REVIEW" /\ q.form = prepares[j].form /\ prepares' = [prepares EXCEPT ![j] = q]
    BY <1>2, <2>1, <2>2 DEF PrepareRows
  <2>4. /\ prepares' \in Seq(PrepareRows) /\ DOMAIN prepares' = DOMAIN prepares
        /\ \A k \in DOMAIN prepares : prepares'[k] = IF k = j THEN q ELSE prepares[k]
        /\ \A k \in DOMAIN prepares : prepares'[k].form = prepares[k].form
    BY <2>3, JobChanged
  <2>5. \A k \in Preparing' : k \in Preparing /\ prepares'[k] = prepares[k]
    BY <2>3, <2>4 DEF Preparing
  <2>6. PreparingAlone'
    <3>1. \A k \in DOMAIN prepares' : prepares'[k].st = "RENDERED" => prepares'[k].content \in Contents
      BY <2>3, <2>4 DEF FormIInv, PreparingAlone
    <3>2. \A k \in DOMAIN prepares' : prepares'[k].form \in DOMAIN forms
      BY <2>4 DEF FormIInv, PreparingAlone
    <3>3. QED
      BY <2>1, <2>5, <3>1, <3>2 DEF FormIInv, PreparingAlone
  <2>7. \A k \in DOMAIN forms : FormRowOK(forms[k])
    BY DEF FormIInv
  <2>8. QED
    BY <1>4, <2>1, <2>4, <2>6, <2>7, PreparesKeep
<1>7. QED
  BY <1>5, <1>6

LEMMA FormStored ==
  ASSUME FormIInv, NEW j \in DOMAIN prepares, StoreGeneratedDocument(j)
  PROVE  FormIInv'
<1>1. PICK i, c : i = prepares[j].form /\ c = prepares[j].content
  OBVIOUS
<1>2. prepares[j] \in PrepareRows /\ i \in DOMAIN forms /\ prepares[j].st = "RENDERED" /\ j \in Preparing /\ c \in Contents
  BY <1>1, FormFacts DEF FormIInv, PreparingAlone, StoreGeneratedDocument, Preparing
<1>3. forms[i] \in FormRows /\ FormRowOK(forms[i]) /\ forms[i].draft = NoDraft /\ forms[i].status \notin FROZEN_INSTANCE_STATUSES
  BY <1>1, <1>2, FormFacts, NoDraftNotFrozen DEF FormIInv
<1>4. UNCHANGED <<infos, template, mapping, formEdits>> /\ forms \in Seq(FormRows) /\ drafts \in [DOMAIN drafts -> BOOLEAN]
      /\ DOMAIN drafts \subseteq Contents
  BY DEF StoreGeneratedDocument, FormIInv, FormFrame
<1>5. /\ prepares' = [prepares EXCEPT ![j].st = "COMPLETED"] /\ forms' = [forms EXCEPT ![i].draft = c]
      /\ drafts' = [d \in DOMAIN drafts \cup {c} |-> d \in DOMAIN drafts /\ drafts[d]]
  BY <1>1 DEF StoreGeneratedDocument
<1>6. PICK q : q = [prepares[j] EXCEPT !.st = "COMPLETED"]
  OBVIOUS
<1>7. q \in PrepareRows /\ q.st = "COMPLETED" /\ q.form = prepares[j].form /\ prepares' = [prepares EXCEPT ![j] = q]
  BY <1>2, <1>5, <1>6 DEF PrepareRows
<1>8. PICK r : r = [forms[i] EXCEPT !.draft = c]
  OBVIOUS
<1>9. /\ r \in FormRows /\ r.fields = forms[i].fields /\ r.draft = c /\ r.status = forms[i].status
      /\ r.signature_required = forms[i].signature_required /\ forms' = [forms EXCEPT ![i] = r]
  BY <1>2, <1>3, <1>5, <1>8 DEF FormRows
<1>10. DOMAIN drafts' = DOMAIN drafts \cup {c} /\ drafts' \in [DOMAIN drafts' -> BOOLEAN]
       /\ \A d \in DOMAIN drafts : drafts[d] => drafts'[d]
  BY <1>4, <1>5
<1>11. /\ prepares' \in Seq(PrepareRows) /\ DOMAIN prepares' = DOMAIN prepares
       /\ \A k \in DOMAIN prepares : prepares'[k] = IF k = j THEN q ELSE prepares[k]
       /\ \A k \in DOMAIN prepares : prepares'[k].form = prepares[k].form
  BY <1>7, JobChanged
<1>12. /\ forms' \in Seq(FormRows) /\ Len(forms') = Len(forms) /\ DOMAIN forms' = DOMAIN forms
       /\ \A k \in DOMAIN forms : forms'[k] = IF k = i THEN r ELSE forms[k]
  BY <1>2, <1>4, <1>9
<1>13. ASSUME NEW k \in DOMAIN forms', NEW row, row = forms'[k]
       PROVE  FormRowOK(row)'
  <2>1. FormRowOK(forms[k])
    BY <1>12 DEF FormIInv
  <2>2. CASE k = i
    <3>1. row = r /\ row.draft \in DOMAIN drafts' /\ row.status \notin FROZEN_INSTANCE_STATUSES
      BY <1>3, <1>9, <1>10, <1>12, <1>13, <2>2
    <3>2. SignatureKept(row)'
      BY <1>3, <1>9, <3>1 DEF FormRowOK, SignatureKept, FROZEN_INSTANCE_STATUSES
    <3>3. \A f \in DOMAIN FormFields : Entitled(row.fields[f].val)'
      BY <1>3, <1>4, <1>9, <3>1 DEF FormRowOK, Entitled
    <3>4. QED
      BY <3>1, <3>2, <3>3 DEF FormRowOK
  <2>3. CASE k # i
    <3>1. row = forms[k]
      BY <1>12, <1>13, <2>3
    <3>2. QED
      BY <1>4, <1>10, <2>1, <3>1 DEF FormRowOK, Entitled, SignatureKept
  <2>4. QED
    BY <2>2, <2>3
<1>14. \A k \in DOMAIN forms' : FormRowOK(forms[k])'
  BY <1>13
<1>15. Preparing' = {}
  <2>1. \A k \in Preparing' : k \in Preparing /\ k # j
    BY <1>7, <1>11 DEF Preparing
  <2>2. QED
    BY <1>2, <2>1 DEF FormIInv, PreparingAlone
<1>16. PreparingAlone'
  <2>1. \A k \in DOMAIN prepares' : prepares'[k].st = "RENDERED" => prepares'[k].content \in Contents
    BY <1>7, <1>11 DEF FormIInv, PreparingAlone
  <2>2. \A k \in DOMAIN prepares' : prepares'[k].form \in DOMAIN forms'
    BY <1>11, <1>12 DEF FormIInv, PreparingAlone
  <2>3. QED
    BY <1>15, <2>1, <2>2 DEF PreparingAlone
<1>17. OneApproved'
  BY <1>4 DEF FormIInv, OneApproved
<1>18. DOMAIN drafts' \subseteq Contents
  BY <1>2, <1>4, <1>10
<1>19. QED
  BY <1>4, <1>10, <1>11, <1>12, <1>14, <1>16, <1>17, <1>18 DEF FormIInv

LEMMA FormStays == FormIInv /\ [FormNext]_formVars => FormIInv'
<1> SUFFICES ASSUME FormIInv, [FormNext]_formVars
             PROVE  FormIInv'
  OBVIOUS
<1>1. CASE UNCHANGED formVars
  <2>1. UNCHANGED <<infos, template, mapping, forms, prepares, drafts, formEdits>>
    BY <1>1 DEF formVars
  <2>2. PreparingAlone' /\ OneApproved'
    BY <2>1 DEF FormIInv, PreparingAlone, Preparing, OneApproved
  <2>3. \A k \in DOMAIN forms' : FormRowOK(forms[k])'
    BY <2>1 DEF FormIInv, FormRowOK, Entitled, SignatureKept
  <2>4. QED
    BY <2>1, <2>2, <2>3 DEF FormIInv
<1>2. CASE \E e \in {"ours", "theirs", "-"} : ProposeValue(e)
  BY <1>2, InfoProposed
<1>3. CASE \E i \in DOMAIN infos : \/ SubmitForApproval(i) \/ RejectValue(i) \/ SupersedeValue(i) \/ ValueAges(i)
                                   \/ \E cross \in BOOLEAN : ApproveValue(i, cross)
  BY <1>3, InfoEdited, InfoApproved
<1>4. CASE ExpireStaleValues \/ CreateInstance
  BY <1>4, InfosExpire, FormCreated
<1>5. CASE InspectTemplate \/ ActivateTemplate \/ \E f \in DOMAIN FormFields, approve \in BOOLEAN : UpsertMapping(f, approve)
  BY <1>5, TemplatesKeep
<1>6. CASE \E i \in DOMAIN forms : \/ Prefill(i) \/ GenerateForm(i) \/ ApproveForSignature(i)
                                   \/ RecordSignedDocument(i) \/ RecordExternalSubmission(i)
                                   \/ \E f \in DOMAIN FormFields, given \in BOOLEAN, s \in PatchStatuses : SetField(i, f, given, s)
  BY <1>6, FormPrefilled, FormGenerated, FormApproved, FormSigned, FormSubmitted, FormFieldSet
<1>7. CASE \E j \in DOMAIN prepares : PrepareReads(j) \/ GenerateDraft(j) \/ StoreGeneratedDocument(j) \/ PrepareFails(j)
  BY <1>7, FormRead, FormDrafted, FormStored, FormFails
<1>8. CASE \E d \in DOMAIN drafts : ApproveDocument(d)
  BY <1>8, DocumentApproved
<1>9. QED
  BY <1>1, <1>2, <1>3, <1>4, <1>5, <1>6, <1>7, <1>8 DEF FormNext

LEMMA FormIsSafe == FormIInv => FormInv
<1> SUFFICES ASSUME FormIInv
             PROVE  FormInv
  OBVIOUS
<1>1. ASSUME NEW i \in DOMAIN forms
      PROVE  FormRowOK(forms[i]) /\ SignatureKept(forms[i])
  BY DEF FormIInv, FormRowOK
<1>2. \A i \in DOMAIN forms : forms[i].status \in FROZEN_INSTANCE_STATUSES =>
        /\ forms[i].approved_draft = forms[i].draft /\ forms[i].draft \in {d \in DOMAIN drafts : drafts[d]}
        /\ Outstanding(i) = {}
  BY <1>1 DEF FormRowOK, Outstanding
<1>3. FormTypeOK
  BY <1>2 DEF FormTypeOK, FormIInv, OneApproved
<1>4. AutofillIsEntitled
  <2> SUFFICES ASSUME NEW i \in DOMAIN forms, NEW f \in DOMAIN FormFields, forms[i].fields[f].val \in DOMAIN infos
               PROVE  LET v == forms[i].fields[f].val
                      IN  infos[v].approved /\ (infos[v].entity = "ours" \/ infos[v].cross)
    BY DEF AutofillIsEntitled
  <2>1. Entitled(forms[i].fields[f].val)
    BY <1>1 DEF FormRowOK
  <2>2. MaxInfos \in Nat /\ DOMAIN infos \subseteq 1..MaxInfos
    BY FormFacts
  <2>3. forms[i].fields[f].val \notin {0, TypedByHand}
    BY <2>2 DEF TypedByHand
  <2>4. QED
    BY <2>1, <2>3 DEF Entitled
<1>5. SubmittedIsSigned
  BY <1>1, <1>2 DEF SubmittedIsSigned, SignatureKept, SignatureRequired
<1>6. QED
  BY <1>3, <1>4, <1>5 DEF FormInv

\* A frozen form keeps its fields and stays frozen.
LEMMA FrozenStep ==
  ASSUME FormIInv, FormNext, NEW i \in DOMAIN forms, forms[i].status \in FROZEN_INSTANCE_STATUSES
  PROVE  forms'[i].fields = forms[i].fields /\ forms'[i].status \in FROZEN_INSTANCE_STATUSES
<1>0. forms \in Seq(FormRows) /\ forms[i] \in FormRows
  BY FormFacts DEF FormIInv
<1>1. CASE UNCHANGED forms
  BY <1>1
<1>2. CASE CreateInstance
  <2>1. PICK row : forms' = Append(forms, row)
    BY <1>2 DEF CreateInstance
  <2>2. forms'[i] = forms[i]
    BY <1>0, <2>1
  <2>3. QED
    BY <2>2
<1>3. ASSUME NEW k \in DOMAIN forms,
             Prefill(k) \/ \E f \in DOMAIN FormFields, given \in BOOLEAN, s \in PatchStatuses : SetField(k, f, given, s)
      PROVE  k # i /\ forms'[i] = forms[i]
  BY <1>0, <1>3 DEF Prefill, SetField, SettableField
<1>4. ASSUME NEW k \in DOMAIN forms, ApproveForSignature(k) \/ RecordSignedDocument(k) \/ RecordExternalSubmission(k)
      PROVE  forms'[i].fields = forms[i].fields /\ forms'[i].status \in FROZEN_INSTANCE_STATUSES
  <2>1. CASE k # i
    BY <1>0, <1>4, <2>1 DEF ApproveForSignature, RecordSignedDocument, RecordExternalSubmission
  <2>2. CASE k = i
    <3>1. ~ApproveForSignature(i)
      BY DEF ApproveForSignature, FROZEN_INSTANCE_STATUSES
    <3>2. CASE RecordSignedDocument(i)
      BY <1>0, <3>2 DEF RecordSignedDocument, FROZEN_INSTANCE_STATUSES, FormRows
    <3>3. CASE RecordExternalSubmission(i)
      BY <1>0, <3>3 DEF RecordExternalSubmission, FROZEN_INSTANCE_STATUSES, FormRows
    <3>4. QED
      BY <1>4, <2>2, <3>1, <3>2, <3>3
  <2>3. QED
    BY <2>1, <2>2
<1>5. ASSUME NEW j \in DOMAIN prepares, GenerateDraft(j) \/ StoreGeneratedDocument(j)
      PROVE  forms'[i] = forms[i]
  <2>1. j \in Preparing
    BY <1>5 DEF Preparing, GenerateDraft, StoreGeneratedDocument
  <2>2. prepares[j].form # i
    BY <2>1, NoDraftNotFrozen
  <2>3. QED
    BY <1>0, <1>5, <2>2 DEF GenerateDraft, StoreGeneratedDocument
<1>6. CASE \E k \in DOMAIN forms : GenerateForm(k)
  BY <1>1, <1>6 DEF GenerateForm
<1>7. CASE \E j \in DOMAIN prepares : PrepareReads(j) \/ PrepareFails(j)
  BY <1>1, <1>7 DEF PrepareReads, PrepareFails
<1>8. CASE \E d \in DOMAIN drafts : ApproveDocument(d)
  BY <1>1, <1>8 DEF ApproveDocument
<1>9. CASE \/ \E e \in {"ours", "theirs", "-"} : ProposeValue(e)
           \/ \E k \in DOMAIN infos : \/ SubmitForApproval(k) \/ RejectValue(k) \/ SupersedeValue(k) \/ ValueAges(k)
                                      \/ \E cross \in BOOLEAN : ApproveValue(k, cross)
           \/ ExpireStaleValues
  BY <1>1, <1>9 DEF ProposeValue, SubmitForApproval, RejectValue, SupersedeValue, ValueAges, ApproveValue, ExpireStaleValues,
                    InfoFrame
<1>10. CASE InspectTemplate \/ ActivateTemplate \/ \E f \in DOMAIN FormFields, approve \in BOOLEAN : UpsertMapping(f, approve)
  BY <1>1, <1>10 DEF InspectTemplate, ActivateTemplate, UpsertMapping, TemplateFrame
<1>11. QED
  BY <1>2, <1>3, <1>4, <1>5, <1>6, <1>7, <1>8, <1>9, <1>10 DEF FormNext


(***************************************************************************)
(* Packets                                                                 *)
(***************************************************************************)

\* A job belongs to a packet that was built, and runs only for a manifest that pins something.
JobsBelong ==
  \A k \in DOMAIN archiveJobs :
    /\ k.packet \in DOMAIN packets /\ packets[k.packet].manifest \in Manifests
    /\ archiveJobs[k] = "RUNNING" => DOMAIN Checklist # {}

ApprovedPacket(p) == packets[p].status = "APPROVED"

PacketIInv ==
  /\ papers \in [Papers -> PaperRows] /\ edits \in 0..MaxPaperEdits
  /\ packets \in Seq(PacketRows) /\ Len(packets) <= MaxPackets
  /\ DOMAIN archiveJobs \subseteq JobKeys /\ archiveJobs \in [DOMAIN archiveJobs -> JobStates]
  /\ JobsBelong
  /\ \A p \in DOMAIN packets : packets[p].archive # NoArchive => packets[p].manifest # NoManifest
  /\ \A p \in DOMAIN packets : ApprovedPacket(p) => MissingItems(packets[p].manifest) = {}
  /\ \A p, q \in DOMAIN packets : ApprovedPacket(p) /\ ApprovedPacket(q) => p = q
  /\ ArchiveHoldsItsPins

LEMMA PacketFacts ==
  ASSUME PacketIInv
  PROVE  /\ MaxPackets \in Nat /\ MaxPaperEdits \in Nat
         /\ Len(packets) \in Nat /\ DOMAIN packets = 1..Len(packets) /\ DOMAIN packets \subseteq 1..MaxPackets
         /\ \A p \in DOMAIN packets : packets[p] \in PacketRows
<1>1. MaxPackets \in Nat /\ MaxPaperEdits \in Nat
  BY PacketBounds
<1>2. packets \in Seq(PacketRows) /\ Len(packets) <= MaxPackets
  BY DEF PacketIInv
<1>3. Len(packets) \in Nat /\ DOMAIN packets = 1..Len(packets)
  BY <1>2
<1>4. DOMAIN packets \subseteq 1..MaxPackets
  BY <1>1, <1>2, <1>3
<1>5. QED
  BY <1>1, <1>2, <1>3, <1>4

LEMMA PacketStarts == PacketInit => PacketIInv
<1> SUFFICES ASSUME PacketInit
             PROVE  PacketIInv
  OBVIOUS
<1>0. 0 \in 0..MaxPaperEdits /\ 0 <= MaxPackets
  BY PacketBounds
<1>1. packets = <<>> /\ archiveJobs = <<>> /\ DOMAIN packets = {} /\ DOMAIN archiveJobs = {} /\ Len(packets) = 0
  BY DEF PacketInit
<1>2. packets \in Seq(PacketRows) /\ archiveJobs \in [DOMAIN archiveJobs -> JobStates]
  BY <1>1
<1>3. papers \in [Papers -> PaperRows] /\ edits \in 0..MaxPaperEdits
  BY <1>0 DEF PacketInit, PaperRows
<1>4. QED
  BY <1>0, <1>1, <1>2, <1>3 DEF PacketIInv, JobsBelong, ArchiveHoldsItsPins

\* Documents change, or jobs do without leaving their packets.
LEMMA PapersKeep ==
  ASSUME PacketIInv, UNCHANGED packets, papers' \in [Papers -> PaperRows], edits' \in 0..MaxPaperEdits,
         DOMAIN archiveJobs' \subseteq JobKeys, archiveJobs' \in [DOMAIN archiveJobs' -> JobStates], JobsBelong'
  PROVE  PacketIInv'
BY DEF PacketIInv, ArchiveHoldsItsPins, ApprovedPacket, MissingItems

LEMMA PaperChanged ==
  ASSUME PacketIInv, NEW d \in Papers, PaperApproved(d) \/ FileEdited(d) \/ PaperExpires(d)
  PROVE  PacketIInv'
<1>1. UNCHANGED <<packets, archiveJobs>> /\ papers \in [Papers -> PaperRows] /\ edits \in 0..MaxPaperEdits
      /\ edits < MaxPaperEdits /\ edits' = edits + 1 /\ MaxPaperEdits \in Nat
  BY PacketFacts DEF PacketIInv, PaperApproved, FileEdited, PaperExpires
<1>2. edits' \in 0..MaxPaperEdits
  BY <1>1
<1>3. papers[d] \in PaperRows
  BY <1>1
<1>4. papers' \in [Papers -> PaperRows]
  <2>1. CASE PaperApproved(d)
    <3>1. PICK q : q = [papers[d] EXCEPT !.approvedAt = edits']
      OBVIOUS
    <3>2. q \in PaperRows
      BY <1>2, <1>3, <3>1 DEF PaperRows
    <3>3. papers' = [papers EXCEPT ![d] = q]
      BY <2>1, <3>1 DEF PaperApproved
    <3>4. QED
      BY <1>1, <3>2, <3>3
  <2>2. CASE FileEdited(d)
    <3>1. PICK b \in BOOLEAN : b = ~papers[d].intact
      OBVIOUS
    <3>2. PICK q : q = [papers[d] EXCEPT !.intact = b]
      OBVIOUS
    <3>3. q \in PaperRows
      BY <1>3, <3>1, <3>2 DEF PaperRows
    <3>4. papers' = [papers EXCEPT ![d] = q]
      BY <2>2, <3>1, <3>2 DEF FileEdited
    <3>5. QED
      BY <1>1, <3>3, <3>4
  <2>3. CASE PaperExpires(d)
    <3>1. PICK q : q = [papers[d] EXCEPT !.life = "EXPIRED"]
      OBVIOUS
    <3>2. q \in PaperRows
      BY <1>3, <3>1 DEF PaperRows
    <3>3. papers' = [papers EXCEPT ![d] = q]
      BY <2>3, <3>1 DEF PaperExpires
    <3>4. QED
      BY <1>1, <3>2, <3>3
  <2>4. QED
    BY <2>1, <2>2, <2>3
<1>5. JobsBelong'
  BY <1>1 DEF PacketIInv, JobsBelong
<1>6. QED
  BY <1>1, <1>2, <1>4, <1>5, PapersKeep DEF PacketIInv

\* Packets change, the documents do not.
LEMMA PacketsKeep ==
  ASSUME PacketIInv, UNCHANGED <<papers, edits>>, packets' \in Seq(PacketRows), Len(packets') <= MaxPackets,
         DOMAIN archiveJobs' \subseteq JobKeys, archiveJobs' \in [DOMAIN archiveJobs' -> JobStates], JobsBelong',
         \A p \in DOMAIN packets' :
           /\ packets'[p].archive # NoArchive => packets'[p].manifest # NoManifest
           /\ packets'[p].status = "APPROVED" => MissingItems(packets'[p].manifest) = {}
           /\ packets'[p].archive.genuine
           /\ \A q \in DOMAIN packets' : packets'[p].status = "APPROVED" /\ packets'[q].status = "APPROVED" => p = q
  PROVE  PacketIInv'
BY DEF PacketIInv, ArchiveHoldsItsPins, ApprovedPacket, MissingItems

LEMMA PacketCreated ==
  ASSUME PacketIInv, CreatePacket
  PROVE  PacketIInv'
<1>1. PICK row : row = [status |-> "DRAFT", manifest |-> NoManifest, archive |-> NoArchive]
  OBVIOUS
<1>2. packets \in Seq(PacketRows) /\ Len(packets) \in Nat /\ Len(packets) < MaxPackets /\ MaxPackets \in Nat
      /\ DOMAIN packets = 1..Len(packets) /\ packets' = Append(packets, row) /\ UNCHANGED <<papers, edits, archiveJobs>>
  BY <1>1, PacketFacts DEF PacketIInv, CreatePacket
<1>3. row \in PacketRows /\ row.status = "DRAFT" /\ row.archive = NoArchive /\ row.archive.genuine
  BY <1>1 DEF PacketRows, PacketStatuses, NoArchive
<1>4. /\ packets' \in Seq(PacketRows) /\ Len(packets') = Len(packets) + 1
      /\ \A i \in 1..Len(packets) : packets'[i] = packets[i]
      /\ packets'[Len(packets) + 1] = row
  BY <1>2, <1>3, AppendProperties
<1>5. DOMAIN packets' = 1..(Len(packets) + 1) /\ Len(packets') <= MaxPackets
  BY <1>2, <1>4
<1>6. DOMAIN packets \subseteq DOMAIN packets' /\ \A i \in DOMAIN packets' : i \in DOMAIN packets \/ i = Len(packets) + 1
  BY <1>2, <1>5
<1>7. JobsBelong'
  BY <1>2, <1>4, <1>6 DEF PacketIInv, JobsBelong
<1>8. \A p \in DOMAIN packets' :
        /\ packets'[p].archive # NoArchive => packets'[p].manifest # NoManifest
        /\ packets'[p].status = "APPROVED" => MissingItems(packets'[p].manifest) = {}
        /\ packets'[p].archive.genuine
        /\ \A q \in DOMAIN packets' : packets'[p].status = "APPROVED" /\ packets'[q].status = "APPROVED" => p = q
  <2>1. \A p \in DOMAIN packets' : (p \in DOMAIN packets /\ packets'[p] = packets[p]) \/ packets'[p] = row
    BY <1>2, <1>4, <1>6
  <2>2. \A p \in DOMAIN packets' : packets'[p].status = "APPROVED" => p \in DOMAIN packets /\ packets[p].status = "APPROVED"
                                                                     /\ packets'[p] = packets[p]
    BY <1>3, <2>1
  <2>3. \A p \in DOMAIN packets' : packets'[p].archive.genuine /\ (packets'[p].archive # NoArchive => packets'[p].manifest # NoManifest)
    BY <1>3, <2>1 DEF PacketIInv, ArchiveHoldsItsPins
  <2>4. QED
    BY <2>2, <2>3 DEF PacketIInv, ApprovedPacket
<1>9. DOMAIN archiveJobs' \subseteq JobKeys /\ archiveJobs' \in [DOMAIN archiveJobs' -> JobStates]
  BY <1>2 DEF PacketIInv
<1>10. QED
  BY <1>2, <1>4, <1>5, <1>7, <1>8, <1>9, PacketsKeep

\* One packet changes in place: its status, its manifest, its archive.
LEMMA PacketReplaced ==
  ASSUME PacketIInv, NEW p \in DOMAIN packets, NEW q \in PacketRows, packets' = [packets EXCEPT ![p] = q],
         q.status # "APPROVED" \/ (packets[p].status = "APPROVED" /\ q.manifest = packets[p].manifest),
         q.archive # NoArchive => q.manifest # NoManifest, q.archive.genuine,
         packets[p].manifest \in Manifests => q.manifest \in Manifests,
         UNCHANGED <<papers, edits>>,
         DOMAIN archiveJobs' \subseteq JobKeys, archiveJobs' \in [DOMAIN archiveJobs' -> JobStates],
         \A k \in DOMAIN archiveJobs' : archiveJobs'[k] = "RUNNING" => DOMAIN Checklist # {},
         \A k \in DOMAIN archiveJobs' \ DOMAIN archiveJobs : k.packet = p /\ q.manifest \in Manifests
  PROVE  PacketIInv'
<1>1. packets \in Seq(PacketRows) /\ Len(packets) <= MaxPackets
  BY DEF PacketIInv
<1>2. packets' \in Seq(PacketRows) /\ Len(packets') = Len(packets) /\ DOMAIN packets' = DOMAIN packets
      /\ \A i \in DOMAIN packets : packets'[i] = IF i = p THEN q ELSE packets[i]
  BY <1>1
<1>3. JobsBelong'
  BY <1>2 DEF PacketIInv, JobsBelong
<1>4. \A i \in DOMAIN packets' :
        /\ packets'[i].archive # NoArchive => packets'[i].manifest # NoManifest
        /\ packets'[i].status = "APPROVED" => MissingItems(packets'[i].manifest) = {}
        /\ packets'[i].archive.genuine
        /\ \A j \in DOMAIN packets' : packets'[i].status = "APPROVED" /\ packets'[j].status = "APPROVED" => i = j
  BY <1>2, ZenonT(40) DEF PacketIInv, ArchiveHoldsItsPins, ApprovedPacket
<1>5. QED
  BY <1>1, <1>2, <1>3, <1>4, PacketsKeep

\* Where one manifest tells that a packet was built, every manifest does.
LEMMA BuiltIsBuilt ==
  ASSUME NEW m \in Manifests, NEW n \in Manifests, m # NoManifest \/ DOMAIN Checklist # {}
  PROVE  n # NoManifest
<1>1. DOMAIN Checklist # {}
  <2>1. ASSUME DOMAIN Checklist = {}
        PROVE  m = NoManifest
    BY <2>1 DEF Manifests, NoManifest
  <2>2. QED
    BY <2>1
<1>2. PICK i \in DOMAIN Checklist : TRUE
  BY <1>1
<1>3. n[i] \in Papers \cup {"-"} /\ NoManifest[i] = "never built"
  BY DEF Manifests, NoManifest, Pins, NoPin
<1>4. "never built" \notin Papers \cup {"-"}
  BY PaperNames
<1>5. QED
  BY <1>3, <1>4

LEMMA PacketBuilt ==
  ASSUME PacketIInv, NEW p \in 1..MaxPackets, BuildPacket(p)
  PROVE  PacketIInv'
<1>0. p \in DOMAIN packets /\ packets[p] \in PacketRows /\ UNCHANGED <<papers, edits>>
  BY PacketFacts DEF BuildPacket
<1>1. PICK o \in Overrides : Built(p, o)
  BY DEF BuildPacket
<1>2. PICK m \in Manifests :
        /\ packets' = [packets EXCEPT ![p].manifest = m, ![p].status = BuiltStatus(m)]
        /\ LET k == [packet |-> p, manifest |-> m]
           IN  archiveJobs' = [j \in DOMAIN archiveJobs \cup {k} |-> IF j \in DOMAIN archiveJobs THEN archiveJobs[j] ELSE "PENDING"]
  BY <1>1 DEF Built, MatchAll
<1>3. PICK st : st = BuiltStatus(m)
  OBVIOUS
<1>4. PICK q : q = [packets[p] EXCEPT !.manifest = m, !.status = st]
  OBVIOUS
<1>5. packets' = [packets EXCEPT ![p] = q]
  BY <1>2, <1>3, <1>4
<1>6. st \in {"MISSING_ITEMS", "READY_FOR_REVIEW"}
  BY <1>3 DEF BuiltStatus
<1>7. q \in PacketRows /\ q.manifest = m /\ q.status = st /\ q.archive = packets[p].archive
  BY <1>0, <1>4, <1>6 DEF PacketRows, PacketStatuses
<1>8. PICK k : k = [packet |-> p, manifest |-> m]
  OBVIOUS
<1>9. k \in JobKeys /\ k.packet = p
  BY <1>8 DEF JobKeys
<1>10. archiveJobs' = [j \in DOMAIN archiveJobs \cup {k} |-> IF j \in DOMAIN archiveJobs THEN archiveJobs[j] ELSE "PENDING"]
  BY <1>2, <1>8
<1>11. DOMAIN archiveJobs \subseteq JobKeys /\ archiveJobs \in [DOMAIN archiveJobs -> JobStates]
       /\ \A j \in DOMAIN archiveJobs : archiveJobs[j] = "RUNNING" => DOMAIN Checklist # {}
  BY DEF PacketIInv, JobsBelong
<1>12. DOMAIN archiveJobs' = DOMAIN archiveJobs \cup {k}
       /\ \A j \in DOMAIN archiveJobs' : archiveJobs'[j] = IF j \in DOMAIN archiveJobs THEN archiveJobs[j] ELSE "PENDING"
  BY <1>10
<1>13. \A j \in DOMAIN archiveJobs' : archiveJobs'[j] \in JobStates /\ (archiveJobs'[j] = "RUNNING" => DOMAIN Checklist # {})
  BY <1>11, <1>12 DEF JobStates
<1>14. archiveJobs' \in [DOMAIN archiveJobs' -> JobStates] /\ DOMAIN archiveJobs' \subseteq JobKeys
  BY <1>9, <1>10, <1>11, <1>12, <1>13
<1>15. q.archive # NoArchive => q.manifest # NoManifest
  <2> SUFFICES ASSUME packets[p].archive # NoArchive
               PROVE  m # NoManifest
    BY <1>7
  <2>1. packets[p].manifest # NoManifest /\ packets[p].manifest \in Manifests \cup {NoManifest}
    BY <1>0 DEF PacketIInv, PacketRows
  <2>2. QED
    BY <2>1, BuiltIsBuilt
<1>16. q.archive.genuine
  BY <1>0, <1>7 DEF PacketIInv, ArchiveHoldsItsPins
<1>17. QED
  BY <1>0, <1>5, <1>6, <1>7, <1>9, <1>12, <1>13, <1>14, <1>15, <1>16, PacketReplaced

LEMMA PacketRejected ==
  ASSUME PacketIInv, NEW p \in 1..MaxPackets, RejectPacket(p)
  PROVE  PacketIInv'
<1>0. p \in DOMAIN packets /\ packets[p] \in PacketRows /\ UNCHANGED <<papers, edits, archiveJobs>>
  BY PacketFacts DEF RejectPacket
<1>1. PICK q : q = [packets[p] EXCEPT !.status = "REJECTED"]
  OBVIOUS
<1>2. packets' = [packets EXCEPT ![p] = q]
  BY <1>1 DEF RejectPacket
<1>3. q \in PacketRows /\ q.status = "REJECTED" /\ q.manifest = packets[p].manifest /\ q.archive = packets[p].archive
  BY <1>0, <1>1 DEF PacketRows, PacketStatuses
<1>4. q.archive.genuine /\ (q.archive # NoArchive => q.manifest # NoManifest)
  BY <1>0, <1>3 DEF PacketIInv, ArchiveHoldsItsPins
<1>5. DOMAIN archiveJobs \subseteq JobKeys /\ archiveJobs \in [DOMAIN archiveJobs -> JobStates]
      /\ \A k \in DOMAIN archiveJobs : archiveJobs[k] = "RUNNING" => DOMAIN Checklist # {}
  BY DEF PacketIInv, JobsBelong
<1>6. QED
  BY <1>0, <1>2, <1>3, <1>4, <1>5, PacketReplaced

\* Approval puts one complete packet in force and supersedes the one before.
LEMMA PacketApproved ==
  ASSUME PacketIInv, NEW p \in 1..MaxPackets, ApprovePacket(p)
  PROVE  PacketIInv'
<1> DEFINE New(q) == CASE q = p -> [packets[q] EXCEPT !.status = "APPROVED"]
                       [] packets[q].status = "APPROVED" /\ q # p -> [packets[q] EXCEPT !.status = "SUPERSEDED"]
                       [] OTHER -> packets[q]
<1>0. /\ p \in DOMAIN packets /\ UNCHANGED <<papers, edits, archiveJobs>>
      /\ Len(packets) \in Nat /\ DOMAIN packets = 1..Len(packets) /\ Len(packets) <= MaxPackets
      /\ \A q \in DOMAIN packets : packets[q] \in PacketRows
  BY PacketFacts DEF ApprovePacket, PacketIInv
<1>1. packets' = [q \in DOMAIN packets |-> New(q)]
  BY DEF ApprovePacket
<1>2. MissingItems(packets[p].manifest) = {} /\ packets[p].archive # NoArchive
  BY <1>0 DEF ApprovePacket, NothingMissing, PacketIInv
<1>3. ASSUME NEW q \in DOMAIN packets
      PROVE  /\ New(q) \in PacketRows /\ New(q).manifest = packets[q].manifest /\ New(q).archive = packets[q].archive
             /\ New(q).status = "APPROVED" => q = p
  <2>1. CASE q = p
    <3>1. New(q) = [packets[q] EXCEPT !.status = "APPROVED"]
      BY <2>1
    <3>2. PICK r : r = New(q)
      OBVIOUS
    <3> HIDE DEF New
    <3>3. r \in PacketRows /\ r.manifest = packets[q].manifest /\ r.archive = packets[q].archive
      BY <1>0, <3>1, <3>2 DEF PacketRows, PacketStatuses
    <3>4. QED
      BY <2>1, <3>2, <3>3
  <2>2. CASE packets[q].status = "APPROVED" /\ q # p
    <3>1. New(q) = [packets[q] EXCEPT !.status = "SUPERSEDED"]
      BY <2>2
    <3>2. PICK r : r = New(q)
      OBVIOUS
    <3> HIDE DEF New
    <3>3. r \in PacketRows /\ r.manifest = packets[q].manifest /\ r.archive = packets[q].archive /\ r.status = "SUPERSEDED"
      BY <1>0, <3>1, <3>2 DEF PacketRows, PacketStatuses
    <3>4. QED
      BY <3>2, <3>3
  <2>3. CASE packets[q].status # "APPROVED" /\ q # p
    <3>1. New(q) = packets[q]
      BY <2>3
    <3> HIDE DEF New
    <3>2. QED
      BY <1>0, <2>3, <3>1
  <2>4. QED
    BY <2>1, <2>2, <2>3
<1> HIDE DEF New
<1>4. packets' \in [1..Len(packets) -> PacketRows] /\ DOMAIN packets' = DOMAIN packets /\ \A q \in DOMAIN packets : packets'[q] = New(q)
  BY <1>0, <1>1, <1>3
<1>5. packets' \in Seq(PacketRows) /\ Len(packets') = Len(packets)
  BY <1>0, <1>4
<1>6. JobsBelong'
  BY <1>0, <1>3, <1>4 DEF PacketIInv, JobsBelong
<1>7. \A i \in DOMAIN packets' :
        /\ packets'[i].archive # NoArchive => packets'[i].manifest # NoManifest
        /\ packets'[i].status = "APPROVED" => MissingItems(packets'[i].manifest) = {}
        /\ packets'[i].archive.genuine
        /\ \A j \in DOMAIN packets' : packets'[i].status = "APPROVED" /\ packets'[j].status = "APPROVED" => i = j
  <2>1. \A i \in DOMAIN packets : /\ packets'[i].manifest = packets[i].manifest /\ packets'[i].archive = packets[i].archive
                                  /\ packets'[i].status = "APPROVED" => i = p
    BY <1>3, <1>4
  <2>2. \A i \in DOMAIN packets : packets'[i].archive.genuine /\ (packets'[i].archive # NoArchive => packets'[i].manifest # NoManifest)
    BY <2>1 DEF PacketIInv, ArchiveHoldsItsPins
  <2>3. QED
    BY <1>2, <1>4, <2>1, <2>2
<1>8. DOMAIN archiveJobs' \subseteq JobKeys /\ archiveJobs' \in [DOMAIN archiveJobs' -> JobStates]
  BY <1>0 DEF PacketIInv
<1>9. QED
  BY <1>0, <1>5, <1>6, <1>7, <1>8, PacketsKeep

LEMMA ArchiveRead ==
  ASSUME PacketIInv, NEW k \in DOMAIN archiveJobs, ArchiveReads(k)
  PROVE  PacketIInv'
<1>1. PICK st : st = IF Archivable(k) THEN "RUNNING" ELSE "FAILED_REVIEW"
  OBVIOUS
<1>2. archiveJobs' = [archiveJobs EXCEPT ![k] = st] /\ UNCHANGED <<papers, edits, packets>>
  BY <1>1 DEF ArchiveReads
<1>3. st \in JobStates /\ (st = "RUNNING" => DOMAIN Checklist # {})
  BY <1>1 DEF JobStates, Archivable
<1>4. DOMAIN archiveJobs \subseteq JobKeys /\ archiveJobs \in [DOMAIN archiveJobs -> JobStates]
  BY DEF PacketIInv
<1>5. archiveJobs' \in [DOMAIN archiveJobs -> JobStates] /\ DOMAIN archiveJobs' = DOMAIN archiveJobs
      /\ \A j \in DOMAIN archiveJobs : archiveJobs'[j] = IF j = k THEN st ELSE archiveJobs[j]
  BY <1>2, <1>3, <1>4
<1>6. JobsBelong'
  BY <1>2, <1>3, <1>5 DEF PacketIInv, JobsBelong
<1>7. QED
  BY <1>2, <1>4, <1>5, <1>6, PapersKeep DEF PacketIInv

\* The archive holds what the check of the bytes let through.
LEMMA ArchiveGenerated ==
  ASSUME PacketIInv, NEW k \in DOMAIN archiveJobs, GenerateArchive(k)
  PROVE  PacketIInv'
<1>0. DOMAIN archiveJobs \subseteq JobKeys /\ archiveJobs \in [DOMAIN archiveJobs -> JobStates] /\ UNCHANGED <<papers, edits>>
  BY DEF PacketIInv, GenerateArchive
<1>1. PICK p, m : p = k.packet /\ m = k.manifest
  OBVIOUS
<1>2. p \in DOMAIN packets /\ packets[p] \in PacketRows /\ packets[p].manifest \in Manifests /\ DOMAIN Checklist # {}
      /\ m \in Manifests
  BY <1>0, <1>1, PacketFacts DEF PacketIInv, JobsBelong, GenerateArchive, JobKeys
<1>3. PICK st \in {"COMPLETED", "FAILED_REVIEW"} : archiveJobs' = [archiveJobs EXCEPT ![k] = st]
  BY DEF GenerateArchive
<1>4. archiveJobs' \in [DOMAIN archiveJobs -> JobStates] /\ DOMAIN archiveJobs' = DOMAIN archiveJobs
      /\ \A j \in DOMAIN archiveJobs : archiveJobs'[j] = IF j = k THEN st ELSE archiveJobs[j]
  BY <1>0, <1>3 DEF JobStates
<1>5. CASE UNCHANGED packets
  <2>1. JobsBelong'
    BY <1>4, <1>5 DEF PacketIInv, JobsBelong
  <2>2. QED
    BY <1>0, <1>4, <1>5, <2>1, PapersKeep DEF PacketIInv
<1>6. CASE BytesVerified(k.manifest)
  <2>1. PICK b \in BOOLEAN : b = (\A i \in DOMAIN Checklist : m[i] # NoPin => papers[m[i]].intact)
    OBVIOUS
  <2>2. PICK a : a = [of |-> m, genuine |-> b]
    OBVIOUS
  <2>3. PICK q : q = [packets[p] EXCEPT !.archive = a]
    OBVIOUS
  <2>4. packets' = [packets EXCEPT ![p] = q]
    BY <1>1, <1>6, <2>1, <2>2, <2>3 DEF GenerateArchive
  <2>5. b
    BY <1>1, <1>2, <1>6, <2>1 DEF BytesVerified, Manifests
  <2>6. a \in [of : Manifests, genuine : BOOLEAN] /\ a.genuine
    BY <1>2, <2>2, <2>5
  <2>7. q \in PacketRows /\ q.status = packets[p].status /\ q.manifest = packets[p].manifest /\ q.archive = a
    BY <1>2, <2>3, <2>6 DEF PacketRows
  <2>8. q.manifest # NoManifest
    BY <1>2, <2>7, BuiltIsBuilt
  <2>9. \A j \in DOMAIN archiveJobs' : archiveJobs'[j] = "RUNNING" => DOMAIN Checklist # {}
    BY <1>2
  <2>10. QED
    BY <1>0, <1>2, <1>4, <2>4, <2>6, <2>7, <2>8, <2>9, PacketReplaced
<1>7. QED
  BY <1>5, <1>6 DEF GenerateArchive

LEMMA PacketsStay == PacketIInv /\ [PacketNext]_packetVars => PacketIInv'
<1> SUFFICES ASSUME PacketIInv, [PacketNext]_packetVars
             PROVE  PacketIInv'
  OBVIOUS
<1>1. CASE UNCHANGED packetVars
  <2>1. UNCHANGED <<papers, edits, packets, archiveJobs>>
    BY <1>1 DEF packetVars
  <2>2. JobsBelong'
    BY <2>1 DEF PacketIInv, JobsBelong
  <2>3. QED
    BY <2>1, <2>2, PapersKeep DEF PacketIInv
<1>2. CASE PacketNext
  BY <1>2, PacketCreated, PacketBuilt, PacketApproved, PacketRejected, ArchiveRead, ArchiveGenerated, PaperChanged DEF PacketNext
<1>3. QED
  BY <1>1, <1>2

LEMMA PacketsAreSafe == PacketIInv => PacketInv
BY DEF PacketIInv, PacketInv, PacketTypeOK, ApprovedPacket

(***************************************************************************)
(* The document catalogue                                                  *)
(***************************************************************************)

\* An upload under way owns its document: no other upload writes it, and it names no item yet.
UploadsOwn ==
  /\ \A u \in DocUploaders : uploads[u].st # "-" =>
       /\ uploads[u].doc \in DOMAIN docRows
       /\ docRows[uploads[u].doc].item = 0 /\ docRows[uploads[u].doc].text \in Texts
  /\ \A u \in DocUploaders : uploads[u].st = "PUT" => uploads[u].item \in DOMAIN items
  /\ \A u, v \in DocUploaders : uploads[u].st # "-" /\ uploads[v].st # "-" /\ uploads[u].doc = uploads[v].doc => u = v

\* A reconciliation in progress has listed every live file up to where its checkpoint will be.
PagesCover ==
  reconcile.on =>
    /\ delta.upTo <= reconcile.upTo /\ reconcile.upTo <= Len(feed)
    /\ reconcile.alive \subseteq DOMAIN items
    /\ \A n \in 1..reconcile.upTo :
         (delta.rebaseline \/ n > delta.upTo) /\ items[feed[n]].alive => feed[n] \in reconcile.alive

RowsNameFiles ==
  \A d \in DOMAIN docRows : docRows[d].current /\ docRows[d].text # "?" =>
    docRows[d].item \in DOMAIN items /\ items[docRows[d].item].text = docRows[d].text

CatIInv ==
  /\ docRows \in Seq(DocumentRows) /\ Len(docRows) <= MaxDocRows
  /\ items \in Seq(ItemRows) /\ Len(items) <= MaxItems
  /\ feed \in Seq(Nat) /\ \A n \in DOMAIN feed : feed[n] \in DOMAIN items
  /\ delta \in [upTo : Nat, rebaseline : BOOLEAN] /\ delta.upTo <= Len(feed)
  /\ reconcile \in [on : BOOLEAN, upTo : Nat, alive : SUBSET Nat, gone : SUBSET Nat]
  /\ uploads \in [DocUploaders -> UploadRows]
  /\ seen \in [DocReviewers -> {NoView} \cup [doc : 1..MaxDocRows, row : DocumentRows]]
  /\ \A r \in DocReviewers : seen[r] # NoView => seen[r].doc \in DOMAIN docRows
  /\ decisions \in 0..MaxDecisions /\ docFaults \in 0..MaxDocFaults
  /\ UploadsOwn /\ PagesCover /\ RowsNameFiles /\ FilesAreCatalogued

LEMMA CatFacts ==
  ASSUME CatIInv
  PROVE  /\ MaxDocRows \in Nat /\ MaxItems \in Nat /\ MaxDecisions \in Nat /\ MaxDocFaults \in Nat
         /\ Len(docRows) \in Nat /\ DOMAIN docRows = 1..Len(docRows) /\ DOMAIN docRows \subseteq 1..MaxDocRows
         /\ Len(items) \in Nat /\ DOMAIN items = 1..Len(items) /\ DOMAIN items \subseteq 1..MaxItems
         /\ Len(feed) \in Nat /\ DOMAIN feed = 1..Len(feed)
         /\ \A d \in DOMAIN docRows : docRows[d] \in DocumentRows
         /\ \A i \in DOMAIN items : items[i] \in ItemRows
         /\ delta.upTo \in Nat /\ delta.rebaseline \in BOOLEAN /\ reconcile.upTo \in Nat
<1>1. MaxDocRows \in Nat /\ MaxItems \in Nat /\ MaxDecisions \in Nat /\ MaxDocFaults \in Nat
  BY DocBounds
<1>2. docRows \in Seq(DocumentRows) /\ Len(docRows) <= MaxDocRows /\ items \in Seq(ItemRows) /\ Len(items) <= MaxItems
      /\ feed \in Seq(Nat)
  BY DEF CatIInv
<1>3. Len(docRows) \in Nat /\ DOMAIN docRows = 1..Len(docRows) /\ Len(items) \in Nat /\ DOMAIN items = 1..Len(items)
      /\ Len(feed) \in Nat /\ DOMAIN feed = 1..Len(feed)
  BY <1>2
<1>4. DOMAIN docRows \subseteq 1..MaxDocRows /\ DOMAIN items \subseteq 1..MaxItems
  BY <1>1, <1>2, <1>3
<1>5. delta.upTo \in Nat /\ delta.rebaseline \in BOOLEAN /\ reconcile.upTo \in Nat
  BY DEF CatIInv
<1>6. QED
  BY <1>1, <1>2, <1>3, <1>4, <1>5

LEMMA CatStarts == CatalogInit => CatIInv
<1> SUFFICES ASSUME CatalogInit
             PROVE  CatIInv
  OBVIOUS
<1>0. MaxDocRows \in Nat /\ MaxItems \in Nat /\ MaxDecisions \in Nat /\ MaxDocFaults \in Nat
  BY DocBounds
<1>1. 0 <= MaxDocRows /\ 0 <= MaxItems /\ 0 \in 0..MaxDecisions /\ 0 \in 0..MaxDocFaults /\ 0 \in 0..MaxDocRows /\ 0 \in 0..MaxItems
  BY <1>0
<1>2. docRows = <<>> /\ items = <<>> /\ feed = <<>> /\ DOMAIN docRows = {} /\ DOMAIN items = {} /\ DOMAIN feed = {}
      /\ Len(docRows) = 0 /\ Len(items) = 0 /\ Len(feed) = 0
  BY DEF CatalogInit
<1>3. docRows \in Seq(DocumentRows) /\ items \in Seq(ItemRows) /\ feed \in Seq(Nat)
  BY <1>2
<1>4. delta \in [upTo : Nat, rebaseline : BOOLEAN] /\ delta.upTo = 0
  BY DEF CatalogInit
<1>5. reconcile \in [on : BOOLEAN, upTo : Nat, alive : SUBSET Nat, gone : SUBSET Nat] /\ ~reconcile.on
  BY DEF CatalogInit, NoReconcile
<1>6. uploads \in [DocUploaders -> UploadRows] /\ \A u \in DocUploaders : uploads[u].st = "-"
  BY <1>1 DEF CatalogInit, UploadRows
<1>7. seen \in [DocReviewers -> {NoView} \cup [doc : 1..MaxDocRows, row : DocumentRows]] /\ \A r \in DocReviewers : seen[r] = NoView
  BY DEF CatalogInit
<1>8. decisions \in 0..MaxDecisions /\ docFaults \in 0..MaxDocFaults
  BY <1>1 DEF CatalogInit
<1>9. UploadsOwn /\ PagesCover /\ RowsNameFiles
  BY <1>2, <1>5, <1>6 DEF UploadsOwn, PagesCover, RowsNameFiles
<1>10. FilesAreCatalogued
  BY <1>4 DEF FilesAreCatalogued
<1>11. QED
  BY <1>1, <1>2, <1>3, <1>4, <1>5, <1>6, <1>7, <1>8, <1>9, <1>10 DEF CatIInv

\* A flush leaves the columns alone in which the request differs from nothing it saw.
LEMMA FlushedRow ==
  ASSUME NEW now \in DocumentRows, NEW old \in DocumentRows, NEW new \in DocumentRows,
         new.restricted = old.restricted, new.past = old.past, new.text = old.text, new.item = old.item,
         new.storage = old.storage, new.current = old.current,
         NEW q, q = [c \in DOMAIN now |-> IF new[c] # old[c] THEN new[c] ELSE now[c]]
  PROVE  q \in DocumentRows /\ q.text = now.text /\ q.item = now.item /\ q.current = now.current
<1>1. DOMAIN now = {"life", "approval", "reuse", "restricted", "past", "text", "item", "storage", "current"}
  BY DEF DocumentRows
<1>2. q.text = now.text /\ q.item = now.item /\ q.current = now.current /\ q.storage = now.storage
      /\ q.restricted = now.restricted /\ q.past = now.past
  BY <1>1
<1>3. q.life \in {now.life, new.life} /\ q.approval \in {now.approval, new.approval} /\ q.reuse \in {now.reuse, new.reuse}
  BY <1>1
<1>4. q = [life |-> q.life, approval |-> q.approval, reuse |-> q.reuse, restricted |-> now.restricted, past |-> now.past,
           text |-> now.text, item |-> now.item, storage |-> now.storage, current |-> now.current]
  BY <1>1, <1>2
<1>5. QED
  BY <1>2, <1>3, <1>4 DEF DocumentRows

\* The drive and its feed stay, and no document changes its bytes, its item or whether it is current.
LEMMA CatQuiet ==
  ASSUME CatIInv, UNCHANGED <<items, feed, delta>>,
         docRows' \in Seq(DocumentRows), Len(docRows') = Len(docRows), DOMAIN docRows' = DOMAIN docRows,
         \A d \in DOMAIN docRows : /\ docRows'[d].text = docRows[d].text /\ docRows'[d].item = docRows[d].item
                                   /\ docRows'[d].current = docRows[d].current,
         reconcile' = reconcile \/ reconcile' = NoReconcile,
         uploads' \in [DocUploaders -> UploadRows],
         \A u \in DocUploaders : uploads'[u].st = "-" \/ uploads'[u] = uploads[u],
         seen' \in [DocReviewers -> {NoView} \cup [doc : 1..MaxDocRows, row : DocumentRows]],
         \A r \in DocReviewers : seen'[r] # NoView => seen'[r].doc \in DOMAIN docRows,
         decisions' \in 0..MaxDecisions, docFaults' \in 0..MaxDocFaults
  PROVE  CatIInv'
<1>1. UploadsOwn'
  <2>1. \A u \in DocUploaders : uploads'[u].st # "-" => uploads'[u] = uploads[u]
    OBVIOUS
  <2>2. UploadsOwn
    BY DEF CatIInv
  <2>3. \A u \in DocUploaders : uploads'[u].st # "-" =>
          /\ uploads'[u].doc \in DOMAIN docRows'
          /\ docRows'[uploads'[u].doc].item = 0 /\ docRows'[uploads'[u].doc].text \in Texts
    BY <2>1, <2>2 DEF UploadsOwn
  <2>4. \A u \in DocUploaders : uploads'[u].st = "PUT" => uploads'[u].item \in DOMAIN items'
    BY <2>1, <2>2 DEF UploadsOwn
  <2>5. \A u, v \in DocUploaders :
          uploads'[u].st # "-" /\ uploads'[v].st # "-" /\ uploads'[u].doc = uploads'[v].doc => u = v
    BY <2>1, <2>2 DEF UploadsOwn
  <2>6. QED
    BY <2>3, <2>4, <2>5 DEF UploadsOwn
<1>2. reconcile' \in [on : BOOLEAN, upTo : Nat, alive : SUBSET Nat, gone : SUBSET Nat] /\ PagesCover'
  <2>1. CASE reconcile' = reconcile
    BY <2>1 DEF CatIInv, PagesCover
  <2>2. CASE reconcile' = NoReconcile
    BY <2>2 DEF PagesCover, NoReconcile
  <2>3. QED
    BY <2>1, <2>2
<1>3. RowsNameFiles'
  BY DEF CatIInv, RowsNameFiles
<1>4. \A i : Naming(i)' = Naming(i)
  BY DEF Naming
<1>5. FilesAreCatalogued'
  BY <1>4 DEF CatIInv, FilesAreCatalogued
<1>6. QED
  BY <1>1, <1>2, <1>3, <1>5 DEF CatIInv

LEMMA CountsBounded ==
  ASSUME CatIInv
  PROVE  (Decides => decisions' \in 0..MaxDecisions) /\ (DocFault => docFaults' \in 0..MaxDocFaults)
<1>1. decisions \in 0..MaxDecisions /\ MaxDecisions \in Nat /\ docFaults \in 0..MaxDocFaults /\ MaxDocFaults \in Nat
  BY CatFacts DEF CatIInv
<1>2. QED
  BY <1>1 DEF Decides, DocFault

\* One document changes in place.
LEMMA DocReplaced ==
  ASSUME CatIInv, NEW d \in DOMAIN docRows, NEW q \in DocumentRows, docRows' = [docRows EXCEPT ![d] = q],
         q.text = docRows[d].text, q.item = docRows[d].item, q.current = docRows[d].current
  PROVE  /\ docRows' \in Seq(DocumentRows) /\ Len(docRows') = Len(docRows) /\ DOMAIN docRows' = DOMAIN docRows
         /\ \A e \in DOMAIN docRows : /\ docRows'[e].text = docRows[e].text /\ docRows'[e].item = docRows[e].item
                                      /\ docRows'[e].current = docRows[e].current
<1>1. docRows \in Seq(DocumentRows)
  BY DEF CatIInv
<1>2. docRows' \in Seq(DocumentRows) /\ Len(docRows') = Len(docRows) /\ DOMAIN docRows' = DOMAIN docRows
      /\ \A e \in DOMAIN docRows : docRows'[e] = IF e = d THEN q ELSE docRows[e]
  BY <1>1
<1>3. QED
  BY <1>2

\* Every request of a reviewer flushes decisions only.
LEMMA ReviewFlushed ==
  ASSUME CatIInv, NEW r \in DocReviewers, seen[r] # NoView, NEW new \in DocumentRows, Reviews(r, new),
         new.restricted = seen[r].row.restricted, new.past = seen[r].row.past, new.text = seen[r].row.text,
         new.item = seen[r].row.item, new.storage = seen[r].row.storage, new.current = seen[r].row.current
  PROVE  CatIInv'
<1>1. seen[r].row \in DocumentRows /\ seen[r].doc \in DOMAIN docRows /\ docRows[seen[r].doc] \in DocumentRows
  BY CatFacts DEF CatIInv
<1>2. PICK q : q = [c \in DOMAIN docRows[seen[r].doc] |-> IF new[c] # seen[r].row[c] THEN new[c] ELSE docRows[seen[r].doc][c]]
  OBVIOUS
<1>3. docRows' = [docRows EXCEPT ![seen[r].doc] = q]
  BY <1>2 DEF Reviews, Flushed
<1>4. q \in DocumentRows /\ q.text = docRows[seen[r].doc].text /\ q.item = docRows[seen[r].doc].item
      /\ q.current = docRows[seen[r].doc].current
  BY <1>1, <1>2, FlushedRow
<1>5. /\ docRows' \in Seq(DocumentRows) /\ Len(docRows') = Len(docRows) /\ DOMAIN docRows' = DOMAIN docRows
      /\ \A e \in DOMAIN docRows : /\ docRows'[e].text = docRows[e].text /\ docRows'[e].item = docRows[e].item
                                   /\ docRows'[e].current = docRows[e].current
  BY <1>1, <1>3, <1>4, DocReplaced
<1>6. UNCHANGED <<items, feed, delta, reconcile, uploads, docFaults, decisions>> /\ seen' = [seen EXCEPT ![r] = NoView]
  BY DEF Reviews, ReviewFrame
<1>7. /\ seen' \in [DocReviewers -> {NoView} \cup [doc : 1..MaxDocRows, row : DocumentRows]]
      /\ \A x \in DocReviewers : seen'[x] # NoView => seen'[x].doc \in DOMAIN docRows
  BY <1>6 DEF CatIInv
<1>8. uploads' \in [DocUploaders -> UploadRows] /\ decisions' \in 0..MaxDecisions /\ docFaults' \in 0..MaxDocFaults
  BY <1>6 DEF CatIInv
<1>9. QED
  BY <1>5, <1>6, <1>7, <1>8, CatQuiet

LEMMA ReviewersKeep ==
  ASSUME CatIInv, NEW r \in DocReviewers, seen[r] # NoView,
         \/ SubmitForReview(r) \/ ApproveRow(r) \/ RejectRow(r) \/ ApproveReuse(r)
         \/ RevokeReuse(r) \/ Supersede(r) \/ ReviewRefused(r)
  PROVE  CatIInv'
<1>1. PICK row : row = seen[r].row /\ row \in DocumentRows
  BY DEF CatIInv
<1>2. {"PENDING_REVIEW", "APPROVED", "REJECTED"} \subseteq ApprovalStatuses /\ "SUPERSEDED" \in LifecycleStatuses
  BY DEF ApprovalStatuses, LifecycleStatuses
<1>3. CASE ReviewRefused(r)
  <2>1. UNCHANGED <<docRows, items, feed, delta, reconcile, uploads, docFaults, decisions>> /\ seen' = [seen EXCEPT ![r] = NoView]
    BY <1>3 DEF ReviewRefused, ReviewFrame
  <2>2. /\ seen' \in [DocReviewers -> {NoView} \cup [doc : 1..MaxDocRows, row : DocumentRows]]
        /\ \A x \in DocReviewers : seen'[x] # NoView => seen'[x].doc \in DOMAIN docRows
    BY <2>1 DEF CatIInv
  <2>3. QED
    BY <2>1, <2>2, CatQuiet DEF CatIInv
<1>4. CASE SubmitForReview(r) \/ ApproveRow(r)
  <2>1. PICK q : \E a \in ApprovalStatuses : q = [row EXCEPT !.approval = a] /\ Reviews(r, q)
    BY <1>1, <1>2, <1>4 DEF SubmitForReview, ApproveRow
  <2>2. /\ q \in DocumentRows /\ q.restricted = row.restricted /\ q.past = row.past /\ q.text = row.text
        /\ q.item = row.item /\ q.storage = row.storage /\ q.current = row.current
    BY <1>1, <1>2, <2>1 DEF DocumentRows
  <2>3. QED
    BY <1>1, <2>1, <2>2, ReviewFlushed
<1>5. CASE RejectRow(r)
  <2>1. PICK q : q = [row EXCEPT !.approval = "REJECTED", !.reuse = FALSE] /\ Reviews(r, q)
    BY <1>1, <1>5 DEF RejectRow
  <2>2. /\ q \in DocumentRows /\ q.restricted = row.restricted /\ q.past = row.past /\ q.text = row.text
        /\ q.item = row.item /\ q.storage = row.storage /\ q.current = row.current
    BY <1>1, <1>2, <2>1 DEF DocumentRows
  <2>3. QED
    BY <1>1, <2>1, <2>2, ReviewFlushed
<1>6. CASE ApproveReuse(r) \/ RevokeReuse(r)
  <2>1. PICK q : \E b \in BOOLEAN : q = [row EXCEPT !.reuse = b] /\ Reviews(r, q)
    BY <1>1, <1>6 DEF ApproveReuse, RevokeReuse
  <2>2. /\ q \in DocumentRows /\ q.restricted = row.restricted /\ q.past = row.past /\ q.text = row.text
        /\ q.item = row.item /\ q.storage = row.storage /\ q.current = row.current
    BY <1>1, <1>2, <2>1 DEF DocumentRows
  <2>3. QED
    BY <1>1, <2>1, <2>2, ReviewFlushed
<1>7. CASE Supersede(r)
  <2>1. PICK q : q = [row EXCEPT !.life = "SUPERSEDED", !.reuse = FALSE] /\ Reviews(r, q)
    BY <1>1, <1>7 DEF Supersede
  <2>2. /\ q \in DocumentRows /\ q.restricted = row.restricted /\ q.past = row.past /\ q.text = row.text
        /\ q.item = row.item /\ q.storage = row.storage /\ q.current = row.current
    BY <1>1, <1>2, <2>1 DEF DocumentRows
  <2>3. QED
    BY <1>1, <2>1, <2>2, ReviewFlushed
<1>8. QED
  BY <1>3, <1>4, <1>5, <1>6, <1>7

LEMMA ReviewerRead ==
  ASSUME CatIInv, NEW r \in DocReviewers, NEW d \in DOMAIN docRows, ReviewerReads(r, d)
  PROVE  CatIInv'
<1>1. PICK v : v = [doc |-> d, row |-> docRows[d]]
  OBVIOUS
<1>2. v \in [doc : 1..MaxDocRows, row : DocumentRows] /\ v.doc = d
  BY <1>1, CatFacts
<1>3. seen' = [seen EXCEPT ![r] = v] /\ UNCHANGED <<docRows, items, feed, delta, reconcile, uploads, docFaults>>
      /\ decisions' \in 0..MaxDecisions
  BY <1>1, CountsBounded DEF ReviewerReads, ReviewFrame
<1>4. /\ seen' \in [DocReviewers -> {NoView} \cup [doc : 1..MaxDocRows, row : DocumentRows]]
      /\ \A x \in DocReviewers : seen'[x] # NoView => seen'[x].doc \in DOMAIN docRows
  BY <1>2, <1>3 DEF CatIInv
<1>5. QED
  BY <1>3, <1>4, CatQuiet DEF CatIInv

LEMMA DocDated ==
  ASSUME CatIInv, NEW d \in DOMAIN docRows, UpdateMetadata(d) \/ DatePasses(d)
  PROVE  CatIInv'
<1>1. docRows[d] \in DocumentRows
  BY CatFacts
<1>2. PICK q : q \in {[docRows[d] EXCEPT !.restricted = TRUE], [docRows[d] EXCEPT !.past = TRUE]} /\ docRows' = [docRows EXCEPT ![d] = q]
  BY DEF UpdateMetadata, DatePasses
<1>3. q \in DocumentRows /\ q.text = docRows[d].text /\ q.item = docRows[d].item /\ q.current = docRows[d].current
  BY <1>1, <1>2 DEF DocumentRows
<1>4. /\ docRows' \in Seq(DocumentRows) /\ Len(docRows') = Len(docRows) /\ DOMAIN docRows' = DOMAIN docRows
      /\ \A e \in DOMAIN docRows : /\ docRows'[e].text = docRows[e].text /\ docRows'[e].item = docRows[e].item
                                   /\ docRows'[e].current = docRows[e].current
  BY <1>2, <1>3, DocReplaced
<1>5. UNCHANGED <<items, feed, delta, reconcile, uploads, docFaults, seen>> /\ decisions' \in 0..MaxDecisions
  BY CountsBounded DEF UpdateMetadata, DatePasses, ReviewFrame
<1>6. QED
  BY <1>4, <1>5, CatQuiet DEF CatIInv

LEMMA DocsExpire ==
  ASSUME CatIInv, MarkExpired
  PROVE  CatIInv'
<1> DEFINE New(d) == IF docRows[d].life = "ACTIVE" /\ docRows[d].past
                     THEN [docRows[d] EXCEPT !.life = "EXPIRED", !.reuse = FALSE] ELSE docRows[d]
<1>0. Len(docRows) \in Nat /\ DOMAIN docRows = 1..Len(docRows) /\ \A d \in DOMAIN docRows : docRows[d] \in DocumentRows
  BY CatFacts
<1>1. docRows' = [d \in DOMAIN docRows |-> New(d)]
  BY DEF MarkExpired
<1>2. ASSUME NEW d \in DOMAIN docRows
      PROVE  /\ New(d) \in DocumentRows /\ New(d).text = docRows[d].text /\ New(d).item = docRows[d].item
             /\ New(d).current = docRows[d].current
  <2>1. CASE New(d) = docRows[d]
    BY <1>0, <2>1
  <2>2. CASE New(d) = [docRows[d] EXCEPT !.life = "EXPIRED", !.reuse = FALSE]
    <3>1. PICK q : q = [docRows[d] EXCEPT !.life = "EXPIRED", !.reuse = FALSE]
      OBVIOUS
    <3>2. q \in DocumentRows /\ q.text = docRows[d].text /\ q.item = docRows[d].item /\ q.current = docRows[d].current
      BY <1>0, <3>1 DEF DocumentRows, LifecycleStatuses
    <3>3. QED
      BY <2>2, <3>1, <3>2
  <2>3. QED
    BY <2>1, <2>2
<1> HIDE DEF New
<1>3. docRows' \in [1..Len(docRows) -> DocumentRows] /\ DOMAIN docRows' = DOMAIN docRows /\ \A d \in DOMAIN docRows : docRows'[d] = New(d)
  BY <1>0, <1>1, <1>2
<1>4. docRows' \in Seq(DocumentRows) /\ Len(docRows') = Len(docRows)
  BY <1>0, <1>3
<1>5. UNCHANGED <<items, feed, delta, reconcile, uploads, docFaults, seen, decisions>>
  BY DEF MarkExpired, ReviewFrame
<1>6. QED
  BY <1>2, <1>3, <1>4, <1>5, CatQuiet DEF CatIInv

\* An upload ends without a word, or is marked as failed.
LEMMA UploadEnds ==
  ASSUME CatIInv, NEW u \in DocUploaders, PutFails(u) \/ UploaderDies(u)
  PROVE  CatIInv'
<1>1. UNCHANGED <<items, feed, delta, reconcile, seen, decisions>> /\ docFaults' \in 0..MaxDocFaults
      /\ uploads' = [uploads EXCEPT ![u].st = "-"]
  BY CountsBounded DEF PutFails, UploaderDies
<1>2. PICK w : w = [uploads[u] EXCEPT !.st = "-"]
  OBVIOUS
<1>3. w \in UploadRows /\ w.st = "-" /\ uploads \in [DocUploaders -> UploadRows] /\ uploads' = [uploads EXCEPT ![u] = w]
  BY <1>1, <1>2 DEF CatIInv, UploadRows
<1>4. uploads' \in [DocUploaders -> UploadRows] /\ \A v \in DocUploaders : uploads'[v].st = "-" \/ uploads'[v] = uploads[v]
  BY <1>3
<1>5. /\ docRows' \in Seq(DocumentRows) /\ Len(docRows') = Len(docRows) /\ DOMAIN docRows' = DOMAIN docRows
      /\ \A e \in DOMAIN docRows : /\ docRows'[e].text = docRows[e].text /\ docRows'[e].item = docRows[e].item
                                   /\ docRows'[e].current = docRows[e].current
  <2>1. CASE UploaderDies(u)
    BY <2>1 DEF UploaderDies, CatIInv
  <2>2. CASE PutFails(u)
    <3>1. uploads[u].doc \in DOMAIN docRows
      BY <2>2 DEF PutFails, CatIInv, UploadsOwn
    <3>2. docRows[uploads[u].doc] \in DocumentRows
      BY <3>1, CatFacts
    <3>3. PICK q : q = [docRows[uploads[u].doc] EXCEPT !.storage = "FAILED"]
      OBVIOUS
    <3>4. q \in DocumentRows /\ q.text = docRows[uploads[u].doc].text /\ q.item = docRows[uploads[u].doc].item
          /\ q.current = docRows[uploads[u].doc].current
      BY <3>2, <3>3 DEF DocumentRows, StorageStatuses
    <3>5. docRows' = [docRows EXCEPT ![uploads[u].doc] = q]
      BY <2>2, <3>3 DEF PutFails
    <3>6. QED
      BY <3>1, <3>4, <3>5, DocReplaced
  <2>3. QED
    BY <2>1, <2>2
<1>6. QED
  BY <1>1, <1>4, <1>5, CatQuiet DEF CatIInv

LEMMA ReconcileEnds ==
  ASSUME CatIInv, ReconcileFails
  PROVE  CatIInv'
<1>1. UNCHANGED <<docRows, items, feed, delta, uploads, seen, decisions>> /\ reconcile' = NoReconcile /\ docFaults' \in 0..MaxDocFaults
  BY CountsBounded DEF ReconcileFails
<1>2. QED
  BY <1>1, CatQuiet DEF CatIInv

\* With the checkpoint and the feed as they are, rows may come and files may go.
LEMMA CataloguedStays ==
  ASSUME CatIInv, UNCHANGED <<feed, delta>>, NEW n \in 1..delta.upTo,
         items'[feed[n]].alive => items[feed[n]].alive, Naming(feed[n]) # {} => Naming(feed[n])' # {},
         items'[feed'[n]].alive, ~delta'.rebaseline
  PROVE  Naming(feed[n])' # {} \/ \E m \in (delta'.upTo + 1)..Len(feed') : feed'[m] = feed'[n]
<1>1. Naming(feed[n]) # {} \/ \E m \in (delta.upTo + 1)..Len(feed) : feed[m] = feed[n]
  BY DEF CatIInv, FilesAreCatalogued
<1>2. QED
  BY <1>1

\* A placeholder row is added for an upload that starts.
LEMMA UploadStarted ==
  ASSUME CatIInv, NEW u \in DocUploaders, NEW t \in Texts, UploadStarts(u, t)
  PROVE  CatIInv'
<1>1. PICK row : row = NewDocument(t, 0, "UPLOADING", FALSE)
  OBVIOUS
<1>2. docRows \in Seq(DocumentRows) /\ Len(docRows) \in Nat /\ Len(docRows) < MaxDocRows /\ MaxDocRows \in Nat /\ MaxItems \in Nat
      /\ DOMAIN docRows = 1..Len(docRows) /\ docRows' = Append(docRows, row)
      /\ UNCHANGED <<items, feed, delta, reconcile, seen, decisions, docFaults>>
  BY <1>1, CatFacts DEF CatIInv, UploadStarts
<1>3. row \in DocumentRows /\ row.text = t /\ row.item = 0 /\ ~row.current
  <2>1. 0 \in 0..MaxItems
    BY <1>2
  <2>2. QED
    BY <1>1, <2>1 DEF NewDocument, DocumentRows, LifecycleStatuses, ApprovalStatuses, StorageStatuses
<1>4. /\ docRows' \in Seq(DocumentRows) /\ Len(docRows') = Len(docRows) + 1
      /\ \A i \in 1..Len(docRows) : docRows'[i] = docRows[i]
      /\ docRows'[Len(docRows) + 1] = row
  BY <1>2, <1>3, AppendProperties
<1>5. DOMAIN docRows' = 1..(Len(docRows) + 1) /\ Len(docRows') <= MaxDocRows
  BY <1>2, <1>4
<1>6. DOMAIN docRows \subseteq DOMAIN docRows' /\ (\A i \in DOMAIN docRows' : i \in DOMAIN docRows \/ i = Len(docRows) + 1)
      /\ Len(docRows) + 1 \in DOMAIN docRows' /\ Len(docRows) + 1 \notin DOMAIN docRows /\ Len(docRows) + 1 \in 0..MaxDocRows
  BY <1>2, <1>5
<1>7. PICK w : w = [st |-> "CREATED", doc |-> Len(docRows) + 1, item |-> 0]
  OBVIOUS
<1>8. w \in UploadRows /\ w.st = "CREATED" /\ w.doc = Len(docRows) + 1
  <2>1. 0 \in 0..MaxItems
    BY <1>2
  <2>2. QED
    BY <1>6, <1>7, <2>1 DEF UploadRows
<1>9. uploads' \in [DocUploaders -> UploadRows] /\ \A v \in DocUploaders : uploads'[v] = IF v = u THEN w ELSE uploads[v]
  BY <1>7, <1>8 DEF UploadStarts, CatIInv
<1>10. UploadsOwn'
  <2>0. UploadsOwn
    BY DEF CatIInv
  <2>1. \A v \in DocUploaders : v # u /\ uploads[v].st # "-" =>
          uploads[v].doc \in DOMAIN docRows /\ docRows'[uploads[v].doc] = docRows[uploads[v].doc]
    BY <1>2, <1>4, <2>0 DEF UploadsOwn
  <2>2. \A v \in DocUploaders : uploads'[v].st # "-" =>
          /\ uploads'[v].doc \in DOMAIN docRows'
          /\ docRows'[uploads'[v].doc].item = 0 /\ docRows'[uploads'[v].doc].text \in Texts
    BY <1>3, <1>4, <1>6, <1>8, <1>9, <2>0, <2>1 DEF UploadsOwn
  <2>3. \A v \in DocUploaders : uploads'[v].st = "PUT" => uploads'[v].item \in DOMAIN items'
    BY <1>2, <1>8, <1>9, <2>0 DEF UploadsOwn
  <2>4. \A v, x \in DocUploaders :
          uploads'[v].st # "-" /\ uploads'[x].st # "-" /\ uploads'[v].doc = uploads'[x].doc => v = x
    BY <1>6, <1>8, <1>9, <2>0, <2>1 DEF UploadsOwn
  <2>5. QED
    BY <2>2, <2>3, <2>4 DEF UploadsOwn
<1>11. PagesCover'
  BY <1>2 DEF CatIInv, PagesCover
<1>12. RowsNameFiles'
  BY <1>2, <1>3, <1>4, <1>6 DEF CatIInv, RowsNameFiles
<1>13. \A i : Naming(i) \subseteq Naming(i)'
  BY <1>2, <1>4, <1>6 DEF Naming
<1>14. FilesAreCatalogued'
  <2> SUFFICES ASSUME NEW n \in 1..delta'.upTo, items'[feed'[n]].alive, ~delta'.rebaseline
               PROVE  Naming(feed[n])' # {} \/ \E m \in (delta'.upTo + 1)..Len(feed') : feed'[m] = feed'[n]
    BY DEF FilesAreCatalogued
  <2>1. Naming(feed[n]) # {} => Naming(feed[n])' # {}
    BY <1>2, <1>13
  <2>2. QED
    BY <1>2, <2>1, CataloguedStays
<1>15. QED
  BY <1>2, <1>4, <1>5, <1>6, <1>9, <1>10, <1>11, <1>12, <1>14 DEF CatIInv

\* A file comes to the drive and to the end of its feed.
LEMMA ItemCreated ==
  ASSUME CatIInv, NEW t \in Texts \cup {"foreign"}, CreateItem(t), UNCHANGED <<docRows, delta, reconcile, seen, decisions>>,
         docFaults' \in 0..MaxDocFaults, uploads' \in [DocUploaders -> UploadRows],
         \A u \in DocUploaders : \/ uploads'[u] = uploads[u]
                                 \/ /\ uploads[u].st # "-" /\ uploads'[u].doc = uploads[u].doc
                                    /\ uploads'[u].item = Len(items) + 1
  PROVE  CatIInv'
<1>1. PICK row : row = [text |-> t, alive |-> TRUE]
  OBVIOUS
<1>2. /\ items \in Seq(ItemRows) /\ Len(items) \in Nat /\ Len(items) < MaxItems /\ MaxItems \in Nat /\ DOMAIN items = 1..Len(items)
      /\ feed \in Seq(Nat) /\ Len(feed) \in Nat /\ DOMAIN feed = 1..Len(feed)
      /\ \A n \in DOMAIN feed : feed[n] \in DOMAIN items
      /\ items' = Append(items, row) /\ feed' = Append(feed, Len(items) + 1)
      /\ delta.upTo \in Nat /\ delta.upTo <= Len(feed)
  BY <1>1, CatFacts DEF CatIInv, CreateItem
<1>3. row \in ItemRows
  BY <1>1 DEF ItemRows
<1>4. /\ items' \in Seq(ItemRows) /\ Len(items') = Len(items) + 1
      /\ \A i \in 1..Len(items) : items'[i] = items[i]
  BY <1>2, <1>3, AppendProperties
<1>5. Len(items) + 1 \in Nat
  BY <1>2
<1>6. /\ feed' \in Seq(Nat) /\ Len(feed') = Len(feed) + 1
      /\ \A n \in 1..Len(feed) : feed'[n] = feed[n]
      /\ feed'[Len(feed) + 1] = Len(items) + 1
  BY <1>2, <1>5, AppendProperties
<1>7. DOMAIN items' = 1..(Len(items) + 1) /\ Len(items') <= MaxItems /\ DOMAIN feed' = 1..(Len(feed) + 1)
  BY <1>2, <1>4, <1>6
<1>8. DOMAIN items \subseteq DOMAIN items' /\ Len(items) + 1 \in DOMAIN items' /\ delta.upTo <= Len(feed')
      /\ \A n \in DOMAIN feed' : n \in DOMAIN feed \/ n = Len(feed) + 1
  BY <1>2, <1>6, <1>7
<1>9. \A n \in DOMAIN feed' : feed'[n] \in DOMAIN items'
  BY <1>2, <1>6, <1>8
<1>10. UploadsOwn'
  <2>0. UploadsOwn
    BY DEF CatIInv
  <2>1. \A v \in DocUploaders : uploads'[v].doc = uploads[v].doc /\ (uploads'[v].st # "-" => uploads[v].st # "-")
    OBVIOUS
  <2>2. \A v \in DocUploaders : uploads'[v].st = "PUT" => uploads'[v].item \in DOMAIN items'
    BY <1>8, <2>0 DEF UploadsOwn
  <2>3. QED
    BY <2>0, <2>1, <2>2 DEF UploadsOwn
<1>11. PagesCover'
  <2> SUFFICES ASSUME reconcile.on
               PROVE  /\ delta.upTo <= reconcile.upTo /\ reconcile.upTo <= Len(feed')
                      /\ reconcile.alive \subseteq DOMAIN items'
                      /\ \A n \in 1..reconcile.upTo :
                           (delta.rebaseline \/ n > delta.upTo) /\ items'[feed'[n]].alive => feed'[n] \in reconcile.alive
    BY DEF PagesCover
  <2>1. /\ delta.upTo <= reconcile.upTo /\ reconcile.upTo <= Len(feed) /\ reconcile.upTo \in Nat
        /\ reconcile.alive \subseteq DOMAIN items
        /\ \A n \in 1..reconcile.upTo : (delta.rebaseline \/ n > delta.upTo) /\ items[feed[n]].alive => feed[n] \in reconcile.alive
    BY CatFacts DEF CatIInv, PagesCover
  <2>2. \A n \in 1..reconcile.upTo : n \in DOMAIN feed
    BY <1>2, <2>1
  <2>3. \A n \in 1..reconcile.upTo : feed'[n] = feed[n] /\ items'[feed[n]] = items[feed[n]]
    BY <1>2, <1>4, <1>6, <2>2
  <2>4. reconcile.upTo <= Len(feed')
    BY <1>2, <1>6, <2>1
  <2>5. QED
    BY <1>8, <2>1, <2>3, <2>4
<1>12. RowsNameFiles'
  BY <1>2, <1>4, <1>8 DEF CatIInv, RowsNameFiles
<1>13. FilesAreCatalogued'
  <2> SUFFICES ASSUME NEW n \in 1..delta.upTo, items'[feed'[n]].alive, ~delta.rebaseline
               PROVE  Naming(feed'[n]) # {} \/ \E m \in (delta.upTo + 1)..Len(feed') : feed'[m] = feed'[n]
    BY DEF FilesAreCatalogued, Naming
  <2>1. n \in DOMAIN feed
    BY <1>2
  <2>2. feed'[n] = feed[n] /\ items'[feed[n]] = items[feed[n]]
    BY <1>2, <1>4, <1>6, <2>1
  <2>3. Naming(feed[n]) # {} \/ \E m \in (delta.upTo + 1)..Len(feed) : feed[m] = feed[n]
    BY <2>2 DEF CatIInv, FilesAreCatalogued
  <2>4. ASSUME NEW m \in (delta.upTo + 1)..Len(feed), feed[m] = feed[n]
        PROVE  m \in (delta.upTo + 1)..Len(feed') /\ feed'[m] = feed'[n]
    <3>1. m \in 1..Len(feed) /\ m \in (delta.upTo + 1)..(Len(feed) + 1)
      BY <1>2
    <3>2. QED
      BY <1>6, <2>2, <2>4, <3>1
  <2>5. QED
    BY <2>2, <2>3, <2>4
<1>14. QED
  BY <1>2, <1>4, <1>6, <1>7, <1>8, <1>9, <1>10, <1>11, <1>12, <1>13 DEF CatIInv

LEMMA StreamPut ==
  ASSUME CatIInv, NEW u \in DocUploaders, PutStream(u)
  PROVE  CatIInv'
<1>1. PICK t \in Texts \cup {"foreign"} : CreateItem(t) /\ docFaults' \in 0..MaxDocFaults
  <2>1. docRows[uploads[u].doc].text \in Texts /\ docFaults \in 0..MaxDocFaults
    BY DEF PutStream, CatIInv, UploadsOwn
  <2>2. QED
    BY <2>1, CountsBounded DEF PutStream
<1>2. PICK w : w = [uploads[u] EXCEPT !.st = "PUT", !.item = Len(items) + 1]
  OBVIOUS
<1>3. Len(items) + 1 \in 0..MaxItems
  <2>1. Len(items) \in Nat /\ MaxItems \in Nat /\ Len(items) < MaxItems
    BY <1>1, CatFacts DEF CreateItem
  <2>2. QED
    BY <2>1
<1>4. /\ uploads \in [DocUploaders -> UploadRows] /\ uploads' = [uploads EXCEPT ![u] = w]
      /\ w \in UploadRows /\ w.doc = uploads[u].doc /\ w.item = Len(items) + 1 /\ uploads[u].st # "-"
  BY <1>2, <1>3 DEF CatIInv, PutStream, UploadRows
<1>5. uploads' \in [DocUploaders -> UploadRows] /\ \A v \in DocUploaders : uploads'[v] = IF v = u THEN w ELSE uploads[v]
  BY <1>4
<1>6. UNCHANGED <<docRows, delta, reconcile, seen, decisions>>
  BY DEF PutStream
<1>7. QED
  BY <1>1, <1>4, <1>5, <1>6, ItemCreated

LEMMA FileCame ==
  ASSUME CatIInv, FileDropped
  PROVE  CatIInv'
<1>1. "foreign" \in Texts \cup {"foreign"} /\ CreateItem("foreign")
      /\ UNCHANGED <<docRows, delta, reconcile, uploads, seen, decisions, docFaults>>
  BY DEF FileDropped
<1>2. uploads' \in [DocUploaders -> UploadRows] /\ docFaults' \in 0..MaxDocFaults /\ \A u \in DocUploaders : uploads'[u] = uploads[u]
  BY <1>1 DEF CatIInv
<1>3. QED
  BY <1>1, <1>2, ItemCreated

\* A file goes: whoever named it still does, and the feed says so at its end.
LEMMA FileGone ==
  ASSUME CatIInv, NEW i \in DOMAIN items, FileDeleted(i)
  PROVE  CatIInv'
<1>1. /\ items \in Seq(ItemRows) /\ items[i] \in ItemRows /\ Len(items) \in Nat /\ DOMAIN items = 1..Len(items)
      /\ feed \in Seq(Nat) /\ Len(feed) \in Nat /\ DOMAIN feed = 1..Len(feed)
      /\ \A n \in DOMAIN feed : feed[n] \in DOMAIN items
      /\ feed' = Append(feed, i) /\ i \in Nat
      /\ delta.upTo \in Nat /\ delta.upTo <= Len(feed)
      /\ UNCHANGED <<docRows, delta, reconcile, uploads, seen, decisions, docFaults>>
  BY CatFacts DEF CatIInv, FileDeleted
<1>2. PICK row : row = [items[i] EXCEPT !.alive = FALSE]
  OBVIOUS
<1>3. row \in ItemRows /\ row.text = items[i].text /\ ~row.alive /\ items' = [items EXCEPT ![i] = row]
  BY <1>1, <1>2 DEF FileDeleted, ItemRows
<1>4. /\ items' \in Seq(ItemRows) /\ Len(items') = Len(items) /\ DOMAIN items' = DOMAIN items
      /\ \A k \in DOMAIN items : items'[k] = IF k = i THEN row ELSE items[k]
  BY <1>1, <1>3
<1>5. \A k \in DOMAIN items : items'[k].text = items[k].text /\ (items'[k].alive => items[k].alive)
  BY <1>3, <1>4
<1>6. /\ feed' \in Seq(Nat) /\ Len(feed') = Len(feed) + 1
      /\ \A n \in 1..Len(feed) : feed'[n] = feed[n]
      /\ feed'[Len(feed) + 1] = i
  BY <1>1, AppendProperties
<1>7. DOMAIN feed' = 1..(Len(feed) + 1)
  BY <1>1, <1>6
<1>8. delta.upTo <= Len(feed') /\ \A n \in DOMAIN feed' : n \in DOMAIN feed \/ n = Len(feed) + 1
  BY <1>1, <1>6, <1>7
<1>9. \A n \in DOMAIN feed' : feed'[n] \in DOMAIN items'
  BY <1>1, <1>4, <1>6, <1>8
<1>10. UploadsOwn'
  BY <1>1, <1>4 DEF CatIInv, UploadsOwn
<1>11. PagesCover'
  <2> SUFFICES ASSUME reconcile.on
               PROVE  /\ delta.upTo <= reconcile.upTo /\ reconcile.upTo <= Len(feed')
                      /\ reconcile.alive \subseteq DOMAIN items'
                      /\ \A n \in 1..reconcile.upTo :
                           (delta.rebaseline \/ n > delta.upTo) /\ items'[feed'[n]].alive => feed'[n] \in reconcile.alive
    BY <1>1 DEF PagesCover
  <2>1. /\ delta.upTo <= reconcile.upTo /\ reconcile.upTo <= Len(feed) /\ reconcile.upTo \in Nat
        /\ reconcile.alive \subseteq DOMAIN items
        /\ \A n \in 1..reconcile.upTo : (delta.rebaseline \/ n > delta.upTo) /\ items[feed[n]].alive => feed[n] \in reconcile.alive
    BY CatFacts DEF CatIInv, PagesCover
  <2>2. \A n \in 1..reconcile.upTo : n \in DOMAIN feed
    BY <1>1, <2>1
  <2>3. \A n \in 1..reconcile.upTo : feed'[n] = feed[n] /\ (items'[feed[n]].alive => items[feed[n]].alive)
    BY <1>1, <1>5, <1>6, <2>2
  <2>4. reconcile.upTo <= Len(feed')
    BY <1>1, <1>6, <2>1
  <2>5. QED
    BY <1>4, <2>1, <2>3, <2>4
<1>12. RowsNameFiles'
  BY <1>1, <1>4, <1>5 DEF CatIInv, RowsNameFiles
<1>13. FilesAreCatalogued'
  <2> SUFFICES ASSUME NEW n \in 1..delta.upTo, items'[feed'[n]].alive, ~delta.rebaseline
               PROVE  Naming(feed'[n]) # {} \/ \E m \in (delta.upTo + 1)..Len(feed') : feed'[m] = feed'[n]
    <3>1. UNCHANGED <<docRows, delta>>
      BY <1>1
    <3>2. QED
      BY <3>1 DEF FilesAreCatalogued, Naming
  <2>1. n \in DOMAIN feed
    BY <1>1
  <2>2. feed'[n] = feed[n] /\ items[feed[n]].alive
    BY <1>1, <1>5, <1>6, <2>1
  <2>3. Naming(feed[n]) # {} \/ \E m \in (delta.upTo + 1)..Len(feed) : feed[m] = feed[n]
    BY <2>2 DEF CatIInv, FilesAreCatalogued
  <2>4. ASSUME NEW m \in (delta.upTo + 1)..Len(feed), feed[m] = feed[n]
        PROVE  m \in (delta.upTo + 1)..Len(feed') /\ feed'[m] = feed'[n]
    <3>1. m \in 1..Len(feed) /\ m \in (delta.upTo + 1)..(Len(feed) + 1)
      BY <1>1
    <3>2. QED
      BY <1>6, <2>2, <2>4, <3>1
  <2>5. QED
    BY <2>2, <2>3, <2>4
<1>14. QED
  BY <1>1, <1>4, <1>6, <1>8, <1>9, <1>10, <1>11, <1>12, <1>13 DEF CatIInv

LEMMA UploadCompleted ==
  ASSUME CatIInv, NEW u \in DocUploaders, UploadCompletes(u)
  PROVE  CatIInv'
<1>1. UNCHANGED <<items, feed, delta, reconcile, seen, decisions, docFaults>>
  BY DEF UploadCompletes
<1>2. PICK w : w = [uploads[u] EXCEPT !.st = "-"]
  OBVIOUS
<1>3. w \in UploadRows /\ w.st = "-" /\ uploads \in [DocUploaders -> UploadRows] /\ uploads' = [uploads EXCEPT ![u] = w]
      /\ uploads[u].st = "PUT" /\ uploads[u] \in UploadRows
  BY <1>2 DEF CatIInv, UploadRows, UploadCompletes
<1>4. uploads' \in [DocUploaders -> UploadRows] /\ \A v \in DocUploaders : uploads'[v] = IF v = u THEN w ELSE uploads[v]
  BY <1>3
<1>5. PICK d, i : d = uploads[u].doc /\ i = uploads[u].item
  OBVIOUS
<1>6. d \in DOMAIN docRows /\ i \in DOMAIN items /\ docRows[d] \in DocumentRows /\ docRows \in Seq(DocumentRows) /\ i \in 0..MaxItems
      /\ docRows[d].item = 0
  BY <1>3, <1>5, CatFacts DEF CatIInv, UploadsOwn, UploadRows
<1>7. CASE UploadVerified(u)
  <2>1. PICK q : q = [docRows[d] EXCEPT !.storage = "AVAILABLE", !.current = TRUE, !.item = i]
    OBVIOUS
  <2>2. q \in DocumentRows /\ q.text = docRows[d].text /\ q.item = i
    BY <1>6, <2>1 DEF DocumentRows, StorageStatuses
  <2>3. docRows' = [docRows EXCEPT ![d] = q]
    BY <1>5, <1>7, <2>1 DEF UploadCompletes
  <2>4. /\ docRows' \in Seq(DocumentRows) /\ Len(docRows') = Len(docRows) /\ DOMAIN docRows' = DOMAIN docRows
        /\ \A e \in DOMAIN docRows : docRows'[e] = IF e = d THEN q ELSE docRows[e]
    BY <1>6, <2>2, <2>3
  <2>5. items[i].text = docRows[d].text
    BY <1>5, <1>7 DEF UploadVerified
  <2>6. UploadsOwn'
    <3>0. UploadsOwn
      BY DEF CatIInv
    <3>1. \A v \in DocUploaders : uploads'[v].st # "-" => v # u /\ uploads'[v] = uploads[v] /\ uploads[v].doc # d
      BY <1>3, <1>4, <1>5, <3>0 DEF UploadsOwn
    <3>2. \A v \in DocUploaders : uploads'[v].st # "-" => docRows'[uploads[v].doc] = docRows[uploads[v].doc]
      BY <2>4, <3>0, <3>1 DEF UploadsOwn
    <3>3. \A v \in DocUploaders : uploads'[v].st = "PUT" => uploads'[v].item \in DOMAIN items'
      BY <1>1, <3>0, <3>1 DEF UploadsOwn
    <3>4. \A v \in DocUploaders : uploads'[v].st # "-" =>
            /\ uploads'[v].doc \in DOMAIN docRows'
            /\ docRows'[uploads'[v].doc].item = 0 /\ docRows'[uploads'[v].doc].text \in Texts
      BY <2>4, <3>0, <3>1, <3>2 DEF UploadsOwn
    <3>5. \A v, x \in DocUploaders :
            uploads'[v].st # "-" /\ uploads'[x].st # "-" /\ uploads'[v].doc = uploads'[x].doc => v = x
      BY <3>0, <3>1 DEF UploadsOwn
    <3>6. QED
      BY <3>3, <3>4, <3>5 DEF UploadsOwn
  <2>7. PagesCover'
    BY <1>1 DEF CatIInv, PagesCover
  <2>8. RowsNameFiles'
    BY <1>1, <1>6, <2>2, <2>4, <2>5 DEF CatIInv, RowsNameFiles
  <2>9. ASSUME NEW k \in DOMAIN items, Naming(k) # {}
        PROVE  Naming(k)' # {}
    <3>1. PICK e \in DOMAIN docRows : docRows[e].item = k
      BY <2>9 DEF Naming
    <3>2. k # 0
      BY CatFacts
    <3>3. e # d
      BY <1>6, <3>1, <3>2
    <3>4. e \in Naming(k)'
      BY <2>4, <3>1, <3>3 DEF Naming
    <3>5. QED
      BY <3>4
  <2>10. FilesAreCatalogued'
    <3> SUFFICES ASSUME NEW n \in 1..delta'.upTo, items'[feed'[n]].alive, ~delta'.rebaseline
                 PROVE  Naming(feed[n])' # {} \/ \E m \in (delta'.upTo + 1)..Len(feed') : feed'[m] = feed'[n]
      BY DEF FilesAreCatalogued
    <3>1. n \in 1..Len(feed)
      <4>1. delta.upTo \in Nat /\ Len(feed) \in Nat /\ delta.upTo <= Len(feed)
        BY CatFacts DEF CatIInv
      <4>2. QED
        BY <1>1, <4>1
    <3>2. feed[n] \in DOMAIN items
      BY <3>1, CatFacts DEF CatIInv
    <3>3. Naming(feed[n]) # {} => Naming(feed[n])' # {}
      BY <1>1, <2>9, <3>2
    <3>4. QED
      BY <1>1, <3>3, CataloguedStays
  <2>11. QED
    BY <1>1, <1>4, <2>4, <2>6, <2>7, <2>8, <2>10 DEF CatIInv
<1>8. CASE ~UploadVerified(u)
  <2>1. PICK q : q = [docRows[d] EXCEPT !.storage = "QUARANTINED", !.life = "QUARANTINED"]
    OBVIOUS
  <2>2. q \in DocumentRows /\ q.text = docRows[d].text /\ q.item = docRows[d].item /\ q.current = docRows[d].current
    BY <1>6, <2>1 DEF DocumentRows, StorageStatuses, LifecycleStatuses
  <2>3. docRows' = [docRows EXCEPT ![d] = q]
    BY <1>5, <1>8, <2>1 DEF UploadCompletes
  <2>4. /\ docRows' \in Seq(DocumentRows) /\ Len(docRows') = Len(docRows) /\ DOMAIN docRows' = DOMAIN docRows
        /\ \A e \in DOMAIN docRows : /\ docRows'[e].text = docRows[e].text /\ docRows'[e].item = docRows[e].item
                                     /\ docRows'[e].current = docRows[e].current
    BY <1>6, <2>2, <2>3, DocReplaced
  <2>5. \A v \in DocUploaders : uploads'[v].st = "-" \/ uploads'[v] = uploads[v]
    BY <1>3, <1>4
  <2>6. QED
    BY <1>1, <1>4, <2>4, <2>5, CatQuiet DEF CatIInv
<1>9. QED
  BY <1>7, <1>8

\* The pages of a reconciliation, or a token that is no longer valid.
LEMMA ReconcileStarts ==
  ASSUME CatIInv, ReconcileReads \/ TokenExpires
  PROVE  CatIInv'
<1>1. UNCHANGED <<docRows, items, feed, uploads, seen, decisions>> /\ docFaults' \in 0..MaxDocFaults
  BY CountsBounded DEF ReconcileReads, TokenExpires, CatIInv
<1>2. UploadsOwn' /\ RowsNameFiles'
  BY <1>1 DEF CatIInv, UploadsOwn, RowsNameFiles
<1>3. delta.upTo \in Nat /\ Len(feed) \in Nat /\ delta.upTo <= Len(feed) /\ DOMAIN feed = 1..Len(feed)
      /\ DOMAIN items = 1..Len(items) /\ \A n \in DOMAIN feed : feed[n] \in DOMAIN items
  BY CatFacts DEF CatIInv
<1>4. CASE ReconcileReads
  <2>1. PICK changed : changed = {feed[n] : n \in (delta.upTo + 1)..Len(feed)}
    OBVIOUS
  <2>2. PICK listed : listed = IF delta.rebaseline THEN {i \in DOMAIN items : items[i].alive} ELSE changed
    OBVIOUS
  <2>3. reconcile' = [on |-> TRUE, upTo |-> Len(feed), alive |-> {i \in listed : items[i].alive}, gone |-> {i \in listed : ~items[i].alive}]
        /\ UNCHANGED delta
    BY <1>4, <2>1, <2>2 DEF ReconcileReads
  <2>4. changed \subseteq DOMAIN items /\ listed \subseteq DOMAIN items
    BY <1>3, <2>1, <2>2, SMTT(20)
  <2>5. reconcile' \in [on : BOOLEAN, upTo : Nat, alive : SUBSET Nat, gone : SUBSET Nat] /\ reconcile'.upTo = Len(feed)
        /\ reconcile'.alive = {i \in listed : items[i].alive}
    BY <1>3, <2>3, <2>4
  <2>6. \A n \in 1..Len(feed) : (delta.rebaseline \/ n > delta.upTo) /\ items[feed[n]].alive => feed[n] \in reconcile'.alive
    BY <1>3, <2>1, <2>2, <2>5
  <2>7. PagesCover'
    BY <1>1, <1>3, <2>3, <2>4, <2>5, <2>6 DEF PagesCover
  <2>8. FilesAreCatalogued'
    <3>1. FilesAreCatalogued /\ UNCHANGED <<docRows, items, feed, delta>>
      BY <1>1, <2>3 DEF CatIInv
    <3>2. QED
      BY <3>1 DEF FilesAreCatalogued, Naming
  <2>9. QED
    BY <1>1, <1>2, <2>3, <2>5, <2>7, <2>8 DEF CatIInv
<1>5. CASE TokenExpires
  <2>1. delta' = [delta EXCEPT !.rebaseline = TRUE] /\ UNCHANGED reconcile /\ ~reconcile.on
    BY <1>5 DEF TokenExpires
  <2>2. delta' \in [upTo : Nat, rebaseline : BOOLEAN] /\ delta'.upTo = delta.upTo /\ delta'.rebaseline
    BY <2>1 DEF CatIInv
  <2>3. PagesCover'
    BY <2>1 DEF PagesCover
  <2>4. FilesAreCatalogued'
    BY <2>2 DEF FilesAreCatalogued
  <2>5. QED
    BY <1>1, <1>2, <2>1, <2>2, <2>3, <2>4 DEF CatIInv
<1>6. QED
  BY <1>4, <1>5

\* What a reconciliation does to the rows: none loses its item, and every live file it listed has one.
LEMMA ReconciledRows ==
  ASSUME CatIInv, ReconcileApplies
  PROVE  /\ docRows' \in Seq(DocumentRows) /\ Len(docRows') <= MaxDocRows /\ DOMAIN docRows \subseteq DOMAIN docRows'
         /\ \A d \in DOMAIN docRows : /\ docRows'[d].text = docRows[d].text /\ docRows'[d].item = docRows[d].item
                                      /\ docRows'[d].current = docRows[d].current
         /\ \A d \in DOMAIN docRows' \ DOMAIN docRows : docRows'[d].text = "?"
         /\ \A i \in reconcile.alive : \E d \in DOMAIN docRows' : docRows'[d].item = i
<1> DEFINE unknown == {i \in reconcile.alive : Naming(i) = {}}
           known == {i \in reconcile.gone : Naming(i) # {}}
<1>1. unknown = {i \in reconcile.alive : Naming(i) = {}}
  OBVIOUS
<1> DEFINE New(victim, d) == IF \E i \in known : victim[i] = d
                             THEN [docRows[d] EXCEPT !.life = "DELETED_EXTERNALLY", !.reuse = FALSE,
                                                     !.storage = "DELETED_EXTERNALLY"]
                             ELSE docRows[d]
<1>2. /\ reconcile.on /\ Len(docRows) + (IF unknown = {} THEN 0 ELSE 1) <= MaxDocRows
      /\ unknown = {} \/ \E i \in unknown : unknown = {i}
  BY <1>1 DEF ReconcileApplies
<1>3. PICK victim : docRows' = [d \in DOMAIN docRows |-> New(victim, d)]
                       \o (IF unknown = {} THEN <<>> ELSE <<NewDocument("?", CHOOSE i \in unknown : TRUE, "AVAILABLE", TRUE)>>)
  BY Zenon DEF ReconcileApplies
<1> HIDE DEF unknown, known
<1>4. Len(docRows) \in Nat /\ DOMAIN docRows = 1..Len(docRows) /\ (\A d \in DOMAIN docRows : docRows[d] \in DocumentRows)
      /\ MaxDocRows \in Nat /\ MaxItems \in Nat /\ reconcile.alive \subseteq 1..MaxItems /\ Len(docRows) <= MaxDocRows
  BY <1>2, CatFacts DEF CatIInv, PagesCover
<1>5. ASSUME NEW d \in DOMAIN docRows
      PROVE  /\ New(victim, d) \in DocumentRows /\ New(victim, d).text = docRows[d].text
             /\ New(victim, d).item = docRows[d].item /\ New(victim, d).current = docRows[d].current
  <2>1. CASE New(victim, d) = docRows[d]
    BY <1>4, <2>1
  <2>2. CASE New(victim, d) = [docRows[d] EXCEPT !.life = "DELETED_EXTERNALLY", !.reuse = FALSE, !.storage = "DELETED_EXTERNALLY"]
    <3>1. PICK q : q = [docRows[d] EXCEPT !.life = "DELETED_EXTERNALLY", !.reuse = FALSE, !.storage = "DELETED_EXTERNALLY"]
      OBVIOUS
    <3>2. q \in DocumentRows /\ q.text = docRows[d].text /\ q.item = docRows[d].item /\ q.current = docRows[d].current
      BY <1>4, <3>1 DEF DocumentRows, LifecycleStatuses, StorageStatuses
    <3>3. QED
      BY <2>2, <3>1, <3>2
  <2>3. QED
    BY <2>1, <2>2
<1>6. PICK kept : kept = [d \in DOMAIN docRows |-> New(victim, d)]
  OBVIOUS
<1> HIDE DEF New
<1>7. kept \in [1..Len(docRows) -> DocumentRows] /\ \A d \in DOMAIN docRows : kept[d] = New(victim, d)
  BY <1>4, <1>5, <1>6
<1>8. kept \in Seq(DocumentRows) /\ Len(kept) = Len(docRows)
  BY <1>4, <1>7
<1>9. PICK i : i = CHOOSE x \in unknown : TRUE
  OBVIOUS
<1>10. PICK row : row = NewDocument("?", i, "AVAILABLE", TRUE)
  OBVIOUS
<1>11. unknown # {} => unknown = {i} /\ i \in 1..MaxItems
  BY <1>1, <1>2, <1>4, <1>9
<1>12. unknown # {} => row \in DocumentRows /\ row.text = "?" /\ row.item = i
  <2> SUFFICES ASSUME unknown # {}
               PROVE  row \in DocumentRows /\ row.text = "?" /\ row.item = i
    OBVIOUS
  <2>1. i \in 0..MaxItems
    BY <1>4, <1>11
  <2>2. QED
    BY <1>10, <2>1 DEF NewDocument, DocumentRows, LifecycleStatuses, ApprovalStatuses, StorageStatuses
<1>13. CASE unknown = {}
  <2>1. docRows' = kept
    <3>1. docRows' = kept \o <<>>
      BY <1>3, <1>6, <1>13
    <3>2. QED
      BY <1>8, <3>1, ConcatEmptySeq
  <2>2. DOMAIN docRows' = DOMAIN docRows /\ Len(docRows') <= MaxDocRows
    BY <1>4, <1>8, <2>1
  <2>3. \A x \in reconcile.alive : \E d \in DOMAIN docRows' : docRows'[d].item = x
    <3> SUFFICES ASSUME NEW x \in reconcile.alive
                 PROVE  \E d \in DOMAIN docRows' : docRows'[d].item = x
      OBVIOUS
    <3>1. PICK d \in DOMAIN docRows : docRows[d].item = x
      BY <1>1, <1>13 DEF Naming
    <3>2. QED
      BY <1>5, <1>7, <2>1, <2>2, <3>1
  <2>4. QED
    BY <1>5, <1>7, <1>8, <2>1, <2>2, <2>3
<1>14. CASE unknown # {}
  <2>1. docRows' = kept \o <<row>>
    BY <1>3, <1>6, <1>9, <1>10, <1>14
  <2>2. PICK last : last = <<row>>
    OBVIOUS
  <2>3. last \in Seq(DocumentRows) /\ Len(last) = 1 /\ last[1] = row
    BY <1>12, <1>14, <2>2
  <2>4. /\ docRows' \in Seq(DocumentRows) /\ Len(docRows') = Len(docRows) + 1
        /\ \A k \in 1..(Len(docRows) + 1) : docRows'[k] = IF k <= Len(docRows) THEN kept[k] ELSE last[k - Len(docRows)]
    BY <1>8, <2>1, <2>2, <2>3, ConcatProperties
  <2>5. DOMAIN docRows' = 1..(Len(docRows) + 1)
    BY <1>4, <2>4
  <2>6. Len(docRows') <= MaxDocRows
    BY <1>2, <1>4, <1>14, <2>4
  <2>7. DOMAIN docRows \subseteq DOMAIN docRows' /\ \A d \in DOMAIN docRows : docRows'[d] = kept[d]
    BY <1>4, <2>4, <2>5
  <2>8. Len(docRows) + 1 \in DOMAIN docRows' /\ docRows'[Len(docRows) + 1] = row
    BY <1>4, <2>3, <2>4, <2>5
  <2>9. \A d \in DOMAIN docRows' \ DOMAIN docRows : d = Len(docRows) + 1
    BY <1>4, <2>5
  <2>10. \A x \in reconcile.alive : \E d \in DOMAIN docRows' : docRows'[d].item = x
    <3> SUFFICES ASSUME NEW x \in reconcile.alive
                 PROVE  \E d \in DOMAIN docRows' : docRows'[d].item = x
      OBVIOUS
    <3>1. CASE Naming(x) # {}
      <4>1. PICK d \in DOMAIN docRows : docRows[d].item = x
        BY <3>1 DEF Naming
      <4>2. QED
        BY <1>5, <1>7, <2>7, <4>1
    <3>2. CASE Naming(x) = {}
      BY <1>1, <1>11, <1>12, <1>14, <2>8, <3>2
    <3>3. QED
      BY <3>1, <3>2
  <2>11. \A d \in DOMAIN docRows : /\ docRows'[d].text = docRows[d].text /\ docRows'[d].item = docRows[d].item
                                   /\ docRows'[d].current = docRows[d].current
    BY <1>5, <1>7, <2>7
  <2>12. \A d \in DOMAIN docRows' \ DOMAIN docRows : docRows'[d].text = "?"
    BY <1>12, <1>14, <2>8, <2>9
  <2>13. QED
    BY <2>4, <2>6, <2>7, <2>10, <2>11, <2>12
<1>15. QED
  BY <1>13, <1>14

\* The checkpoint moves over files that were listed, or that come again behind it.
LEMMA Reconciled ==
  ASSUME CatIInv, ReconcileApplies
  PROVE  CatIInv'
<1>1. /\ docRows' \in Seq(DocumentRows) /\ Len(docRows') <= MaxDocRows /\ DOMAIN docRows \subseteq DOMAIN docRows'
      /\ \A d \in DOMAIN docRows : /\ docRows'[d].text = docRows[d].text /\ docRows'[d].item = docRows[d].item
                                   /\ docRows'[d].current = docRows[d].current
      /\ \A d \in DOMAIN docRows' \ DOMAIN docRows : docRows'[d].text = "?"
      /\ \A i \in reconcile.alive : \E d \in DOMAIN docRows' : docRows'[d].item = i
  BY ReconciledRows
<1>2. UNCHANGED <<items, feed, uploads, seen, decisions, docFaults>> /\ reconcile' = NoReconcile /\ reconcile.on
      /\ delta' = [upTo |-> reconcile.upTo, rebaseline |-> FALSE]
  BY DEF ReconcileApplies, FinalDelta
<1>3. /\ delta.upTo \in Nat /\ reconcile.upTo \in Nat /\ Len(feed) \in Nat /\ DOMAIN feed = 1..Len(feed)
      /\ delta.upTo <= reconcile.upTo /\ reconcile.upTo <= Len(feed) /\ delta.rebaseline \in BOOLEAN
      /\ \A n \in 1..reconcile.upTo : (delta.rebaseline \/ n > delta.upTo) /\ items[feed[n]].alive => feed[n] \in reconcile.alive
  BY <1>2, CatFacts DEF CatIInv, PagesCover
<1>4. delta' \in [upTo : Nat, rebaseline : BOOLEAN] /\ delta'.upTo = reconcile.upTo /\ ~delta'.rebaseline
  BY <1>2, <1>3
<1>5. reconcile' \in [on : BOOLEAN, upTo : Nat, alive : SUBSET Nat, gone : SUBSET Nat] /\ ~reconcile'.on
  BY <1>2 DEF NoReconcile
<1>6. UploadsOwn'
  <2>1. UploadsOwn
    BY DEF CatIInv
  <2>2. \A u \in DocUploaders : uploads[u].st # "-" =>
          /\ uploads[u].doc \in DOMAIN docRows'
          /\ docRows'[uploads[u].doc].item = 0 /\ docRows'[uploads[u].doc].text \in Texts
    BY <1>1, <2>1 DEF UploadsOwn
  <2>3. QED
    BY <1>2, <2>1, <2>2 DEF UploadsOwn
<1>7. RowsNameFiles'
  BY <1>1, <1>2, SMTT(20) DEF CatIInv, RowsNameFiles
<1>8. FilesAreCatalogued'
  <2> SUFFICES ASSUME NEW n \in 1..reconcile.upTo, items[feed[n]].alive
               PROVE  Naming(feed[n])' # {} \/ \E m \in (reconcile.upTo + 1)..Len(feed) : feed[m] = feed[n]
    BY <1>2, <1>4 DEF FilesAreCatalogued
  <2>1. ASSUME feed[n] \in reconcile.alive
        PROVE  Naming(feed[n])' # {}
    BY <1>1, <1>2, <2>1 DEF Naming
  <2>2. CASE delta.rebaseline \/ n > delta.upTo
    BY <1>3, <2>1, <2>2
  <2>3. CASE ~delta.rebaseline /\ n \in 1..delta.upTo
    <3>1. Naming(feed[n]) # {} \/ \E m \in (delta.upTo + 1)..Len(feed) : feed[m] = feed[n]
      BY <2>3 DEF CatIInv, FilesAreCatalogued
    <3>2. CASE Naming(feed[n]) # {}
      BY <1>1, <1>2, <3>2 DEF Naming
    <3>3. ASSUME NEW m \in (delta.upTo + 1)..Len(feed), feed[m] = feed[n]
          PROVE  Naming(feed[n])' # {} \/ \E k \in (reconcile.upTo + 1)..Len(feed) : feed[k] = feed[n]
      <4>1. CASE m <= reconcile.upTo
        <5>1. m \in 1..reconcile.upTo /\ m > delta.upTo
          BY <1>3, <4>1
        <5>2. feed[n] \in reconcile.alive
          BY <1>3, <3>3, <5>1
        <5>3. QED
          BY <2>1, <5>2
      <4>2. CASE m > reconcile.upTo
        <5>1. m \in (reconcile.upTo + 1)..Len(feed)
          BY <1>3, <4>2
        <5>2. QED
          BY <3>3, <5>1
      <4>3. QED
        BY <1>3, <4>1, <4>2
    <3>4. QED
      BY <3>1, <3>2, <3>3
  <2>4. QED
    BY <1>3, <2>2, <2>3
<1>9. PagesCover'
  BY <1>5 DEF PagesCover
<1>10. \A r \in DocReviewers : seen'[r] # NoView => seen'[r].doc \in DOMAIN docRows'
  BY <1>1, <1>2 DEF CatIInv
<1>11. delta'.upTo <= Len(feed')
  BY <1>2, <1>3, <1>4
<1>12. QED
  BY <1>1, <1>2, <1>4, <1>5, <1>6, <1>7, <1>8, <1>9, <1>10, <1>11 DEF CatIInv

LEMMA CatStays == CatIInv /\ [CatalogNext]_docVars => CatIInv'
<1> SUFFICES ASSUME CatIInv, [CatalogNext]_docVars
             PROVE  CatIInv'
  OBVIOUS
<1>1. CASE UNCHANGED docVars
  <2>1. UNCHANGED <<docRows, items, feed, delta, reconcile, uploads, seen, decisions, docFaults>>
    BY <1>1 DEF docVars
  <2>2. QED
    BY <2>1, CatQuiet DEF CatIInv
<1>2. CASE CatalogNext
  BY <1>2, UploadStarted, StreamPut, UploadEnds, UploadCompleted, ReviewerRead, ReviewersKeep, DocDated, DocsExpire,
     ReconcileStarts, Reconciled, ReconcileEnds, FileCame, FileGone DEF CatalogNext
<1>3. QED
  BY <1>1, <1>2

LEMMA CatIsSafe == CatIInv => CatalogInv
<1> SUFFICES ASSUME CatIInv
             PROVE  CatalogInv
  OBVIOUS
<1>1. Len(feed) \in Nat /\ DOMAIN feed = 1..Len(feed) /\ delta.upTo \in Nat /\ delta.upTo <= Len(feed) /\ feed \in Seq(Nat)
      /\ \A n \in DOMAIN feed : feed[n] \in DOMAIN items
  BY CatFacts DEF CatIInv
<1>2. PICK S : S = DOMAIN items
  OBVIOUS
<1>3. feed \in [1..Len(feed) -> S]
  BY <1>1, <1>2
<1>4. feed \in Seq(S)
  BY <1>1, <1>3
<1>5. delta.upTo \in 0..Len(feed)
  BY <1>1
<1>6. DocTypeOK
  BY <1>2, <1>4, <1>5 DEF CatIInv, DocTypeOK, RowsNameFiles
<1>7. QED
  BY <1>6 DEF CatIInv, CatalogInv

(***************************************************************************)
(* Requirement evaluation                                                  *)
(***************************************************************************)

\* A computed "not required" is for counsel, and a review or an override leaves a decision or a
\* question to counsel behind: what an expired override uncovers is watched as well.
Watched ==
  /\ result.outcome = "LIKELY_NOT_REQUIRED" => result.counsel
  /\ result.reviewed # "-" \/ overrides # <<>> => result.decided \/ result.counsel

ReqIInv == ReqTypeOK /\ Watched

\* What the sources leave of an outcome: "not required" only with counsel asked.
LEMMA BackedOutcome ==
  ASSUME NEW outcome \in RequirementOutcomes, NEW chosen, NEW cites
  PROVE  /\ Backed(outcome, chosen, cites).outcome \in RequirementOutcomes
         /\ Backed(outcome, chosen, cites).counsel \in BOOLEAN
         /\ Backed(outcome, chosen, cites).outcome = "LIKELY_NOT_REQUIRED" =>
              Backed(outcome, chosen, cites).counsel
BY DEF Backed, RequirementOutcomes, Confident

\* The rule of the rule set is in force, holds without facts, and says the rule set's outcome.
LEMMA LoadedOutcome ==
  ASSUME ruleSet.outcome \in Confident, NEW facts
  PROVE  LET effective == ResolveEffectiveRules(LoadRules, "j1", 1)
             matched == {r \in effective : EvaluateCondition(r.cond, facts) = "T"}
             unknown == {r \in effective : EvaluateCondition(r.cond, facts) = "U"}
         IN  RuleOutcome(effective, matched, unknown) = ruleSet.outcome
<1> DEFINE effective == ResolveEffectiveRules(LoadRules, "j1", 1)
           matched == {r \in effective : EvaluateCondition(r.cond, facts) = "T"}
           unknown == {r \in effective : EvaluateCondition(r.cond, facts) = "U"}
           said == {r.outcome : r \in Primary(matched)}
<1>1. PICK rule : /\ LoadRules = {rule} /\ rule.cond = [key |-> "all", over |-> {}] /\ rule.at = "any"
                  /\ rule.outcome = ruleSet.outcome /\ rule.priority = 100 /\ rule.from = 0 /\ rule.to = 9
  <2>1. PICK rule : rule =
      [cond |-> [key |-> "all", over |-> {}], outcome |-> ruleSet.outcome, at |-> "any",
       priority |-> 100, from |-> 0, to |-> 9, counsel |-> FALSE,
       cites |-> IF Reviewed(ruleSet.cites)
                 THEN {[fresh |-> source.age, level |-> "OFFICIAL_PRIMARY"]} ELSE {}]
    OBVIOUS
  <2>2. LoadRules = {rule}
    BY <2>1, Zenon DEF LoadRules
  <2>3. /\ rule.cond = [key |-> "all", over |-> {}] /\ rule.at = "any"
        /\ rule.outcome = ruleSet.outcome /\ rule.priority = 100 /\ rule.from = 0 /\ rule.to = 9
    BY <2>1
  <2>4. QED
    BY <2>2, <2>3
<1>2. effective = {rule}
  BY <1>1 DEF ResolveEffectiveRules
<1>3. EvaluateCondition(rule.cond, facts) = "T"
  BY <1>1 DEF EvaluateCondition
<1>4. matched = {rule} /\ unknown = {}
  BY <1>2, <1>3
<1>5. Primary({rule}) = {rule}
  BY <1>1 DEF Primary, Specificity
<1>6. said = {ruleSet.outcome}
  <2> HIDE DEF matched
  <2>1. Primary(matched) = {rule}
    BY <1>4, <1>5
  <2>2. QED
    BY <1>1, <2>1
<1>7. Cardinality(said) = 1
  BY <1>6, FS_Singleton
<1>8. (CHOOSE o \in said : TRUE) = ruleSet.outcome
  BY <1>6
<1>9. RuleOutcome(effective, matched, unknown) = Provisional(ruleSet.outcome, unknown)
  <2>1. ~(effective = {} \/ (matched = {} /\ unknown # {})) /\ matched # {}
    BY <1>2, <1>4
  <2>2. ~(Cardinality(said) > 1)
    BY <1>7
  <2> HIDE DEF effective, matched, unknown
  <2>3. QED
    BY <2>1, <2>2, <1>8 DEF RuleOutcome
<1>10. QED
  BY <1>4, <1>9 DEF Provisional

\* What the evaluation writes.
LEMMA EvaluatedResult ==
  ASSUME ruleSet.outcome \in Confident, NEW facts
  PROVE  LET r == EvaluateJurisdiction(LoadRules, facts, "j1", 1, TRUE)
         IN  /\ r.outcome \in RequirementOutcomes /\ r.counsel \in BOOLEAN
             /\ r.outcome = "LIKELY_NOT_REQUIRED" => r.counsel
<1> DEFINE effective == ResolveEffectiveRules(LoadRules, "j1", 1)
           matched == {r \in effective : EvaluateCondition(r.cond, facts) = "T"}
           unknown == {r \in effective : EvaluateCondition(r.cond, facts) = "U"}
           chosen == IF matched # {} THEN matched ELSE unknown
           cites == UNION {r.cites : r \in chosen}
<1>1. RuleOutcome(effective, matched, unknown) \in RequirementOutcomes
  BY LoadedOutcome DEF Confident, RequirementOutcomes
<1>2. EvaluateJurisdiction(LoadRules, facts, "j1", 1, TRUE) =
        Backed(RuleOutcome(effective, matched, unknown), chosen, cites)
  BY Zenon DEF EvaluateJurisdiction
<1> HIDE DEF effective, matched, unknown, chosen, cites
<1>3. QED
  BY <1>1, <1>2, BackedOutcome

LEMMA ReqStarts == ReqInit => ReqIInv
<1> SUFFICES ASSUME ReqInit
             PROVE  ReqIInv
  OBVIOUS
<1>1. /\ source.current = 0 /\ source \in [current : 0..MaxSnapshots, status : SourceStatuses, age : Ages]
      /\ evalJob \in [status : {"-", "PENDING", "RUNNING", "COMPLETED"},
                      read : AssessmentStatuses, reruns : 0..MaxReruns]
  BY ReqBounds DEF ReqInit, SourceStatuses, Ages, AssessmentStatuses
<1>2. /\ ruleSet.cites = 0
      /\ ruleSet \in [status : {"DRAFT", "ACTIVE"}, cites : 0..MaxSnapshots, outcome : Confident]
  BY ReqBounds DEF ReqInit
<1>3. snapshots = <<>> /\ snapshots \in Seq(SnapshotRows) /\ Len(snapshots) <= MaxSnapshots
  BY ReqBounds DEF ReqInit
<1>4. /\ overrides = <<>> /\ overrides \in Seq(OverrideRows) /\ assessment \in AssessmentStatuses
      /\ fetching \in {-1} \cup 0..MaxSnapshots
  BY DEF ReqInit, AssessmentStatuses
<1>5. result = NoResult /\ result.outcome = "-" /\ result.reviewed = "-"
  BY DEF ReqInit, NoResult
<1>6. QED
  BY <1>1, <1>2, <1>3, <1>4, <1>5 DEF ReqIInv, ReqTypeOK, Watched

\* A step of the sources: what they and the snapshots need to keep.
LEMMA SourcesKeep ==
  ASSUME ReqIInv, UNCHANGED <<ruleSet, reqEval>>,
         fetching' \in {-1} \cup 0..MaxSnapshots,
         source' \in [current : 0..MaxSnapshots, status : SourceStatuses, age : Ages],
         snapshots' \in Seq(SnapshotRows), Len(snapshots') <= MaxSnapshots,
         source'.current # 0 => Reviewed(source.current)',
         \A n \in 1..MaxSnapshots : Reviewed(n) => Reviewed(n)'
  PROVE  ReqIInv'
<1>1. ruleSet'.cites # 0 => Reviewed(ruleSet.cites)'
  BY DEF ReqIInv, ReqTypeOK
<1>2. QED
  BY <1>1 DEF ReqIInv, ReqTypeOK, Watched, reqEval

\* A new snapshot: appended for review, or none at all.
LEMMA SnapshotAdded ==
  ASSUME ReqIInv, NEW content \in 1..2, NEW current, AddSnapshot(content, current),
         fetching' \in {-1} \cup 0..MaxSnapshots, UNCHANGED <<ruleSet, reqEval>>
  PROVE  ReqIInv'
<1>1. /\ source \in [current : 0..MaxSnapshots, status : SourceStatuses, age : Ages]
      /\ snapshots \in Seq(SnapshotRows) /\ Len(snapshots) <= MaxSnapshots
      /\ source.current # 0 => Reviewed(source.current)
  BY DEF ReqIInv, ReqTypeOK
<1>2. /\ source' \in [current : 0..MaxSnapshots, status : SourceStatuses, age : Ages]
      /\ source'.current = source.current
  BY <1>1 DEF AddSnapshot, SourceStatuses, Ages
<1>3. CASE UNCHANGED snapshots
  <2>1. \A n : Reviewed(n) => Reviewed(n)'
    BY <1>3 DEF Reviewed
  <2>2. QED
    BY <1>1, <1>2, <1>3, <2>1, SourcesKeep
<1>4. CASE /\ Len(snapshots) < MaxSnapshots
           /\ snapshots' = Append(snapshots, [content |-> content, review |-> "PENDING_REVIEW"])
  <2>1. PICK row : row = [content |-> content, review |-> "PENDING_REVIEW"]
    OBVIOUS
  <2>2. row \in SnapshotRows
    BY <2>1 DEF SnapshotRows
  <2>3. snapshots' = Append(snapshots, row)
    BY <1>4, <2>1
  <2>4. /\ snapshots' \in Seq(SnapshotRows) /\ Len(snapshots') = Len(snapshots) + 1
        /\ \A n \in 1..Len(snapshots) : snapshots'[n] = snapshots[n]
    BY <1>1, <2>2, <2>3, AppendProperties
  <2>5. Len(snapshots) \in Nat /\ DOMAIN snapshots = 1..Len(snapshots) /\ DOMAIN snapshots' = 1..Len(snapshots')
    BY <1>1, <2>4, LenProperties
  <2>6. Len(snapshots') <= MaxSnapshots
    BY <1>4, <2>4, <2>5, ReqBounds
  <2>7. \A n : Reviewed(n) => Reviewed(n)'
    BY <2>4, <2>5 DEF Reviewed
  <2>8. QED
    BY <1>1, <1>2, <2>4, <2>6, <2>7, SourcesKeep
<1>5. QED
  BY <1>3, <1>4 DEF AddSnapshot

\* A review: what was approved stays approved or becomes superseded, the new current version too.
LEMMA SnapshotReviewed ==
  ASSUME ReqIInv, NEW n \in 1..MaxSnapshots, NEW approve \in BOOLEAN, ReviewSnapshot(n, approve)
  PROVE  ReqIInv'
<1>1. /\ source \in [current : 0..MaxSnapshots, status : SourceStatuses, age : Ages]
      /\ snapshots \in Seq(SnapshotRows) /\ Len(snapshots) <= MaxSnapshots
      /\ source.current # 0 => Reviewed(source.current)
      /\ fetching \in {-1} \cup 0..MaxSnapshots
  BY DEF ReqIInv, ReqTypeOK
<1>2. n \in DOMAIN snapshots /\ snapshots[n].review = "PENDING_REVIEW"
  BY DEF ReviewSnapshot, PendingOnly
<1>3. n # source.current
  BY <1>2, <1>1 DEF Reviewed
<1> DEFINE New(m) ==
       CASE m = n -> [snapshots[m] EXCEPT !.review = IF approve THEN "APPROVED" ELSE "REJECTED"]
         [] m # n /\ approve /\ m = source.current -> [snapshots[m] EXCEPT !.review = "SUPERSEDED"]
         [] OTHER -> snapshots[m]
<1>4. snapshots' = [m \in DOMAIN snapshots |-> New(m)]
  BY Zenon DEF ReviewSnapshot
<1>5. ASSUME NEW m \in DOMAIN snapshots
      PROVE  /\ New(m) \in SnapshotRows
             /\ m = n /\ approve => New(m).review = "APPROVED"
             /\ snapshots[m].review \in {"APPROVED", "SUPERSEDED"} =>
                  New(m).review \in {"APPROVED", "SUPERSEDED"}
  <2>1. snapshots[m] \in SnapshotRows
    BY <1>1, ElementOfSeq, LenProperties
  <2>2. CASE m = n
    BY <1>2, <2>1, <2>2 DEF SnapshotRows
  <2>3. CASE m # n /\ approve /\ m = source.current
    BY <2>1, <2>3 DEF SnapshotRows
  <2>4. CASE m # n /\ ~(m # n /\ approve /\ m = source.current)
    BY <2>1, <2>4
  <2>5. QED
    BY <2>2, <2>3, <2>4
<1> HIDE DEF New
<1>6. DOMAIN snapshots = 1..Len(snapshots) /\ Len(snapshots) \in Nat
  BY <1>1, LenProperties
<1>7. snapshots' \in [1..Len(snapshots) -> SnapshotRows] /\ DOMAIN snapshots' = DOMAIN snapshots
  BY <1>4, <1>5, <1>6
<1>8. snapshots' \in Seq(SnapshotRows)
  BY <1>6, <1>7, SeqDef
<1>9. Len(snapshots') = Len(snapshots)
  BY <1>6, <1>7, <1>8, LenProperties
<1>10. \A m : Reviewed(m) => Reviewed(m)'
  BY <1>4, <1>5, <1>7 DEF Reviewed
<1>11. approve => Reviewed(n)'
  BY <1>2, <1>4, <1>5, <1>7 DEF Reviewed
<1>12. /\ source' \in [current : 0..MaxSnapshots, status : SourceStatuses, age : Ages]
       /\ source'.current = IF approve THEN n ELSE source.current
  BY <1>1, ReqBounds DEF ReviewSnapshot, SourceStatuses, Ages
<1>13. source'.current # 0 => Reviewed(source.current)'
  BY <1>1, <1>10, <1>11, <1>12
<1>14. UNCHANGED <<fetching, ruleSet, reqEval>>
  BY DEF ReviewSnapshot
<1>15. QED
  BY <1>1, <1>8, <1>9, <1>10, <1>12, <1>13, <1>14, SourcesKeep

\* A rule cites an approved snapshot; activation only changes the rule set's status.
LEMMA RulesKeep ==
  ASSUME ReqIInv, UNCHANGED <<reqSrc, reqEval>>,
         ruleSet' \in [status : {"DRAFT", "ACTIVE"}, cites : 0..MaxSnapshots, outcome : Confident],
         ruleSet'.cites # 0 => Reviewed(ruleSet'.cites)
  PROVE  ReqIInv'
<1>1. \A n : Reviewed(n) <=> Reviewed(n)'
  BY DEF Reviewed, reqSrc
<1>2. (ruleSet.cites # 0 => Reviewed(ruleSet.cites))' /\ (source.current # 0 => Reviewed(source.current))'
  BY <1>1 DEF ReqIInv, ReqTypeOK, reqSrc
<1>3. QED
  BY <1>2 DEF ReqIInv, ReqTypeOK, Watched, reqEval, reqSrc

LEMMA RulesStep ==
  ASSUME ReqIInv, ActivateRuleSet \/ \E n \in 1..MaxSnapshots : CreateRequirementRule(n)
  PROVE  ReqIInv'
<1>1. ruleSet \in [status : {"DRAFT", "ACTIVE"}, cites : 0..MaxSnapshots, outcome : Confident]
  BY DEF ReqIInv, ReqTypeOK
<1>2. CASE ActivateRuleSet
  <2>1. /\ ruleSet' \in [status : {"DRAFT", "ACTIVE"}, cites : 0..MaxSnapshots, outcome : Confident]
        /\ ruleSet'.cites = ruleSet.cites
    BY <1>1, <1>2 DEF ActivateRuleSet
  <2>2. Reviewed(ruleSet.cites) /\ UNCHANGED <<reqSrc, reqEval>>
    BY <1>2 DEF ActivateRuleSet
  <2>3. QED
    BY <2>1, <2>2, RulesKeep
<1>3. ASSUME NEW n \in 1..MaxSnapshots, CreateRequirementRule(n)
      PROVE  ReqIInv'
  <2>1. /\ ruleSet' \in [status : {"DRAFT", "ACTIVE"}, cites : 0..MaxSnapshots, outcome : Confident]
        /\ ruleSet'.cites = n
    BY <1>1, <1>3, ReqBounds DEF CreateRequirementRule
  <2>2. Reviewed(n) /\ UNCHANGED <<reqSrc, reqEval>>
    BY <1>3 DEF CreateRequirementRule
  <2>3. QED
    BY <2>1, <2>2, RulesKeep
<1>4. QED
  BY <1>2, <1>3

\* A step of the assessment: what it, its result and its overrides need to keep.
LEMMA AssessmentKeeps ==
  ASSUME ReqIInv, UNCHANGED <<reqSrc, ruleSet>>,
         assessment' \in AssessmentStatuses, result' \in ResultRows \cup {NoResult},
         overrides' \in Seq(OverrideRows),
         evalJob' \in [status : {"-", "PENDING", "RUNNING", "COMPLETED"},
                       read : AssessmentStatuses, reruns : 0..MaxReruns],
         Watched'
  PROVE  ReqIInv'
<1>1. \A n : Reviewed(n) <=> Reviewed(n)'
  BY DEF Reviewed, reqSrc
<1>2. (ruleSet.cites # 0 => Reviewed(ruleSet.cites))' /\ (source.current # 0 => Reviewed(source.current))'
  BY <1>1 DEF ReqIInv, ReqTypeOK, reqSrc
<1>3. QED
  BY <1>2 DEF ReqIInv, ReqTypeOK, reqSrc

LEMMA Evaluated ==
  ASSUME ReqIInv, Evaluate
  PROVE  ReqIInv'
<1>1. /\ evalJob \in [status : {"-", "PENDING", "RUNNING", "COMPLETED"},
                      read : AssessmentStatuses, reruns : 0..MaxReruns]
      /\ assessment \in AssessmentStatuses /\ ruleSet.outcome \in Confident
  BY DEF ReqIInv, ReqTypeOK
<1>2. PICK r : /\ r = EvaluateJurisdiction(LoadRules, [f \in Facts |-> "U"], "j1", 1, TRUE)
               /\ result' = [outcome |-> r.outcome, counsel |-> r.counsel, reviewed |-> "-", decided |-> FALSE]
               /\ assessment' \in {assessment, "COUNSEL_REVIEW", "EVALUATED"}
  BY DEF Evaluate
<1>3. /\ r.outcome \in RequirementOutcomes /\ r.counsel \in BOOLEAN
      /\ r.outcome = "LIKELY_NOT_REQUIRED" => r.counsel
  BY <1>1, <1>2, EvaluatedResult
<1>4. /\ result' \in ResultRows /\ result'.outcome = r.outcome /\ result'.counsel = r.counsel
      /\ result'.reviewed = "-"
  BY <1>2, <1>3 DEF ResultRows, ReviewedOutcomes
<1>5. evalJob' \in [status : {"-", "PENDING", "RUNNING", "COMPLETED"},
                    read : AssessmentStatuses, reruns : 0..MaxReruns]
  <2>1. \/ evalJob' = [evalJob EXCEPT !.status = "COMPLETED"]
        \/ /\ evalJob.reruns < MaxReruns
           /\ evalJob' = [evalJob EXCEPT !.status = "PENDING", !.reruns = @ + 1]
    BY DEF Evaluate
  <2>2. MaxReruns \in Nat
    BY ReqBounds
  <2>3. CASE evalJob' = [evalJob EXCEPT !.status = "COMPLETED"]
    BY <1>1, <2>3
  <2>4. CASE /\ evalJob.reruns < MaxReruns
             /\ evalJob' = [evalJob EXCEPT !.status = "PENDING", !.reruns = @ + 1]
    <3>1. PICK k : k = evalJob.reruns + 1
      OBVIOUS
    <3>2. evalJob.reruns \in 0..MaxReruns
      BY <1>1
    <3>3. k \in 0..MaxReruns
      BY <2>2, <2>4, <3>1, <3>2
    <3>4. evalJob' = [evalJob EXCEPT !.status = "PENDING", !.reruns = k]
      BY <2>4, <3>1
    <3>5. QED
      BY <1>1, <3>3, <3>4
  <2>5. QED
    BY <2>1, <2>3, <2>4
<1>6. overrides' = <<>> /\ overrides' \in Seq(OverrideRows) /\ UNCHANGED <<reqSrc, ruleSet>>
  BY DEF Evaluate
<1>7. Watched'
  BY <1>3, <1>4, <1>6 DEF Watched
<1>8. assessment' \in AssessmentStatuses
  BY <1>1, <1>2 DEF AssessmentStatuses
<1>9. QED
  BY <1>4, <1>5, <1>6, <1>7, <1>8, AssessmentKeeps

LEMMA OverrideStep ==
  ASSUME ReqIInv, OverrideExpires \/ \E o \in Confident : \E a : OverrideResult(o, a)
  PROVE  ReqIInv'
<1>1. /\ overrides \in Seq(OverrideRows) /\ result \in ResultRows \cup {NoResult} /\ Watched
      /\ assessment \in AssessmentStatuses
      /\ evalJob \in [status : {"-", "PENDING", "RUNNING", "COMPLETED"},
                      read : AssessmentStatuses, reruns : 0..MaxReruns]
  BY DEF ReqIInv, ReqTypeOK
<1>2. CASE OverrideExpires
  <2>1. PICK i \in DOMAIN overrides : overrides' = [overrides EXCEPT ![i].live = FALSE]
    BY <1>2 DEF OverrideExpires
  <2>2. i \in 1..Len(overrides) /\ overrides[i] \in OverrideRows
    BY <1>1, <2>1, ElementOfSeq, LenProperties
  <2>3. PICK q : q = [overrides[i] EXCEPT !.live = FALSE]
    OBVIOUS
  <2>4. q \in OverrideRows
    BY <2>2, <2>3 DEF OverrideRows
  <2>5. overrides' = [overrides EXCEPT ![i] = q]
    BY <2>1, <2>3
  <2>6. overrides' \in Seq(OverrideRows)
    BY <1>1, <2>2, <2>4, <2>5, ExceptSeq
  <2>7. overrides # <<>>
    BY <2>1
  <2>8. UNCHANGED <<reqSrc, ruleSet, assessment, result, evalJob>>
    BY <1>2 DEF OverrideExpires
  <2>9. Watched'
    BY <1>1, <2>7, <2>8 DEF Watched
  <2>10. QED
    BY <1>1, <2>6, <2>8, <2>9, AssessmentKeeps
<1>3. ASSUME NEW o \in Confident, NEW a, OverrideResult(o, a)
      PROVE  ReqIInv'
  <2>1. PICK q : q = [outcome |-> o, live |-> TRUE]
    OBVIOUS
  <2>2. q \in OverrideRows
    BY <2>1 DEF OverrideRows
  <2>3. overrides' = Append(overrides, q)
    BY <1>3, <2>1 DEF OverrideResult
  <2>4. overrides' \in Seq(OverrideRows)
    BY <1>1, <2>2, <2>3, AppendProperties
  <2>5. result \in ResultRows
    BY <1>1, <1>3 DEF OverrideResult
  <2>6. result' \in ResultRows /\ result'.decided /\ result'.outcome = result.outcome /\ result'.counsel = result.counsel
    BY <1>3, <2>5 DEF OverrideResult, ResultRows, ReviewedOutcomes, Confident
  <2>7. Watched'
    BY <1>1, <2>6 DEF Watched
  <2>8. UNCHANGED <<reqSrc, ruleSet, assessment, evalJob>>
    BY <1>3 DEF OverrideResult
  <2>9. QED
    BY <1>1, <2>4, <2>6, <2>7, <2>8, AssessmentKeeps
<1>4. QED
  BY <1>2, <1>3

LEMMA ResultStep ==
  ASSUME ReqIInv, RequestCounselReview \/ \E o \in ReviewedOutcomes : \E by : ReviewResult(o, by)
  PROVE  ReqIInv'
<1>1. /\ overrides \in Seq(OverrideRows) /\ result \in ResultRows \cup {NoResult} /\ Watched
      /\ assessment \in AssessmentStatuses
      /\ evalJob \in [status : {"-", "PENDING", "RUNNING", "COMPLETED"},
                      read : AssessmentStatuses, reruns : 0..MaxReruns]
  BY DEF ReqIInv, ReqTypeOK
<1>2. CASE RequestCounselReview
  <2>1. result \in ResultRows
    BY <1>1, <1>2 DEF RequestCounselReview
  <2>2. result' \in ResultRows /\ result'.counsel
    BY <1>2, <2>1 DEF RequestCounselReview, CounselFlagged, ResultRows, ReviewedOutcomes
  <2>3. Watched'
    BY <2>2 DEF Watched
  <2>4. UNCHANGED <<reqSrc, ruleSet, overrides, evalJob>> /\ assessment' \in AssessmentStatuses
    BY <1>1, <1>2 DEF RequestCounselReview, AssessmentStatuses
  <2>5. QED
    BY <1>1, <2>2, <2>3, <2>4, AssessmentKeeps
<1>3. ASSUME NEW o \in ReviewedOutcomes, NEW by, ReviewResult(o, by)
      PROVE  ReqIInv'
  <2>1. result \in ResultRows
    BY <1>1, <1>3 DEF ReviewResult
  <2>2. result' \in ResultRows /\ result'.decided /\ result'.outcome = result.outcome /\ result'.counsel = result.counsel
    BY <1>3, <2>1 DEF ReviewResult, ResultRows
  <2>3. Watched'
    BY <1>1, <2>2 DEF Watched
  <2>4. UNCHANGED <<reqSrc, ruleSet, assessment, overrides, evalJob>>
    BY <1>3 DEF ReviewResult
  <2>5. QED
    BY <1>1, <2>2, <2>3, <2>4, AssessmentKeeps
<1>4. QED
  BY <1>2, <1>3

LEMMA JobStep ==
  ASSUME ReqIInv, CreateAssessment \/ EvaluateAssessment \/ EvaluateReads \/ ApproveAssessment
  PROVE  ReqIInv'
<1>1. /\ overrides \in Seq(OverrideRows) /\ result \in ResultRows \cup {NoResult} /\ Watched
      /\ assessment \in AssessmentStatuses
      /\ evalJob \in [status : {"-", "PENDING", "RUNNING", "COMPLETED"},
                      read : AssessmentStatuses, reruns : 0..MaxReruns]
  BY DEF ReqIInv, ReqTypeOK
<1>2. UNCHANGED <<reqSrc, ruleSet, result, overrides>>
  BY DEF CreateAssessment, EvaluateAssessment, EvaluateReads, ApproveAssessment
<1>3. assessment' \in AssessmentStatuses
  BY <1>1 DEF CreateAssessment, EvaluateAssessment, EvaluateReads, ApproveAssessment, AssessmentStatuses
<1>4. evalJob' \in [status : {"-", "PENDING", "RUNNING", "COMPLETED"},
                    read : AssessmentStatuses, reruns : 0..MaxReruns]
  BY <1>1 DEF CreateAssessment, EvaluateAssessment, EvaluateReads, ApproveAssessment
<1>5. Watched'
  BY <1>1, <1>2 DEF Watched
<1>6. QED
  BY <1>1, <1>2, <1>3, <1>4, <1>5, AssessmentKeeps

\* The source alone: its age, its status.
LEMMA SourceStep ==
  ASSUME ReqIInv, FetchReads \/ FreshnessReport \/ SourceAges
  PROVE  ReqIInv'
<1>1. /\ source \in [current : 0..MaxSnapshots, status : SourceStatuses, age : Ages]
      /\ snapshots \in Seq(SnapshotRows) /\ Len(snapshots) <= MaxSnapshots
      /\ source.current # 0 => Reviewed(source.current)
      /\ fetching \in {-1} \cup 0..MaxSnapshots
  BY DEF ReqIInv, ReqTypeOK
<1>2. UNCHANGED <<snapshots, ruleSet, reqEval>>
  BY DEF FetchReads, FreshnessReport, SourceAges
<1>3. /\ source' \in [current : 0..MaxSnapshots, status : SourceStatuses, age : Ages]
      /\ source'.current = source.current /\ fetching' \in {-1} \cup 0..MaxSnapshots
  BY <1>1 DEF FetchReads, FreshnessReport, SourceAges, SourceStatuses, Ages
<1>4. \A n : Reviewed(n) => Reviewed(n)'
  BY <1>2 DEF Reviewed
<1>5. QED
  BY <1>1, <1>2, <1>3, <1>4, SourcesKeep

LEMMA ReqStays == ReqIInv /\ [ReqNext]_reqVars => ReqIInv'
<1> SUFFICES ASSUME ReqIInv, [ReqNext]_reqVars
             PROVE  ReqIInv'
  OBVIOUS
<1>1. CASE UNCHANGED reqVars
  BY <1>1 DEF reqVars, ReqIInv, ReqTypeOK, Watched, Reviewed
<1>2. CASE UploadSnapshot \/ FetchPublicSnapshot
  <2>1. PICK current : \E content \in 1..2 : AddSnapshot(content, current)
    BY <1>2 DEF UploadSnapshot, FetchPublicSnapshot
  <2>2. fetching' \in {-1} \cup 0..MaxSnapshots /\ UNCHANGED <<ruleSet, reqEval>>
    BY <1>2 DEF UploadSnapshot, FetchPublicSnapshot, ReqIInv, ReqTypeOK
  <2>3. QED
    BY <2>1, <2>2, SnapshotAdded
<1>3. QED
  BY <1>1, <1>2, SnapshotReviewed, RulesStep, SourceStep, JobStep, Evaluated, ResultStep, OverrideStep
  DEF ReqNext

LEMMA ReqIsSafe == ReqIInv => RequirementsInv
<1> SUFFICES ASSUME ReqIInv, EffectiveOutcome = "LIKELY_NOT_REQUIRED",
                    ~(result.decided \/ result.counsel)
             PROVE  FALSE
  BY DEF ReqIInv, RequirementsInv, NotRequiredIsWatched
<1>1. overrides = <<>> /\ result.reviewed = "-" /\ result.outcome # "LIKELY_NOT_REQUIRED"
  BY DEF ReqIInv, Watched
<1>2. {i \in DOMAIN overrides : overrides[i].live} = {}
  BY <1>1
<1>3. EffectiveOutcome = result.outcome
  BY <1>1, <1>2 DEF EffectiveOutcome
<1>4. QED
  BY <1>1, <1>3

(***************************************************************************)
(* The evaluator: "not required" survives facts                            *)
(***************************************************************************)

\* Conditions over the profile's facts.
Conditions == [key : {"all", "any", "none"}, over : SUBSET Facts]

\* Kleene: what a condition says without a missing fact it says with it.
LEMMA ConditionIsKleene ==
  ASSUME NEW c \in Conditions, NEW f \in [Facts -> Truths], NEW g \in [Facts -> Truths],
         Completes(g, f), EvaluateCondition(c, f) # "U"
  PROVE  EvaluateCondition(c, g) = EvaluateCondition(c, f)
<1>1. c.over \subseteq Facts /\ c.key \in {"all", "any", "none"}
  BY DEF Conditions
<1>2. \A x \in c.over : f[x] \in Truths /\ g[x] \in Truths /\ (f[x] # "U" => g[x] = f[x])
  BY <1>1 DEF Completes
<1>3. CASE c.key = "all"
  BY <1>2, <1>3 DEF EvaluateCondition, Truths
<1>4. CASE c.key = "any"
  BY <1>2, <1>4 DEF EvaluateCondition, Truths
<1>5. CASE c.key = "none"
  BY <1>2, <1>5 DEF EvaluateCondition, Truths
<1>6. QED
  BY <1>1, <1>3, <1>4, <1>5

\* The evaluator says "not required" only where no rule in force waits for a fact.
LEMMA NotRequiredWaitsForNothing ==
  ASSUME NEW effective, NEW matched, NEW unknown, NEW chosen, NEW cites,
         Backed(RuleOutcome(effective, matched, unknown), chosen, cites).outcome = "LIKELY_NOT_REQUIRED"
  PROVE  unknown = {}
<1> DEFINE before == RuleOutcome(effective, matched, unknown)
<1>1. before = "LIKELY_NOT_REQUIRED"
  <2> HIDE DEF before
  <2>1. Backed(before, chosen, cites).outcome = "LIKELY_NOT_REQUIRED" => before = "LIKELY_NOT_REQUIRED"
    BY DEF Backed
  <2>2. QED
    BY <2>1 DEF before
<1>2. SUFFICES ASSUME unknown # {}
               PROVE  FALSE
  OBVIOUS
<1>3. \A o : Provisional(o, unknown) # "LIKELY_NOT_REQUIRED"
  BY <1>2 DEF Provisional
<1>4. QED
  BY <1>1, <1>2, <1>3 DEF RuleOutcome

\* Learning a missing fact turns no "not required" into anything else, whatever the rules: with no
\* rule in force unknown, the same rules match.
LEMMA FactsKeepNotRequired ==
  ASSUME NEW rules, \A r \in rules : r.cond \in Conditions, NEW f \in [Facts -> Truths]
  PROVE  SurvivesFacts(rules, f)
<1> DEFINE effective == ResolveEffectiveRules(rules, "j1", 1)
           matched(h) == {r \in effective : EvaluateCondition(r.cond, h) = "T"}
           unknown(h) == {r \in effective : EvaluateCondition(r.cond, h) = "U"}
           chosen(h) == IF matched(h) # {} THEN matched(h) ELSE unknown(h)
           cites(h) == UNION {r.cites : r \in chosen(h)}
<1>1. ASSUME NEW h
      PROVE  EvaluateJurisdiction(rules, h, "j1", 1, TRUE) =
               Backed(RuleOutcome(effective, matched(h), unknown(h)), chosen(h), cites(h))
  BY Zenon DEF EvaluateJurisdiction
<1>2. SUFFICES ASSUME EvaluateJurisdiction(rules, f, "j1", 1, TRUE).outcome = "LIKELY_NOT_REQUIRED",
                      NEW g \in [Facts -> Truths], Completes(g, f)
               PROVE  EvaluateJurisdiction(rules, g, "j1", 1, TRUE) =
                        EvaluateJurisdiction(rules, f, "j1", 1, TRUE)
  BY DEF SurvivesFacts
<1>3. unknown(f) = {}
  <2>1. Backed(RuleOutcome(effective, matched(f), unknown(f)), chosen(f), cites(f)).outcome =
          "LIKELY_NOT_REQUIRED"
    BY <1>1, <1>2, Zenon
  <2> HIDE DEF effective, matched, unknown, chosen, cites
  <2>2. QED
    BY <2>1, NotRequiredWaitsForNothing
<1>4. effective \subseteq rules
  BY DEF ResolveEffectiveRules
<1>5. \A r \in effective : EvaluateCondition(r.cond, g) = EvaluateCondition(r.cond, f)
  <2> HIDE DEF effective
  <2>1. \A r \in effective : r.cond \in Conditions /\ EvaluateCondition(r.cond, f) # "U"
    BY <1>3, <1>4
  <2>2. QED
    BY <1>2, <2>1, ConditionIsKleene
<1>6. matched(g) = matched(f) /\ unknown(g) = unknown(f)
  <2> HIDE DEF effective
  <2>1. QED
    BY <1>5
<1>7. chosen(g) = chosen(f)
  <2> HIDE DEF effective, matched, unknown
  <2>1. QED
    BY <1>6
<1>8. cites(g) = cites(f)
  <2> HIDE DEF chosen
  <2>1. QED
    BY <1>7
<1> HIDE DEF effective, matched, unknown, chosen, cites
<1>9. QED
  BY <1>1, <1>6, <1>7, <1>8

(***************************************************************************)
(* Induction below a bound                                                 *)
(***************************************************************************)

\* Every nonempty set of naturals has a least element.
LEMMA LeastNatural ==
  ASSUME NEW T \in SUBSET Nat, T # {}
  PROVE  \E x \in T : \A y \in T : x <= y
<1> DEFINE R == {ss \in Nat \X Nat : ss[1] < ss[2]}
<1>1. IsWellFoundedOn(R, Nat)
  BY NatLessThanWellFounded, Zenon DEF OpToRel
<1> HIDE DEF R
<1>2. PICK x \in T : \A y \in T : ~(<<y, x>> \in R)
  BY <1>1, WFMin
<1>3. ASSUME NEW y \in T
      PROVE  x <= y
  <2>1. x \in Nat /\ y \in Nat
    OBVIOUS
  <2>2. <<y, x>> \in Nat \X Nat
    BY <2>1
  <2>3. <<y, x>> \notin R
    BY <1>2
  <2>4. ~(y < x)
    BY <2>2, <2>3, <2>1 DEF R
  <2>5. QED
    BY <2>1, <2>4
<1>4. QED
  BY <1>3

\* What holds of 0 and of the successor of each number below n holds up to n.
LEMMA UpToBound ==
  ASSUME NEW n \in Nat, NEW S, 0 \in S, \A k \in 0..(n - 1) : k \in S => k + 1 \in S
  PROVE  0..n \subseteq S
<1> SUFFICES ASSUME (0..n) \ S # {}
             PROVE  FALSE
  OBVIOUS
<1>1. (0..n) \ S \in SUBSET Nat
  OBVIOUS
<1>2. PICK k \in (0..n) \ S : \A j \in (0..n) \ S : k <= j
  BY <1>1, LeastNatural
<1>3. k - 1 \in 0..(n - 1) /\ k - 1 \in 0..n
  BY <1>2
<1>4. k - 1 \in S
  BY <1>2, <1>3
<1>5. (k - 1) + 1 \in S
  BY <1>3, <1>4
<1>6. QED
  BY <1>2, <1>5

(***************************************************************************)
(* The licence inventory and the tracker import                            *)
(***************************************************************************)

PlanRows == [number : Numbers \cup {"-"}, st : NewStatuses, exp : 0..MaxExpiry,
             action : ImportRowActions, target : 0..MaxLicences]
PlanRecords == [st : {"PLANNED", "COMPLETED"}, rows : Seq(PlanRows)]
IntentRows == [lic : 1..MaxLicences, was : LicenseStatuses, to : NewStatuses]

\* An imported licence keeps the key of the planned row it came from.
InsertedBy(row) ==
  \/ row.from = <<0, 0>>
  \/ \E p \in DOMAIN plans : \E r \in DOMAIN plans[p].rows :
       row.from = <<p, r>> /\ row.key = plans[p].rows[r].number

\* What a table of licences, committed or in the middle of an import, always satisfies.
TableOK(L) ==
  /\ L \in Seq(LicenceRows) /\ Len(L) <= MaxLicences
  /\ IndexAllows(L)
  /\ \A l \in DOMAIN L : L[l].st \in L[l].said /\ InsertedBy(L[l])
  /\ \A l, m \in DOMAIN L : L[l].key = L[m].key => l = m

\* Plans are short, and an update names a licence that exists.
PlansOK ==
  /\ plans \in Seq(PlanRecords) /\ Len(plans) <= MaxPlans
  /\ \A p \in DOMAIN plans :
       /\ Len(plans[p].rows) <= MaxSheetRows
       /\ \A r \in DOMAIN plans[p].rows :
            plans[p].rows[r].action = "UPDATE" => plans[p].rows[r].target \in DOMAIN licences

LicIInv ==
  /\ TableOK(licences) /\ PlansOK
  /\ licEdits \in 0..MaxLicEdits
  /\ applying \in [Importers -> 0..Len(plans)]
  /\ intent \in [Clerks -> IntentRows \cup {NoIntent}]
  /\ \A c \in Clerks : intent[c] # NoIntent => intent[c].lic \in DOMAIN licences

LEMMA LicStarts == LicInit => LicIInv
<1> SUFFICES ASSUME LicInit
             PROVE  LicIInv
  OBVIOUS
<1>1. licences = <<>> /\ plans = <<>> /\ licEdits = 0
  BY DEF LicInit
<1>2. TableOK(licences)
  BY <1>1, LicBounds DEF TableOK, IndexAllows
<1>3. PlansOK
  BY <1>1, LicBounds DEF PlansOK
<1>4. licEdits \in 0..MaxLicEdits /\ Len(plans) = 0
  BY <1>1, LicBounds
<1>5. /\ applying \in [Importers -> 0..Len(plans)] /\ intent \in [Clerks -> IntentRows \cup {NoIntent}]
      /\ \A c \in Clerks : intent[c] = NoIntent
  BY <1>4 DEF LicInit
<1>6. QED
  BY <1>2, <1>3, <1>4, <1>5 DEF LicIInv

\* A licence more: its key and the index allow it.
LEMMA TableGrows ==
  ASSUME NEW L, TableOK(L), NEW row \in LicenceRows, row.st \in row.said, InsertedBy(row),
         Len(L) < MaxLicences, ~KeyTaken(L, row.key), IndexAllows(Append(L, row))
  PROVE  TableOK(Append(L, row)) /\ Len(Append(L, row)) = Len(L) + 1
<1> DEFINE M == Append(L, row)
<1>1. L \in Seq(LicenceRows) /\ Len(L) \in Nat /\ DOMAIN L = 1..Len(L)
  BY LenProperties DEF TableOK
<1>2. /\ M \in Seq(LicenceRows) /\ Len(M) = Len(L) + 1 /\ M[Len(L) + 1] = row
      /\ \A l \in 1..Len(L) : M[l] = L[l]
  BY <1>1, AppendProperties
<1>3. DOMAIN M = 1..(Len(L) + 1)
  BY <1>2, LenProperties
<1> HIDE DEF M
<1>4. MaxLicences \in Nat
  BY LicBounds
<1>5. Len(M) <= MaxLicences
  BY <1>1, <1>2, <1>4
<1>6. \A l \in DOMAIN M : M[l].st \in M[l].said /\ InsertedBy(M[l])
  BY <1>1, <1>2, <1>3 DEF TableOK
<1>7. \A l \in DOMAIN L : L[l].key # row.key
  BY DEF KeyTaken
<1>8. \A l, m \in DOMAIN M : M[l].key = M[m].key => l = m
  BY <1>1, <1>2, <1>3, <1>7 DEF TableOK
<1>9. QED
  BY <1>2, <1>5, <1>6, <1>8 DEF TableOK, M

\* A licence changed: it keeps its key and its origin, and the index allows it.
LEMMA TableChanges ==
  ASSUME NEW L, TableOK(L), NEW l \in DOMAIN L, NEW row \in LicenceRows, row.st \in row.said,
         row.key = L[l].key, row.from = L[l].from, IndexAllows([L EXCEPT ![l] = row])
  PROVE  TableOK([L EXCEPT ![l] = row]) /\ Len([L EXCEPT ![l] = row]) = Len(L)
<1> DEFINE M == [L EXCEPT ![l] = row]
<1>1. L \in Seq(LicenceRows) /\ Len(L) \in Nat /\ DOMAIN L = 1..Len(L)
  BY LenProperties DEF TableOK
<1>2. M \in Seq(LicenceRows) /\ Len(M) = Len(L) /\ DOMAIN M = DOMAIN L
  BY <1>1, ExceptSeq
<1>3. M[l] = row /\ \A m \in DOMAIN L \ {l} : M[m] = L[m]
  BY <1>1
<1> HIDE DEF M
<1>4. \A m \in DOMAIN M : M[m].key = L[m].key
  BY <1>2, <1>3
<1>5. InsertedBy(row)
  BY DEF TableOK, InsertedBy
<1>6. \A m \in DOMAIN M : M[m].st \in M[m].said /\ InsertedBy(M[m])
  BY <1>2, <1>3, <1>5 DEF TableOK
<1>7. \A k, m \in DOMAIN M : M[k].key = M[m].key => k = m
  BY <1>2, <1>4 DEF TableOK
<1>8. QED
  BY <1>2, <1>6, <1>7 DEF TableOK, M

\* The index does not mind a licence that stays as it is in status and authority.
LEMMA SameAuthority ==
  ASSUME NEW L, TableOK(L), NEW l \in DOMAIN L, NEW row, row.st = L[l].st, row.extra = L[l].extra
  PROVE  IndexAllows([L EXCEPT ![l] = row])
<1> DEFINE M == [L EXCEPT ![l] = row]
<1>1. DOMAIN M = DOMAIN L /\ M[l] = row /\ \A m \in DOMAIN L \ {l} : M[m] = L[m]
  BY LenProperties DEF TableOK
<1> HIDE DEF M
<1>2. \A m \in DOMAIN M : Occupies(M[m]) => Occupies(L[m])
  BY <1>1 DEF Occupies
<1>3. IndexAllows(M)
  BY <1>1, <1>2 DEF IndexAllows, TableOK
<1>4. QED
  BY <1>3 DEF M

\* What a row of a plan does to the table in the middle of an import.
LEMMA RowInserted ==
  ASSUME LicIInv, NEW p \in DOMAIN plans, NEW r \in DOMAIN plans[p].rows, NEW L, TableOK(L)
  PROVE  TableOK(InsertRow(L, plans[p].rows[r], <<p, r>>)) /\ Len(L) <= Len(InsertRow(L, plans[p].rows[r], <<p, r>>))
<1>1. PICK row : row = plans[p].rows[r]
  OBVIOUS
<1>2. plans \in Seq(PlanRecords) /\ Len(plans) <= MaxPlans /\ Len(plans[p].rows) <= MaxSheetRows
  BY DEF LicIInv, PlansOK
<1>3. plans[p] \in PlanRecords /\ p \in 1..Len(plans) /\ Len(plans) \in Nat
  BY <1>2, ElementOfSeq, LenProperties
<1>4. plans[p].rows \in Seq(PlanRows)
  BY <1>3 DEF PlanRecords
<1>5. row \in PlanRows /\ r \in 1..Len(plans[p].rows) /\ Len(plans[p].rows) \in Nat
  BY <1>1, <1>4, ElementOfSeq, LenProperties
<1>6. <<p, r>> \in (0..MaxPlans) \X (0..MaxSheetRows)
  BY <1>2, <1>3, <1>5, LicBounds
<1>7. PICK new : new = NewLicence(row.number, row.st, row.exp, "TRACKER_IMPORT", FALSE, <<p, r>>)
  OBVIOUS
<1>8. /\ new \in LicenceRows /\ new.st \in new.said /\ new.key = row.number /\ new.from = <<p, r>>
  <2>1. row.number \in Numbers \cup {"-"} /\ row.st \in LicenseStatuses /\ row.exp \in 0..MaxExpiry
    BY <1>5, StatusNames DEF PlanRows
  <2>2. QED
    BY <1>6, <1>7, <2>1 DEF NewLicence, LicenceRows, Confidences
<1>9. InsertedBy(new)
  BY <1>1, <1>8 DEF InsertedBy
<1>10. CASE Creatable(L, new) /\ IndexAllows(Append(L, new))
  <2>1. InsertRow(L, row, <<p, r>>) = Append(L, new)
    BY <1>7, <1>10 DEF InsertRow
  <2>2. Len(L) \in Nat
    BY LenProperties DEF TableOK
  <2>3. TableOK(Append(L, new)) /\ Len(Append(L, new)) = Len(L) + 1
    BY <1>8, <1>9, <1>10, TableGrows DEF Creatable
  <2>4. PICK M : M = InsertRow(L, plans[p].rows[r], <<p, r>>)
    OBVIOUS
  <2>5. TableOK(M) /\ Len(M) = Len(L) + 1
    BY <1>1, <2>1, <2>3, <2>4
  <2>6. QED
    BY <2>2, <2>4, <2>5
<1>11. CASE ~(Creatable(L, new) /\ IndexAllows(Append(L, new)))
  <2>1. InsertRow(L, row, <<p, r>>) = L
    BY <1>7, <1>11 DEF InsertRow
  <2>2. Len(L) \in Nat
    BY LenProperties DEF TableOK
  <2>3. QED
    BY <1>1, <2>1, <2>2
<1>12. QED
  BY <1>10, <1>11

LEMMA RowUpdated ==
  ASSUME NEW L, TableOK(L), NEW row \in PlanRows, row.target \in DOMAIN L
  PROVE  TableOK(UpdateRow(L, row)) /\ Len(L) <= Len(UpdateRow(L, row))
<1>1. PICK t : t = row.target
  OBVIOUS
<1>2. L \in Seq(LicenceRows) /\ t \in DOMAIN L /\ L[t] \in LicenceRows /\ Len(L) \in Nat /\ L[t].st \in L[t].said
  BY <1>1, ElementOfSeq, LenProperties DEF TableOK
<1>3. row.number \in Numbers \cup {"-"} /\ row.st \in LicenseStatuses /\ row.exp \in 0..MaxExpiry
  BY StatusNames DEF PlanRows
<1>4. PICK u : u = UpdatedLicence(L[t], row.number, row.exp, "TRACKER_IMPORT", L[t].st)
  OBVIOUS
<1>5. /\ u \in LicenceRows /\ u.st = L[t].st /\ u.said = L[t].said /\ u.key = L[t].key
      /\ u.from = L[t].from /\ u.extra = L[t].extra /\ u.lost = L[t].lost
  BY <1>2, <1>3, <1>4 DEF UpdatedLicence, LicenceRows, Confidences
<1>6. PICK v : v = [u EXCEPT !.lost = L[t].lost \/ (L[t].conf = "VERIFIED_DOCUMENT" /\ row.exp \notin {0, L[t].exp})]
  OBVIOUS
<1>7. /\ v \in LicenceRows /\ v.st = L[t].st /\ v.said = L[t].said /\ v.key = L[t].key
      /\ v.from = L[t].from /\ v.extra = L[t].extra
  BY <1>5, <1>6 DEF LicenceRows
<1>8. PICK w : w = [v EXCEPT !.st = row.st, !.said = @ \cup {row.st}]
  OBVIOUS
<1>9. /\ w \in LicenceRows /\ w.st \in w.said /\ w.key = L[t].key /\ w.from = L[t].from
  BY <1>3, <1>7, <1>8 DEF LicenceRows
<1>10. PICK set : set = [L EXCEPT ![t] = v]
  OBVIOUS
<1>12. PICK moved : moved = [L EXCEPT ![t] = w]
  OBVIOUS
<1>13. moved = [set EXCEPT ![t].st = row.st, ![t].said = @ \cup {row.st}]
  BY <1>2, <1>8, <1>10, <1>12
<1>14. UpdateRow(L, row) = IF row.st = L[t].st THEN set
                           ELSE IF MayBecome(set, t, row.st) /\ IndexAllows(moved) THEN moved ELSE L
  BY <1>1, <1>4, <1>6, <1>10, <1>13 DEF UpdateRow
<1>15. TableOK(set) /\ Len(set) = Len(L)
  <2>1. IndexAllows(set)
    BY <1>2, <1>7, <1>10, SameAuthority
  <2>2. v.st \in v.said
    BY <1>2, <1>7
  <2>3. QED
    BY <1>2, <1>7, <1>10, <2>1, <2>2, TableChanges
<1>16. IndexAllows(moved) => TableOK(moved) /\ Len(moved) = Len(L)
  BY <1>2, <1>9, <1>12, TableChanges
<1>17. QED
  BY <1>2, <1>14, <1>15, <1>16

LEMMA RowApplied ==
  ASSUME LicIInv, NEW p \in DOMAIN plans, NEW r \in DOMAIN plans[p].rows,
         NEW L, TableOK(L), Len(licences) <= Len(L)
  PROVE  TableOK(ApplyRow(L, r, p)) /\ Len(licences) <= Len(ApplyRow(L, r, p))
<1>1. PICK row : row = plans[p].rows[r]
  OBVIOUS
<1>2. plans \in Seq(PlanRecords)
  BY DEF LicIInv, PlansOK
<1>3. plans[p] \in PlanRecords
  BY <1>2, ElementOfSeq, LenProperties
<1>4. row \in PlanRows
  BY <1>1, <1>3, ElementOfSeq, LenProperties DEF PlanRecords
<1>5. Len(L) \in Nat /\ Len(licences) \in Nat /\ DOMAIN L = 1..Len(L) /\ DOMAIN licences = 1..Len(licences)
  BY LenProperties DEF TableOK, LicIInv
<1>6. CASE row.action = "INSERT"
  <2>1. ApplyRow(L, r, p) = InsertRow(L, plans[p].rows[r], <<p, r>>)
    BY <1>1, <1>6 DEF ApplyRow
  <2>2. PICK M : M = ApplyRow(L, r, p)
    OBVIOUS
  <2>3. TableOK(M) /\ Len(L) <= Len(M)
    BY <2>1, <2>2, RowInserted
  <2>4. Len(M) \in Nat
    BY <2>3, LenProperties DEF TableOK
  <2>5. QED
    BY <1>5, <2>2, <2>3, <2>4
<1>7. CASE row.action = "UPDATE"
  <2>1. ApplyRow(L, r, p) = UpdateRow(L, row)
    BY <1>1, <1>7 DEF ApplyRow
  <2>2. row.target \in DOMAIN licences
    BY <1>1, <1>7 DEF LicIInv, PlansOK
  <2>3. row.target \in DOMAIN L
    BY <1>5, <2>2
  <2>4. PICK M : M = ApplyRow(L, r, p)
    OBVIOUS
  <2>5. TableOK(M) /\ Len(L) <= Len(M)
    BY <1>4, <2>1, <2>3, <2>4, RowUpdated
  <2>6. Len(M) \in Nat
    BY <2>5, LenProperties DEF TableOK
  <2>7. QED
    BY <1>5, <2>4, <2>5, <2>6
<1>8. CASE row.action # "INSERT" /\ row.action # "UPDATE"
  BY <1>1, <1>8 DEF ApplyRow
<1>9. QED
  BY <1>6, <1>7, <1>8

\* The table that ApplyRows ends with exists: one table after each row of the plan.
LEMMA TableAfterEachRow ==
  ASSUME NEW p, Len(plans[p].rows) \in Nat
  PROVE  \E T : T = [r \in 0..Len(plans[p].rows) |-> IF r = 0 THEN licences ELSE ApplyRow(T[r - 1], r, p)]
<1>1. PICK n \in Nat : n = Len(plans[p].rows)
  OBVIOUS
<1> DEFINE Reaches(k, T) == T = [r \in 0..k |-> IF r = 0 THEN licences ELSE ApplyRow(T[r - 1], r, p)]
           Reached == {k \in 0..n : \E T : Reaches(k, T)}
<1>2. 0 \in Reached
  <2>1. PICK T : T = [r \in 0..0 |-> licences]
    OBVIOUS
  <2>2. Reaches(0, T)
    BY <2>1
  <2>3. QED
    BY <2>2
<1>3. ASSUME NEW k \in 0..(n - 1), k \in Reached
      PROVE  k + 1 \in Reached
  <2>1. PICK T : Reaches(k, T)
    BY <1>3
  <2>2. PICK U : U = [r \in 0..(k + 1) |-> IF r <= k THEN T[r] ELSE ApplyRow(T[k], k + 1, p)]
    OBVIOUS
  <2>3. ASSUME NEW r \in 0..(k + 1)
        PROVE  U[r] = IF r = 0 THEN licences ELSE ApplyRow(U[r - 1], r, p)
    <3>1. CASE r = 0
      BY <2>1, <2>2, <3>1
    <3>2. CASE r # 0 /\ r <= k
      <4>1. U[r] = T[r] /\ U[r - 1] = T[r - 1] /\ r \in 0..k
        BY <2>2, <3>2
      <4>2. T[r] = ApplyRow(T[r - 1], r, p)
        BY <2>1, <3>2, <4>1
      <4>3. QED
        BY <3>2, <4>1, <4>2
    <3>3. CASE r = k + 1
      <4>1. U[r] = ApplyRow(T[k], k + 1, p) /\ U[r - 1] = T[k] /\ r # 0
        BY <2>2, <3>3
      <4>2. QED
        BY <3>3, <4>1
    <3>4. QED
      BY <3>1, <3>2, <3>3
  <2>4. Reaches(k + 1, U)
    <3>1. U = [r \in 0..(k + 1) |-> U[r]]
      BY <2>2
    <3>2. QED
      BY <2>3, <3>1
  <2>5. k + 1 \in 0..n
    BY <1>3
  <2>6. QED
    BY <2>4, <2>5
<1> HIDE DEF Reached
<1>4. 0..n \subseteq Reached
  BY <1>2, <1>3, UpToBound
<1>5. n \in Reached
  BY <1>4
<1>6. QED
  BY <1>1, <1>5 DEF Reached

\* However many rows a plan has, the table stays in order and loses no licence.
LEMMA RowsApplied ==
  ASSUME LicIInv, NEW p \in DOMAIN plans
  PROVE  TableOK(ApplyRows(p)) /\ Len(licences) <= Len(ApplyRows(p))
<1>1. plans[p] \in PlanRecords
  BY ElementOfSeq, LenProperties DEF LicIInv, PlansOK
<1>2. plans[p].rows \in Seq(PlanRows)
  BY <1>1 DEF PlanRecords
<1>3. PICK n \in Nat : n = Len(plans[p].rows) /\ DOMAIN plans[p].rows = 1..n
  BY <1>2, LenProperties
<1> DEFINE After(T) == [r \in 0..Len(plans[p].rows) |-> IF r = 0 THEN licences ELSE ApplyRow(T[r - 1], r, p)]
<1>4. PICK T : T = CHOOSE f : f = After(f)
  OBVIOUS
<1>5. T = After(T)
  <2>1. \E f : f = After(f)
    BY <1>3, TableAfterEachRow
  <2> HIDE DEF After
  <2>2. QED
    BY <1>4, <2>1
<1>6. ApplyRows(p) = T[n]
  BY <1>3, <1>4 DEF ApplyRows
<1>7. /\ T[0] = licences
      /\ \A r \in 1..n : T[r] = ApplyRow(T[r - 1], r, p)
  BY <1>3, <1>5
<1> DEFINE InOrder == {k \in 0..n : TableOK(T[k]) /\ Len(licences) <= Len(T[k])}
<1>8. 0 \in InOrder
  <2>1. TableOK(licences) /\ Len(licences) \in Nat
    BY LenProperties DEF LicIInv, TableOK
  <2>2. QED
    BY <1>7, <2>1
<1>9. ASSUME NEW k \in 0..(n - 1), k \in InOrder
      PROVE  k + 1 \in InOrder
  <2>1. k + 1 \in 1..n /\ (k + 1) - 1 = k /\ k + 1 \in 0..n
    OBVIOUS
  <2>2. T[k + 1] = ApplyRow(T[k], k + 1, p)
    BY <1>7, <2>1
  <2>3. TableOK(T[k]) /\ Len(licences) <= Len(T[k]) /\ k + 1 \in DOMAIN plans[p].rows
    BY <1>3, <1>9, <2>1
  <2>4. TableOK(T[k + 1]) /\ Len(licences) <= Len(T[k + 1])
    BY <2>2, <2>3, RowApplied
  <2>5. QED
    BY <2>1, <2>4
<1> HIDE DEF InOrder
<1>10. 0..n \subseteq InOrder
  BY <1>8, <1>9, UpToBound
<1>11. QED
  BY <1>6, <1>10 DEF InOrder

\* The rows of a plan never change, so an imported licence keeps its origin.
LEMMA OriginsKeep ==
  ASSUME \A p \in DOMAIN plans : p \in DOMAIN plans' /\ plans'[p].rows = plans[p].rows,
         NEW L, TableOK(L)
  PROVE  TableOK(L)'
<1>1. \A row : InsertedBy(row) => InsertedBy(row)'
  BY DEF InsertedBy
<1>2. QED
  BY <1>1 DEF TableOK, IndexAllows, Occupies

\* A step that leaves the plans alone and no licence behind.
LEMMA LicencesKeep ==
  ASSUME LicIInv, UNCHANGED <<plans, applying>>, NEW L, L = licences', TableOK(L), Len(licences) <= Len(L),
         licEdits' \in 0..MaxLicEdits, intent' \in [Clerks -> IntentRows \cup {NoIntent}],
         \A c \in Clerks : intent'[c] # NoIntent => intent'[c].lic \in DOMAIN L
  PROVE  LicIInv'
<1>1. TableOK(L)'
  BY OriginsKeep
<1>2. TableOK(licences)'
  BY <1>1 DEF TableOK, IndexAllows, InsertedBy
<1>3. DOMAIN licences \subseteq DOMAIN L
  <2>1. /\ DOMAIN licences = 1..Len(licences) /\ DOMAIN L = 1..Len(L)
        /\ Len(licences) \in Nat /\ Len(L) \in Nat
    BY LenProperties DEF LicIInv, TableOK
  <2>2. QED
    BY <2>1
<1>4. PlansOK'
  BY <1>3 DEF LicIInv, PlansOK
<1>5. QED
  BY <1>2, <1>4 DEF LicIInv

LEMMA EditCounted ==
  ASSUME LicIInv, LicEdit
  PROVE  licEdits' \in 0..MaxLicEdits
<1>1. MaxLicEdits \in Nat
  BY LicBounds
<1>2. QED
  BY <1>1 DEF LicIInv, LicEdit

LEMMA LicenceCreated ==
  ASSUME LicIInv, NEW number \in Numbers \cup {"-"}, NEW s \in NewStatuses, NEW extra \in BOOLEAN,
         CreateLicense(number, s, extra)
  PROVE  LicIInv'
<1>1. PICK row : row = NewLicence(number, s, 0, "MANUAL_ENTRY", extra, <<0, 0>>)
  OBVIOUS
<1>2. MaxExpiry \in Nat /\ MaxPlans \in Nat /\ MaxSheetRows \in Nat
  BY LicBounds
<1>3. <<0, 0>> \in (0..MaxPlans) \X (0..MaxSheetRows) /\ 0 \in 0..MaxExpiry /\ s \in LicenseStatuses
  BY <1>2, StatusNames
<1>4. row \in LicenceRows /\ row.st \in row.said /\ row.from = <<0, 0>>
  BY <1>1, <1>3 DEF NewLicence, LicenceRows, Confidences
<1>5. /\ LicEdit /\ Creatable(licences, row) /\ licences' = Append(licences, row) /\ IndexAllows(licences')
      /\ UNCHANGED <<plans, applying, intent>>
  BY <1>1 DEF CreateLicense
<1>6. PICK K : K = licences
  OBVIOUS
<1>7. PICK L : L = licences'
  OBVIOUS
<1>8. L = Append(K, row) /\ TableOK(K)
  BY <1>5, <1>6, <1>7 DEF LicIInv
<1>9. InsertedBy(row)
  BY <1>4 DEF InsertedBy
<1>10. IndexAllows(L)
  BY <1>5, <1>7 DEF IndexAllows
<1>11. TableOK(L) /\ Len(L) = Len(K) + 1
  BY <1>4, <1>5, <1>6, <1>8, <1>9, <1>10, TableGrows DEF Creatable
<1>12. /\ Len(K) \in Nat /\ DOMAIN K = 1..Len(K) /\ DOMAIN L = 1..Len(L)
  BY <1>8, <1>11, LenProperties DEF TableOK
<1>13. Len(licences) <= Len(L) /\ DOMAIN licences \subseteq DOMAIN L
  BY <1>6, <1>11, <1>12
<1>14. /\ intent' \in [Clerks -> IntentRows \cup {NoIntent}]
       /\ \A c \in Clerks : intent'[c] # NoIntent => intent'[c].lic \in DOMAIN L
  BY <1>5, <1>13 DEF LicIInv
<1>15. licEdits' \in 0..MaxLicEdits
  BY <1>5, EditCounted
<1>16. QED
  BY <1>5, <1>7, <1>11, <1>13, <1>14, <1>15, LicencesKeep

\* One licence is written anew, with its key and its origin, and the index allows it.
LEMMA LicenceWritten ==
  ASSUME LicIInv, UNCHANGED <<plans, applying>>, NEW l \in DOMAIN licences, NEW row \in LicenceRows,
         row.st \in row.said, row.key = licences[l].key, row.from = licences[l].from,
         licences' = [licences EXCEPT ![l] = row], IndexAllows(licences'), licEdits' \in 0..MaxLicEdits,
         intent' \in [Clerks -> IntentRows \cup {NoIntent}],
         \A c \in Clerks : intent'[c] = NoIntent \/ intent'[c] = intent[c]
  PROVE  LicIInv'
<1>1. PICK K : K = licences
  OBVIOUS
<1>2. PICK L : L = licences'
  OBVIOUS
<1>3. L = [K EXCEPT ![l] = row] /\ TableOK(K) /\ l \in DOMAIN K
  BY <1>1, <1>2 DEF LicIInv
<1>4. IndexAllows(L)
  BY <1>2 DEF IndexAllows
<1>5. TableOK(L) /\ Len(L) = Len(K)
  BY <1>1, <1>3, <1>4, TableChanges
<1>6. Len(licences) <= Len(L) /\ DOMAIN licences = DOMAIN L
  BY <1>1, <1>3, <1>5, LenProperties DEF TableOK
<1>7. \A c \in Clerks : intent'[c] # NoIntent => intent'[c].lic \in DOMAIN L
  BY <1>6 DEF LicIInv
<1>8. QED
  BY <1>2, <1>5, <1>6, <1>7, LicencesKeep

LEMMA LicenceRow ==
  ASSUME LicIInv, NEW l \in DOMAIN licences
  PROVE  licences[l] \in LicenceRows /\ licences[l].st \in licences[l].said
BY ElementOfSeq, LenProperties DEF LicIInv, TableOK

LEMMA StatusRead ==
  ASSUME LicIInv, NEW c \in Clerks, NEW l \in DOMAIN licences, NEW to \in NewStatuses, StatusReads(c, l, to)
  PROVE  LicIInv'
<1>1. PICK i : i = [lic |-> l, was |-> licences[l].st, to |-> to]
  OBVIOUS
<1>2. PICK L : L = licences
  OBVIOUS
<1>3. TableOK(L) /\ Len(licences) = Len(L) /\ DOMAIN licences = DOMAIN L /\ L \in Seq(LicenceRows)
  BY <1>2 DEF LicIInv, TableOK
<1>4. Len(L) \in Nat /\ DOMAIN L = 1..Len(L) /\ Len(L) <= MaxLicences /\ MaxLicences \in Nat
  BY <1>3, LenProperties, LicBounds DEF TableOK
<1>5. licences[l].st \in LicenseStatuses /\ l \in 1..MaxLicences
  BY <1>3, <1>4, LicenceRow DEF LicenceRows
<1>6. i \in IntentRows /\ i.lic = l
  BY <1>1, <1>5 DEF IntentRows
<1>7. intent' = [intent EXCEPT ![c] = i] /\ LicEdit /\ UNCHANGED <<licences, plans, applying>>
  BY <1>1 DEF StatusReads
<1>8. /\ intent' \in [Clerks -> IntentRows \cup {NoIntent}]
      /\ \A d \in Clerks : intent'[d] # NoIntent => intent'[d].lic \in DOMAIN L
  BY <1>3, <1>6, <1>7 DEF LicIInv
<1>9. licEdits' \in 0..MaxLicEdits /\ L = licences' /\ Len(licences) <= Len(L)
  BY <1>2, <1>3, <1>4, <1>7, EditCounted
<1>10. QED
  BY <1>3, <1>7, <1>8, <1>9, LicencesKeep

LEMMA StatusCommitted ==
  ASSUME LicIInv, NEW c \in Clerks, StatusCommits(c)
  PROVE  LicIInv'
<1>1. PICK i : i = intent[c]
  OBVIOUS
<1>2. i \in IntentRows /\ i.lic \in DOMAIN licences
  BY <1>1 DEF LicIInv, StatusCommits
<1>3. PICK l \in DOMAIN licences : l = i.lic
  BY <1>2
<1>4. i.to \in LicenseStatuses /\ licences[l] \in LicenceRows /\ licences[l].st \in licences[l].said
  BY <1>2, LicenceRow, StatusNames DEF IntentRows
<1>5. PICK row : row = [licences[l] EXCEPT !.said = @ \cup {i.to}, !.st = IF i.to = i.was THEN @ ELSE i.to]
  OBVIOUS
<1>6. /\ row \in LicenceRows /\ row.st \in row.said /\ row.key = licences[l].key /\ row.from = licences[l].from
  BY <1>4, <1>5 DEF LicenceRows
<1>7. PICK next : next = [licences EXCEPT ![l] = row]
  OBVIOUS
<1>8. DOMAIN licences = 1..Len(licences)
  BY LenProperties DEF LicIInv, TableOK
<1>9. next = [licences EXCEPT ![i.lic].said = @ \cup {i.to}, ![i.lic].st = IF i.to = i.was THEN @ ELSE i.to]
  BY <1>3, <1>5, <1>7
<1>10. licences' = IF IndexAllows(next) THEN next ELSE licences
  BY <1>1, <1>9 DEF StatusCommits
<1>11. /\ UNCHANGED <<plans, applying>> /\ licEdits' \in 0..MaxLicEdits
       /\ intent' \in [Clerks -> IntentRows \cup {NoIntent}]
       /\ \A d \in Clerks : intent'[d] = NoIntent \/ intent'[d] = intent[d]
  BY DEF StatusCommits, LicIInv
<1>12. CASE IndexAllows(next)
  <2>1. licences' = [licences EXCEPT ![l] = row] /\ licences' = next
    BY <1>7, <1>10, <1>12
  <2>2. IndexAllows(licences')
    BY <1>12, <2>1 DEF IndexAllows
  <2>3. QED
    BY <1>6, <1>11, <2>1, <2>2, LicenceWritten
<1>13. CASE ~IndexAllows(next)
  <2>1. PICK L : L = licences
    OBVIOUS
  <2>2. TableOK(L) /\ L = licences' /\ Len(licences) <= Len(L)
    BY <1>10, <1>13, <2>1, LenProperties DEF LicIInv, TableOK
  <2>3. \A d \in Clerks : intent'[d] # NoIntent => intent'[d].lic \in DOMAIN L
    BY <1>11, <2>1 DEF LicIInv
  <2>4. QED
    BY <1>11, <2>2, <2>3, LicencesKeep
<1>14. QED
  BY <1>12, <1>13

LEMMA LicenceUpdated ==
  ASSUME LicIInv, NEW l \in DOMAIN licences, NEW number \in Numbers \cup {"-"}, NEW e \in 0..MaxExpiry,
         NEW s, UpdateLicense(l, number, e, s) \/ RecordRenewedEvidence(l, e)
  PROVE  LicIInv'
<1>1. licences[l] \in LicenceRows /\ licences[l].st \in licences[l].said /\ licences \in Seq(LicenceRows)
  BY LicenceRow DEF LicIInv, TableOK
<1>2. /\ UNCHANGED <<plans, applying, intent>> /\ IndexAllows(licences') /\ LicEdit
  BY DEF UpdateLicense, RecordRenewedEvidence
<1>3. /\ intent' \in [Clerks -> IntentRows \cup {NoIntent}] /\ licEdits' \in 0..MaxLicEdits
      /\ \A d \in Clerks : intent'[d] = NoIntent \/ intent'[d] = intent[d]
  BY <1>2, EditCounted DEF LicIInv
<1>4. CASE UpdateLicense(l, number, e, s)
  <2>1. PICK row : row = UpdatedLicence(licences[l], number, e, licences[l].conf, s)
    OBVIOUS
  <2>2. row \in LicenceRows /\ row.st \in row.said /\ row.key = licences[l].key /\ row.from = licences[l].from
    BY <1>1, <2>1 DEF UpdatedLicence, LicenceRows
  <2>3. licences' = [licences EXCEPT ![l] = row]
    BY <1>4, <2>1 DEF UpdateLicense
  <2>4. QED
    BY <1>2, <1>3, <2>2, <2>3, LicenceWritten
<1>5. CASE RecordRenewedEvidence(l, e)
  <2>1. PICK row : row = [licences[l] EXCEPT !.exp = e, !.conf = "VERIFIED_DOCUMENT", !.st = "ACTIVE",
                                             !.said = @ \cup {"ACTIVE"}]
    OBVIOUS
  <2>2. row \in LicenceRows /\ row.st \in row.said /\ row.key = licences[l].key /\ row.from = licences[l].from
    BY <1>1, <2>1 DEF LicenceRows, Confidences, LicenseStatuses
  <2>3. licences' = [licences EXCEPT ![l] = row]
    BY <1>1, <1>5, <2>1 DEF RecordRenewedEvidence
  <2>4. QED
    BY <1>2, <1>3, <2>2, <2>3, LicenceWritten
<1>6. QED
  BY <1>4, <1>5

\* A decision names an existing licence where it is to be updated.
LEMMA Decided ==
  ASSUME LicIInv, NEW sheet, NEW r
  PROVE  /\ Decision(sheet, r).action \in ImportRowActions
         /\ Decision(sheet, r).target \in 0..MaxLicences
         /\ Decision(sheet, r).action = "UPDATE" => Decision(sheet, r).target \in DOMAIN licences
<1> DEFINE row == sheet[r]
           existing == Matching(row)
           l == CHOOSE m \in existing : TRUE
           disagrees == licences[l].conf = "VERIFIED_DOCUMENT" /\ row.exp # 0 /\ licences[l].exp # 0
                        /\ row.exp # licences[l].exp
           unclear == disagrees \/ existing # {l}
           action == IF unclear THEN "CONFLICT_REVIEW"
                     ELSE IF IsUnchanged(l, row) THEN "SKIP_UNCHANGED" ELSE "UPDATE"
<1>1. Decision(sheet, r) =
        CASE Faulty(sheet, r) -> [action |-> "ERROR", target |-> 0]
          [] ~Faulty(sheet, r) /\ existing = {} -> [action |-> "INSERT", target |-> 0]
          [] OTHER -> [action |-> action, target |-> l]
  BY Zenon DEF Decision
<1>2. existing # {} => l \in DOMAIN licences
  BY DEF Matching
<1>3. action \in ImportRowActions
  BY DEF ImportRowActions
<1>4. /\ DOMAIN licences = 1..Len(licences) /\ Len(licences) <= MaxLicences
      /\ Len(licences) \in Nat /\ MaxLicences \in Nat
  BY LenProperties, LicBounds DEF LicIInv, TableOK
<1> HIDE DEF row, existing, l, action
<1>5. CASE Faulty(sheet, r) \/ existing = {}
  <2>1. Decision(sheet, r).target = 0 /\ Decision(sheet, r).action \in {"ERROR", "INSERT"}
    BY <1>1, <1>5
  <2>2. QED
    BY <1>4, <2>1 DEF ImportRowActions
<1>6. CASE ~Faulty(sheet, r) /\ existing # {}
  <2>1. Decision(sheet, r) = [action |-> action, target |-> l]
    BY <1>1, <1>6
  <2>2. l \in DOMAIN licences /\ l \in 0..MaxLicences
    BY <1>2, <1>4, <1>6
  <2>3. QED
    BY <1>3, <2>1, <2>2
<1>7. QED
  BY <1>5, <1>6

LEMMA ImportPlanned ==
  ASSUME LicIInv, NEW n \in 1..MaxSheetRows, NEW sheet \in [1..n -> SheetRows], PlanImport(sheet)
  PROVE  LicIInv'
<1> DEFINE Row(r) == LET d == Decision(sheet, r)
                     IN  [number |-> sheet[r].number, st |-> sheet[r].st, exp |-> sheet[r].exp,
                          action |-> d.action, target |-> d.target]
<1>1. PICK rows : rows = [r \in DOMAIN sheet |-> Row(r)]
  OBVIOUS
<1>2. PICK plan : plan = [st |-> "PLANNED", rows |-> rows]
  OBVIOUS
<1>3. plans' = Append(plans, plan)
  BY <1>1, <1>2, Zenon DEF PlanImport
<1>4. UNCHANGED <<licences, applying, intent, licEdits>> /\ Len(plans) < MaxPlans
  BY DEF PlanImport
<1>5. ASSUME NEW r \in 1..n
      PROVE  Row(r) \in PlanRows /\ (Row(r).action = "UPDATE" => Row(r).target \in DOMAIN licences)
  <2>1. PICK d : d = Decision(sheet, r)
    OBVIOUS
  <2>2. /\ d.action \in ImportRowActions /\ d.target \in 0..MaxLicences
        /\ d.action = "UPDATE" => d.target \in DOMAIN licences
    BY <2>1, Decided
  <2>3. sheet[r] \in SheetRows
    BY <1>5
  <2>4. PICK x : x = [number |-> sheet[r].number, st |-> sheet[r].st, exp |-> sheet[r].exp,
                      action |-> d.action, target |-> d.target]
    OBVIOUS
  <2>5. x \in PlanRows /\ x.action = d.action /\ x.target = d.target
    BY <2>2, <2>3, <2>4 DEF SheetRows, PlanRows
  <2>6. Row(r) = x
    BY <2>1, <2>4, Zenon
  <2> HIDE DEF Row
  <2>7. QED
    BY <2>2, <2>5, <2>6
<1> HIDE DEF Row
<1>6. n \in Nat /\ n <= MaxSheetRows /\ DOMAIN sheet = 1..n
  BY LicBounds
<1>7. rows \in [1..n -> PlanRows]
  BY <1>1, <1>5, <1>6
<1>8. rows \in Seq(PlanRows)
  BY <1>6, <1>7, SeqDef
<1>9. Len(rows) = n
  BY <1>6, <1>7, <1>8, LenProperties
<1>10. plan \in PlanRecords /\ plan.rows = rows
  BY <1>2, <1>8 DEF PlanRecords
<1>11. plans \in Seq(PlanRecords) /\ Len(plans) \in Nat /\ DOMAIN plans = 1..Len(plans)
  BY LenProperties DEF LicIInv, PlansOK
<1>12. /\ plans' \in Seq(PlanRecords) /\ Len(plans') = Len(plans) + 1 /\ plans'[Len(plans) + 1] = plan
       /\ \A p \in 1..Len(plans) : plans'[p] = plans[p]
  BY <1>3, <1>10, <1>11, AppendProperties
<1>13. DOMAIN plans' = 1..(Len(plans) + 1)
  BY <1>12, LenProperties
<1>14. Len(plans') <= MaxPlans
  <2>1. MaxPlans \in Nat
    BY LicBounds
  <2>2. QED
    BY <1>4, <1>11, <1>12, <2>1
<1>15. ASSUME NEW p \in DOMAIN plans'
       PROVE  /\ Len(plans'[p].rows) <= MaxSheetRows
              /\ \A r \in DOMAIN plans'[p].rows :
                   plans'[p].rows[r].action = "UPDATE" => plans'[p].rows[r].target \in DOMAIN licences
  <2>1. CASE p \in 1..Len(plans)
    BY <1>11, <1>12, <2>1 DEF LicIInv, PlansOK
  <2>2. CASE p = Len(plans) + 1
    <3>1. plans'[p].rows = rows
      BY <1>10, <1>12, <2>2
    <3>2. \A r \in DOMAIN rows : rows[r].action = "UPDATE" => rows[r].target \in DOMAIN licences
      BY <1>1, <1>5, <1>6
    <3>3. QED
      BY <1>6, <1>9, <3>1, <3>2
  <2>3. QED
    BY <1>11, <1>13, <2>1, <2>2
<1>16. PlansOK'
  BY <1>4, <1>12, <1>14, <1>15 DEF PlansOK
<1>17. TableOK(licences)'
  <2>1. PICK L : L = licences
    OBVIOUS
  <2>2. TableOK(L)
    BY <2>1 DEF LicIInv
  <2>3. \A p \in DOMAIN plans : p \in DOMAIN plans' /\ plans'[p].rows = plans[p].rows
    BY <1>11, <1>12, <1>13
  <2>4. TableOK(L)'
    BY <2>2, <2>3, OriginsKeep
  <2>5. L = licences'
    BY <1>4, <2>1
  <2>6. QED
    BY <2>4, <2>5 DEF TableOK, IndexAllows, InsertedBy
<1>18. applying' \in [Importers -> 0..Len(plans')]
  BY <1>4, <1>11, <1>12 DEF LicIInv
<1>19. QED
  BY <1>4, <1>16, <1>17, <1>18 DEF LicIInv

LEMMA ApplyRead ==
  ASSUME LicIInv, NEW i \in Importers, (\E p \in DOMAIN plans : ApplyReads(i, p)) \/ ApplyDies(i)
  PROVE  LicIInv'
<1>1. DOMAIN plans = 1..Len(plans) /\ Len(plans) \in Nat
  BY LenProperties DEF LicIInv, PlansOK
<1>2. UNCHANGED <<licences, plans, intent, licEdits>> /\ applying' \in [Importers -> 0..Len(plans)]
  BY <1>1 DEF ApplyReads, ApplyDies, LicIInv
<1>3. TableOK(licences)' /\ PlansOK'
  BY <1>2 DEF LicIInv, TableOK, PlansOK, IndexAllows, InsertedBy
<1>4. QED
  BY <1>2, <1>3 DEF LicIInv

LEMMA ApplyCommitted ==
  ASSUME LicIInv, NEW i \in Importers, ApplyCommits(i)
  PROVE  LicIInv'
<1>1. PICK p : p = applying[i]
  OBVIOUS
<1>2. /\ p # 0 /\ licences' = ApplyRows(p) /\ plans' = [plans EXCEPT ![p].st = "COMPLETED"]
      /\ applying' = [applying EXCEPT ![i] = 0] /\ UNCHANGED <<intent, licEdits>>
  BY <1>1 DEF ApplyCommits
<1>3. plans \in Seq(PlanRecords) /\ DOMAIN plans = 1..Len(plans) /\ Len(plans) \in Nat
  BY LenProperties DEF LicIInv, PlansOK
<1>4. p \in DOMAIN plans /\ plans[p] \in PlanRecords
  <2>1. p \in 0..Len(plans)
    BY <1>1 DEF LicIInv
  <2>2. QED
    BY <1>2, <1>3, <2>1, ElementOfSeq
<1>5. PICK q : q = [plans[p] EXCEPT !.st = "COMPLETED"]
  OBVIOUS
<1>6. q \in PlanRecords /\ q.rows = plans[p].rows
  BY <1>4, <1>5 DEF PlanRecords
<1>7. plans' = [plans EXCEPT ![p] = q]
  BY <1>2, <1>5
<1>8. plans' \in Seq(PlanRecords) /\ Len(plans') = Len(plans) /\ DOMAIN plans' = DOMAIN plans
  BY <1>3, <1>4, <1>6, <1>7, ExceptSeq
<1>9. \A o \in DOMAIN plans : plans'[o].rows = plans[o].rows
  BY <1>3, <1>4, <1>6, <1>7
<1>10. PICK L : L = ApplyRows(p)
  OBVIOUS
<1>11. TableOK(L) /\ Len(licences) <= Len(L)
  BY <1>4, <1>10, RowsApplied
<1>12. DOMAIN licences \subseteq DOMAIN L
  <2>1. /\ DOMAIN licences = 1..Len(licences) /\ DOMAIN L = 1..Len(L)
        /\ Len(licences) \in Nat /\ Len(L) \in Nat
    BY <1>11, LenProperties DEF LicIInv, TableOK
  <2>2. QED
    BY <1>11, <2>1
<1>13. L = licences'
  BY <1>2, <1>10
<1>14. TableOK(L)'
  BY <1>8, <1>9, <1>11, OriginsKeep
<1>15. TableOK(licences)'
  BY <1>13, <1>14 DEF TableOK, IndexAllows, InsertedBy
<1>16. PlansOK'
  BY <1>8, <1>9, <1>12, <1>13 DEF LicIInv, PlansOK
<1>17. applying' \in [Importers -> 0..Len(plans')]
  BY <1>2, <1>3, <1>8 DEF LicIInv
<1>18. \A c \in Clerks : intent'[c] # NoIntent => intent'[c].lic \in DOMAIN licences'
  BY <1>2, <1>12, <1>13 DEF LicIInv
<1>19. QED
  BY <1>2, <1>15, <1>16, <1>17, <1>18 DEF LicIInv

LEMMA LicStays == LicIInv /\ [LicNext]_licVars => LicIInv'
<1> SUFFICES ASSUME LicIInv, [LicNext]_licVars
             PROVE  LicIInv'
  OBVIOUS
<1>1. CASE UNCHANGED licVars
  BY <1>1 DEF licVars, LicIInv, TableOK, PlansOK, IndexAllows, InsertedBy
<1>2. CASE \E l \in DOMAIN licences : \E c \in Clerks, to \in NewStatuses : StatusReads(c, l, to)
  BY <1>2, StatusRead
<1>3. CASE \E l \in DOMAIN licences :
             \/ \E n \in Numbers \cup {"-"}, e \in 0..MaxExpiry, s \in NewStatuses : UpdateLicense(l, n, e, s)
             \/ \E e \in 1..MaxExpiry : RecordRenewedEvidence(l, e)
  <2>1. \A e \in 1..MaxExpiry : e \in 0..MaxExpiry
    OBVIOUS
  <2>2. QED
    BY <1>3, <2>1, LicenceUpdated
<1>4. CASE \E i \in Importers : (\E p \in DOMAIN plans : ApplyReads(i, p)) \/ ApplyCommits(i) \/ ApplyDies(i)
  BY <1>4, ApplyRead, ApplyCommitted
<1>5. QED
  BY <1>1, <1>2, <1>3, <1>4, LicenceCreated, StatusCommitted, ImportPlanned DEF LicNext

\* A planned row is inserted once: two licences from it would have one key.
LEMMA LicIsSafe == LicIInv => InventoryInv
<1> SUFFICES ASSUME LicIInv
             PROVE  InventoryInv
  OBVIOUS
<1>1. /\ OneLiveAuthority /\ StatusIsWitnessed
  BY DEF LicIInv, TableOK, IndexAllows, OneLiveAuthority, StatusIsWitnessed
<1>2. ASSUME NEW p \in DOMAIN plans
      PROVE  /\ plans[p].st \in {"PLANNED", "COMPLETED"}
             /\ \A r \in DOMAIN plans[p].rows :
                  plans[p].rows[r].action \in ImportRowActions /\ plans[p].rows[r].target \in 0..MaxLicences
  <2>1. plans[p] \in PlanRecords
    BY ElementOfSeq, LenProperties DEF LicIInv, PlansOK
  <2>2. plans[p].rows \in Seq(PlanRows) /\ plans[p].st \in {"PLANNED", "COMPLETED"}
    BY <2>1 DEF PlanRecords
  <2>3. \A r \in DOMAIN plans[p].rows : plans[p].rows[r] \in PlanRows
    BY <2>2, ElementOfSeq, LenProperties
  <2>4. QED
    BY <2>2, <2>3 DEF PlanRows
<1>3. ASSUME NEW l \in DOMAIN licences, NEW m \in DOMAIN licences,
             licences[l].from = licences[m].from, licences[l].from # <<0, 0>>
      PROVE  l = m
  <2>1. PICK p \in DOMAIN plans : \E r \in DOMAIN plans[p].rows :
          licences[l].from = <<p, r>> /\ licences[l].key = plans[p].rows[r].number
    BY <1>3 DEF LicIInv, TableOK, InsertedBy
  <2>2. PICK r \in DOMAIN plans[p].rows :
          licences[l].from = <<p, r>> /\ licences[l].key = plans[p].rows[r].number
    BY <2>1
  <2>3. PICK q \in DOMAIN plans : \E s \in DOMAIN plans[q].rows :
          licences[m].from = <<q, s>> /\ licences[m].key = plans[q].rows[s].number
    BY <1>3 DEF LicIInv, TableOK, InsertedBy
  <2>4. PICK s \in DOMAIN plans[q].rows :
          licences[m].from = <<q, s>> /\ licences[m].key = plans[q].rows[s].number
    BY <2>3
  <2>5. p = q /\ r = s
    <3>1. <<p, r>> = <<q, s>>
      BY <1>3, <2>2, <2>4, Zenon
    <3>2. QED
      BY <3>1
  <2>6. QED
    BY <2>2, <2>4, <2>5 DEF LicIInv, TableOK
<1>4. licences \in Seq(LicenceRows) /\ licEdits \in 0..MaxLicEdits /\ applying \in [Importers -> 0..Len(plans)]
  BY DEF LicIInv, TableOK
<1>5. LicTypeOK
  BY <1>2, <1>3, <1>4 DEF LicTypeOK
<1>6. QED
  BY <1>1, <1>5 DEF InventoryInv

(***************************************************************************)
(* The records together                                                    *)
(***************************************************************************)

licensingVars == <<focus, question, licVars, reqVars, caseVars, packetVars, formVars, docVars, govVars>>

\* A step of the records is a step of one of them and leaves the others alone.
LEMMA LicensingSteps ==
  ASSUME [LicensingNext]_licensingVars
  PROVE  /\ [CaseNext]_caseVars /\ [FormNext]_formVars /\ [GovNext]_govVars /\ [PacketNext]_packetVars
         /\ [CatalogNext]_docVars /\ [ReqNext]_reqVars /\ [LicNext]_licVars /\ UNCHANGED question
BY DEF LicensingNext, licensingVars

\* A case is completed only on renewed evidence, forms hold entitled values, freeze with a reviewed
\* draft and leave signed, and at most one review and one adapter of a portal is in force.
THEOREM FilingIsSafe == LicensingSpec => []FilingInv
<1>1. LicensingInit => CaseIInv /\ FormIInv /\ GovIInv
  BY CaseStarts, FormStarts, GovStarts DEF LicensingInit
<1>2. CaseIInv /\ FormIInv /\ GovIInv /\ [LicensingNext]_licensingVars => (CaseIInv /\ FormIInv /\ GovIInv)'
  BY LicensingSteps, CaseStays, FormStays, GovStays
<1>3. CaseIInv /\ FormIInv /\ GovIInv => FilingInv
  BY CaseIsSafe, FormIsSafe, GovIsTyped DEF FilingInv
<1>4. QED
  BY <1>1, <1>2, <1>3, PTL DEF LicensingSpec, licensingVars

\* The fields of a form approved for signature never change and the form stays frozen, with the one
\* general worker of the deployment; and a case goes on to submission only with its forms signed.
THEOREM SignaturesAlwaysBind == LicensingSpec => SignaturesBind
<1>1. LicensingInit => FormIInv
  BY FormStarts DEF LicensingInit
<1>2. FormIInv /\ [LicensingNext]_licensingVars => FormIInv'
  BY LicensingSteps, FormStays
<1>3. FormIInv /\ [LicensingNext]_licensingVars =>
        [\A i \in DOMAIN forms : forms[i].status \in FROZEN_INSTANCE_STATUSES =>
           forms'[i].fields = forms[i].fields /\ forms'[i].status \in FROZEN_INSTANCE_STATUSES]_formVars
  BY LicensingSteps, FrozenStep
<1>4. LicensingSpec => FrozenFieldsKeep
  BY <1>1, <1>2, <1>3, PTL DEF LicensingSpec, licensingVars, FrozenFieldsKeep
<1>5. [LicensingNext]_licensingVars =>
        [ccase'.stage \in POST_SIGNATURE_STAGES /\ ccase'.stage # ccase.stage /\ slow' = slow
           => (caseForms.required => caseForms.signed)]_caseVars
  BY LicensingSteps, SubmissionStep
<1>6. LicensingSpec => SubmissionIsSigned
  BY <1>5, PTL DEF LicensingSpec, licensingVars, SubmissionIsSigned
<1>7. QED
  BY <1>4, <1>6 DEF SignaturesBind

\* Automation acts in a portal only under a review in force that both reviewers signed, that has not
\* lapsed and that nobody ever withdrew.
THEOREM AutomationIsReviewed == LicensingSpec => ActsUnderSignedReview
<1>1. LicensingInit => GovIInv
  BY GovStarts DEF LicensingInit
<1>2. GovIInv /\ [LicensingNext]_licensingVars => GovIInv'
  BY LicensingSteps, GovStays
<1>3. GovIInv /\ [LicensingNext]_licensingVars =>
        [gwork = "queued" /\ gwork' = "acting" =>
           /\ ReviewIsComplete(grun.review) /\ ~reviews[grun.review].lapsed
           /\ reviews[grun.review].status = "APPROVED" /\ grun.review \notin withdrawn]_govVars
  BY LicensingSteps, ActsStep
<1>4. QED
  BY <1>1, <1>2, <1>3, PTL DEF LicensingSpec, licensingVars, ActsUnderSignedReview

\* Archives hold the bytes their approved manifest pins, packet and archive rows stay in order, and
\* the catalogue misses no file of the drive that its reconciliation has passed.
THEOREM DocumentsAreSafe == LicensingSpec => []DocumentsInv
<1>1. LicensingInit => PacketIInv /\ CatIInv
  BY PacketStarts, CatStarts DEF LicensingInit
<1>2. PacketIInv /\ CatIInv /\ [LicensingNext]_licensingVars => (PacketIInv /\ CatIInv)'
  BY LicensingSteps, PacketsStay, CatStays
<1>3. PacketIInv /\ CatIInv => DocumentsInv
  BY PacketsAreSafe, CatIsSafe DEF DocumentsInv
<1>4. QED
  BY <1>1, <1>2, <1>3, PTL DEF LicensingSpec, licensingVars

\* Whatever is overridden, expired, re-evaluated or sent back, "not required" governs no result that
\* nobody decided and counsel is not asked about; rules rest on reviewed snapshots.
THEOREM RequirementsAreWatched == LicensingSpec => []RequirementsInv
<1>1. LicensingInit => ReqIInv
  BY ReqStarts DEF LicensingInit
<1>2. ReqIInv /\ [LicensingNext]_licensingVars => ReqIInv'
  BY LicensingSteps, ReqStays
<1>3. QED
  BY <1>1, <1>2, ReqIsSafe, PTL DEF LicensingSpec, licensingVars

\* No missing fact, once learned, turns the evaluator's "not required" into anything else.
THEOREM NotRequiredIsStable == LicensingSpec => []NotRequiredSurvivesFacts
<1> DEFINE Asked == /\ \A r \in question.rules : r.cond \in Conditions
                    /\ question.known \in [Facts -> Truths]
<1>1. LicensingInit => Asked
  <2>1. \A r \in SmallRules : r.cond \in Conditions
    BY QuestionFacts DEF SmallRules, Conditions
  <2>2. ASSUME NEW q \in [rules : {{r, s} : r, s \in SmallRules}, known : [Facts -> Truths]]
        PROVE  /\ \A r \in q.rules : r.cond \in Conditions
               /\ q.known \in [Facts -> Truths]
    BY <2>1
  <2>3. [x \in Facts |-> "U"] \in [Facts -> Truths]
    BY DEF Truths
  <2>4. QED
    BY <2>2, <2>3 DEF LicensingInit
<1>2. Asked /\ [LicensingNext]_licensingVars => Asked'
  BY LicensingSteps
<1>3. Asked => NotRequiredSurvivesFacts
  BY FactsKeepNotRequired DEF NotRequiredSurvivesFacts
<1>4. QED
  BY <1>1, <1>2, <1>3, PTL DEF LicensingSpec, licensingVars

\* At most one live authority, every status announced by an event, and a planned row inserted once,
\* however many rows a plan has and however often and concurrently it is applied.
THEOREM InventoryIsSafe == LicensingSpec => []InventoryInv
<1>1. LicensingInit => LicIInv
  BY LicStarts DEF LicensingInit
<1>2. LicIInv /\ [LicensingNext]_licensingVars => LicIInv'
  BY LicensingSteps, LicStays
<1>3. QED
  BY <1>1, <1>2, LicIsSafe, PTL DEF LicensingSpec, licensingVars

=============================================================================
