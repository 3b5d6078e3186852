----------------------------- MODULE MailProofs -----------------------------
(***************************************************************************)
(* What the run of MCMail shows on a small instance, proved for every      *)
(* value of the constants: the intake of a message (IntakeInv), its reply  *)
(* draft (ReplyInv, OneReply) and the draft's attachments (ReplyInv).      *)
(***************************************************************************)
EXTENDS MCMail, FiniteSetTheorems, SequenceTheorems, TLAPS

(***************************************************************************)
(* The inductive invariants                                                *)
(***************************************************************************)

IntakerPcs == {"idle", "start", "store", "fetched", "parts", "saved", "queue", "model", "merge",
               "done", "gone", "failed"}
IntakerStates == [pc : IntakerPcs, job : JobKinds, again : BOOLEAN]

\* What a job that can be claimed has left; before the message is known nothing is queued.
IntakeJobsHaveAttempts ==
  /\ \A k \in JobKinds : ijobs[k].status = "PENDING" => ijobs[k].attempts < IntakeMax
  /\ mail = NoMail => ijobs["ingest"].status = "NONE" /\ ijobs["ingest"].attempts = 0

\* A session past a store has the evidence behind it, whatever other sessions did since.
SessionsHaveEvidence ==
  \A w \in Intakers : /\ iw[w].pc \in {"fetched", "parts", "saved"} => evidence
                      /\ iw[w].pc = "saved" => saved = Parts

\* A task is made once, out of a state that is never reached again.
TaskClosesMail ==
  /\ mail.state # "FAILED_RETRYABLE"
  /\ tasks # {} => mail.state \in {"TASK_CREATED", "FAILED_REVIEW"}
  /\ \A u, v \in tasks : u = v

IntakeIInv ==
  /\ IntakeTypeOK /\ IntakeJobsHaveAttempts /\ SessionsHaveEvidence /\ EvidenceIsBehindState
  /\ TaskClosesMail

\* A session knows no later revision than the row; the row's revisions are the edits, the first one
\* and one that a finalization adds, after which none is finalized.
RevisionsBounded ==
  /\ gd.status = "NONE" => gd.rev = 0 /\ gd.id = 0 /\ \A s \in Composers : cs[s].pc \in {"idle", "load"}
  /\ draftEdits <= MaxEdits
  /\ \A s \in Composers : cs[s].rev <= gd.rev
  /\ \/ gd.rev <= 1 + draftEdits
     \/ /\ gd.rev <= 2 + draftEdits /\ gd.id # 0 /\ gd.status # "GRAPH_DRAFT_PENDING"
        /\ \A s \in Composers : cs[s].pc \in {"intent", "created", "finalize"} => cs[s].rev < gd.rev

\* A session names a reply that exists; what is being finalized has its identity stored.
ComposersKnowReplies ==
  \A s \in Composers :
    /\ cs[s].reply <= Len(replies)
    /\ cs[s].pc = "created" => cs[s].reply >= 1
    /\ cs[s].pc = "finalize" => gd.id # 0

\* While nobody interferes one intent is open at a time, before there is any reply, and a reply
\* leaves the row pending or identified: no second intent follows it.
OneIntent ==
  ~edited =>
    /\ Len(replies) <= 1
    /\ replies # <<>> => gd.status = "GRAPH_DRAFT_PENDING" \/ gd.id # 0
    /\ \A s \in Composers : cs[s].pc \in {"intent", "refused"} =>
         replies = <<>> /\ gd.status = "GRAPH_DRAFT_PENDING"
    /\ \A s, t \in Composers :
         cs[s].pc \in {"intent", "refused"} /\ cs[t].pc \in {"intent", "refused"} => s = t

DraftIInv == DraftTypeOK /\ RevisionsBounded /\ ComposersKnowReplies /\ OneIntent

\* The rows an upload works on, and the copies it has made and not yet committed.
UploadRows ==
  up.todo \cup {up.ok[k][1] : k \in DOMAIN up.ok} \cup (IF up.pc \in {"post", "doubt"} THEN {up.row} ELSE {})
Pins == {atts[i].gid : i \in DOMAIN atts}
Uncommitted == {up.ok[k][2] : k \in DOMAIN up.ok}

\* Every identity is that of a copy made for the row, and of that row alone.
CopiesAreOwned ==
  /\ \A i \in DOMAIN atts : atts[i].gid # 0 =>
       atts[i].gid \in DOMAIN copies /\ copies[atts[i].gid] \in {atts[i].doc, "gone"}
  /\ \A i, j \in DOMAIN atts : atts[i].gid = atts[j].gid /\ atts[i].gid # 0 => i = j
  /\ \A i \in DOMAIN atts : /\ atts[i].status = "GRAPH_UPLOADED" => atts[i].gid # 0
                            /\ atts[i].status = "VALIDATED" => atts[i].gid = 0

\* An upload works on rows without a copy, of which a removal may have closed some meanwhile; what
\* it made is in Graph, was made for the row, and no row names it.
UploadIsOwn ==
  /\ UploadRows \subseteq DOMAIN atts
  /\ \A i \in UploadRows : atts[i].gid = 0 /\ (atts[i].status = "VALIDATED" \/ atts[i].removed)
  /\ \A k \in DOMAIN up.ok : /\ up.ok[k][2] \in DOMAIN copies /\ up.ok[k][2] \notin Pins
                             /\ copies[up.ok[k][2]] \in {atts[up.ok[k][1]].doc, "gone"}
  /\ \A k, l \in DOMAIN up.ok : up.ok[k][2] = up.ok[l][2] => k = l
  /\ up.pc = "post" => CopiesOf(atts[up.row].doc) = {}
  /\ up.pc = "doubt" => \A c \in CopiesOf(atts[up.row].doc) : c \notin Pins \cup Uncommitted

\* A removal is about a row that exists, and deletes the copy it names.
RemovalIsOwn ==
  /\ rm.pc # "idle" => rm.row \in DOMAIN atts
  /\ rm.pc = "delete" => atts[rm.row].gid # 0

OneCopy == \A c, e \in DOMAIN copies : copies[c] = copies[e] /\ copies[c] # "gone" => c = e
FrozenIsUploaded == frozen => \A i \in LiveAtts : atts[i].status = "GRAPH_UPLOADED"

AttIInv ==
  /\ AttTypeOK /\ CopiesAreOwned /\ UploadIsOwn /\ RemovalIsOwn /\ OneCopy /\ FrozenIsUploaded
  /\ QueuedIsComplete

(***************************************************************************)
(* The intake: states and jobs                                             *)
(***************************************************************************)

LEMMA StatesAre ==
  PipelineStates = {"DISCOVERED", "FETCHED", "ATTACHMENTS_SAVED", "CLASSIFIED", "TASK_CREATED", "MOVED",
                    "COMPLETED"}
<1>1. 1..7 = {1, 2, 3, 4, 5, 6, 7}
  OBVIOUS
<1>2. /\ Pipeline[1] = "DISCOVERED" /\ Pipeline[2] = "FETCHED" /\ Pipeline[3] = "ATTACHMENTS_SAVED"
      /\ Pipeline[4] = "CLASSIFIED" /\ Pipeline[5] = "TASK_CREATED" /\ Pipeline[6] = "MOVED"
      /\ Pipeline[7] = "COMPLETED"
  BY DEF Pipeline
<1>3. QED
  BY <1>1, <1>2 DEF PipelineStates

\* Where the transitions that the intake asks for may start.
LEMMA AllowedAre ==
  ASSUME NEW cur, NEW target, AllowedForward(cur, target)
  PROVE  /\ target = "FETCHED" => cur = "DISCOVERED"
         /\ target = "ATTACHMENTS_SAVED" => cur = "FETCHED"
         /\ target = "CLASSIFIED" => cur \in {"ATTACHMENTS_SAVED", "CLASSIFIED"}
         /\ target = "TASK_CREATED" => cur = "CLASSIFIED"
         /\ cur \in PipelineStates
<1>1. /\ Pipeline[1] = "DISCOVERED" /\ Pipeline[2] = "FETCHED" /\ Pipeline[3] = "ATTACHMENTS_SAVED"
      /\ Pipeline[4] = "CLASSIFIED" /\ Pipeline[5] = "TASK_CREATED" /\ Pipeline[6] = "MOVED"
      /\ Pipeline[7] = "COMPLETED"
  BY DEF Pipeline
<1>2. ASSUME NEW i \in 1..6, cur = Pipeline[i], target = Pipeline[i + 1]
      PROVE  \/ cur = "DISCOVERED" /\ target = "FETCHED"
             \/ cur = "FETCHED" /\ target = "ATTACHMENTS_SAVED"
             \/ cur = "ATTACHMENTS_SAVED" /\ target = "CLASSIFIED"
             \/ cur = "CLASSIFIED" /\ target = "TASK_CREATED"
             \/ cur = "TASK_CREATED" /\ target = "MOVED"
             \/ cur = "MOVED" /\ target = "COMPLETED"
  <2>1. i = 1 \/ i = 2 \/ i = 3 \/ i = 4 \/ i = 5 \/ i = 6
    BY <1>2
  <2>2. QED
    BY <1>1, <1>2, <2>1
<1>3. QED
  BY <1>2, StatesAre DEF AllowedForward, Failures

\* What a transition that the table allows leaves.
LEMMA TransitionIs ==
  ASSUME NEW row \in EmailRows \cup {NoMail}, row.state # "FAILED_RETRYABLE",
         NEW target \in {"FETCHED", "ATTACHMENTS_SAVED", "CLASSIFIED", "TASK_CREATED", "FAILED_REVIEW"},
         ValidTransition(row, target)
  PROVE  /\ row # NoMail /\ row.state \in PipelineStates
         /\ target = "FETCHED" => row.state = "DISCOVERED"
         /\ target = "ATTACHMENTS_SAVED" => row.state = "FETCHED"
         /\ target = "CLASSIFIED" => row.state \in {"ATTACHMENTS_SAVED", "CLASSIFIED"}
         /\ target = "TASK_CREATED" => row.state = "CLASSIFIED"
         /\ Transitioned(row, target) \in EmailRows \cup {NoMail} /\ Transitioned(row, target).state = target
         /\ Transitioned(row, target) # NoMail
<1>1. AllowedForward(row.state, target)
  BY DEF ValidTransition
<1>2. row.state \in PipelineStates /\ row # NoMail /\ row \in EmailRows
  BY <1>1, AllowedAre, StatesAre DEF NoMail
<1>3. row.resume \in PipelineStates \cup {"NONE"} /\ row.retries \in Nat
  BY <1>2 DEF EmailRows
<1>4. PICK rs : rs = CASE target \notin Failures -> "NONE"
                      [] target \in Failures /\ row.state \notin Failures -> row.state
                      [] OTHER -> row.resume
  OBVIOUS
<1>5. rs \in PipelineStates \cup {"NONE"}
  BY <1>2, <1>3, <1>4
<1>6. PICK rt : rt = row.retries + IF target = "FAILED_RETRYABLE" THEN 1 ELSE 0
  OBVIOUS
<1>7. rt \in Nat
  BY <1>3, <1>6
<1>8. Transitioned(row, target) = [state |-> target, resume |-> rs, retries |-> rt]
  BY <1>4, <1>6 DEF Transitioned
<1>9. target \in EmailStates
  BY StatesAre DEF EmailStates, Failures
<1>10. /\ Transitioned(row, target) \in EmailRows /\ Transitioned(row, target).state = target
       /\ Transitioned(row, target) # NoMail
  BY <1>5, <1>7, <1>8, <1>9 DEF EmailRows, NoMail
<1>11. QED
  BY <1>1, <1>2, <1>10, AllowedAre

\* The two jobs, and that one of them may be claimed.
JobRowOK(j) ==
  /\ j \in IntakeJobs /\ (j.status = "RUNNING" => j.attempts > 0)
  /\ j.status = "PENDING" => j.attempts < IntakeMax
JobsOK == ijobs \in [JobKinds -> IntakeJobs] /\ \A k \in JobKinds : JobRowOK(ijobs[k])

LEMMA JobRowsAre ==
  ASSUME NEW j, JobRowOK(j), NEW again \in BOOLEAN
  PROVE  /\ JobRowOK(NoIntakeJob) /\ JobRowOK([NoIntakeJob EXCEPT !.status = "PENDING"])
         /\ JobRowOK([status |-> "PENDING", attempts |-> 0, again |-> again])
         /\ JobRowOK(Requeued(j)) 
         /\ j.status = "PENDING" => JobRowOK([j EXCEPT !.status = "RUNNING", !.attempts = j.attempts + 1])
         /\ j.status = "NONE" /\ j.attempts = 0 => JobRowOK([j EXCEPT !.status = "PENDING"])
<1>0. IntakeMax \in Nat /\ 0 < IntakeMax /\ 0 \in 0..IntakeMax /\ j.attempts \in 0..IntakeMax /\ j.attempts \in Nat
      /\ j \in IntakeJobs
  BY IntakeAssumption DEF JobRowOK, IntakeJobs
<1>1. JobRowOK(NoIntakeJob)
  BY <1>0 DEF JobRowOK, NoIntakeJob, IntakeJobs
<1>2. JobRowOK([NoIntakeJob EXCEPT !.status = "PENDING"])
  <2>1. PICK r : r = [NoIntakeJob EXCEPT !.status = "PENDING"]
    OBVIOUS
  <2>2. r \in IntakeJobs /\ r.status = "PENDING" /\ r.attempts = 0
    BY <1>0, <2>1 DEF NoIntakeJob, IntakeJobs
  <2>3. QED
    BY <1>0, <2>1, <2>2 DEF JobRowOK
<1>3. JobRowOK([status |-> "PENDING", attempts |-> 0, again |-> again])
  BY <1>0 DEF JobRowOK, IntakeJobs
<1>4. JobRowOK(Requeued(j))
  <2>1. PICK p : p = [j EXCEPT !.status = "PENDING"]
    OBVIOUS
  <2>2. PICK q : q = [j EXCEPT !.status = "FAILED_REVIEW"]
    OBVIOUS
  <2>3. p \in IntakeJobs /\ p.status = "PENDING" /\ p.attempts = j.attempts
    BY <1>0, <2>1 DEF IntakeJobs
  <2>4. q \in IntakeJobs /\ q.status = "FAILED_REVIEW"
    BY <1>0, <2>2 DEF IntakeJobs
  <2>5. CASE j.attempts < IntakeMax
    <3>1. Requeued(j) = p
      BY <2>1, <2>5 DEF Requeued
    <3>2. QED
      BY <2>3, <2>5, <3>1 DEF JobRowOK
  <2>6. CASE ~(j.attempts < IntakeMax)
    <3>1. Requeued(j) = q
      BY <2>2, <2>6 DEF Requeued
    <3>2. QED
      BY <2>4, <3>1 DEF JobRowOK
  <2>7. QED
    BY <2>5, <2>6
<1>5. ASSUME j.status = "PENDING"
      PROVE  JobRowOK([j EXCEPT !.status = "RUNNING", !.attempts = j.attempts + 1])
  <2>1. PICK r : r = [j EXCEPT !.status = "RUNNING", !.attempts = j.attempts + 1]
    OBVIOUS
  <2>2. j.attempts + 1 \in 0..IntakeMax /\ j.attempts + 1 > 0
    BY <1>0, <1>5 DEF JobRowOK
  <2>3. r \in IntakeJobs /\ r.status = "RUNNING" /\ r.attempts = j.attempts + 1
    BY <1>0, <2>1, <2>2 DEF IntakeJobs
  <2>4. QED
    BY <2>1, <2>2, <2>3 DEF JobRowOK
<1>6. ASSUME j.status = "NONE", j.attempts = 0
      PROVE  JobRowOK([j EXCEPT !.status = "PENDING"])
  <2>1. PICK r : r = [j EXCEPT !.status = "PENDING"]
    OBVIOUS
  <2>2. r \in IntakeJobs /\ r.status = "PENDING" /\ r.attempts = 0
    BY <1>0, <1>6, <2>1 DEF IntakeJobs
  <2>3. QED
    BY <1>0, <2>1, <2>2 DEF JobRowOK
<1>7. QED
  BY <1>1, <1>2, <1>3, <1>4, <1>5, <1>6

LEMMA JobsSet ==
  ASSUME JobsOK, NEW k \in JobKinds, NEW r, JobRowOK(r), ijobs' = [ijobs EXCEPT ![k] = r]
  PROVE  JobsOK' /\ ijobs'[k] = r /\ \A l \in JobKinds : l # k => ijobs'[l] = ijobs[l]
<1>1. r \in IntakeJobs
  BY DEF JobRowOK
<1>2. ijobs' \in [JobKinds -> IntakeJobs] /\ ijobs'[k] = r /\ \A l \in JobKinds : l # k => ijobs'[l] = ijobs[l]
  BY <1>1 DEF JobsOK
<1>3. \A l \in JobKinds : JobRowOK(ijobs'[l])
  BY <1>2 DEF JobsOK
<1>4. QED
  BY <1>2, <1>3 DEF JobsOK, JobRowOK

\* The row of the message is discovered once and then moves along the table, or stays.
LEMMA MailMoves ==
  ASSUME IntakeIInv, IntakeNext
  PROVE  \/ mail' = mail
         \/ mail = NoMail /\ mail' = [NoMail EXCEPT !.state = "DISCOVERED"]
         \/ \E target \in {"FETCHED", "ATTACHMENTS_SAVED", "CLASSIFIED", "TASK_CREATED", "FAILED_REVIEW"} :
              ValidTransition(mail, target) /\ mail' = Transitioned(mail, target)
BY DEF IntakeNext, IntakeStep, IntakeClaim, IntakeDone, IntakeFailed, IngestStarts, StoreEvidence, Fetched,
   StoreParts, PartsSaved, QueueClassification, GoneFails, ClassifyReads, ClassifyStores, IntakeRequestFails,
   IntakerLapses, TooManyParts, MessageGone, DiscoverMessage, RequestIngest, ReviewStep, ClaimReview, ReleaseReview,
   Decide, RequestClassification, ClaimExpires, CreateTask, IntakeMoves

LEMMA MailTypes ==
  ASSUME IntakeIInv, IntakeNext
  PROVE  /\ mail' \in EmailRows \cup {NoMail} /\ mail'.state # "FAILED_RETRYABLE"
         /\ mail # NoMail => mail' # NoMail
<1>0. mail \in EmailRows \cup {NoMail} /\ mail.state # "FAILED_RETRYABLE"
  BY DEF IntakeIInv, IntakeTypeOK, TaskClosesMail
<1>1. CASE mail' = mail
  BY <1>0, <1>1
<1>2. CASE mail = NoMail /\ mail' = [NoMail EXCEPT !.state = "DISCOVERED"]
  <2>1. "DISCOVERED" \in EmailStates
    BY StatesAre DEF EmailStates
  <2>2. QED
    BY <1>2, <2>1 DEF NoMail, EmailRows
<1>3. ASSUME NEW target \in {"FETCHED", "ATTACHMENTS_SAVED", "CLASSIFIED", "TASK_CREATED", "FAILED_REVIEW"},
             ValidTransition(mail, target), mail' = Transitioned(mail, target)
      PROVE  /\ mail' \in EmailRows \cup {NoMail} /\ mail'.state # "FAILED_RETRYABLE"
             /\ mail # NoMail => mail' # NoMail
  <2>1. /\ Transitioned(mail, target) \in EmailRows \cup {NoMail} /\ Transitioned(mail, target).state = target
        /\ Transitioned(mail, target) # NoMail
    BY <1>0, <1>3, TransitionIs
  <2>2. QED
    BY <1>3, <2>1
<1>4. QED
  BY <1>1, <1>2, <1>3, MailMoves

LEMMA JobsKeep ==
  ASSUME IntakeIInv, IntakeNext
  PROVE  JobsOK' /\ (mail' = NoMail => ijobs'["ingest"].status = "NONE" /\ ijobs'["ingest"].attempts = 0)
<1>0. /\ JobsOK /\ iw \in [Intakers -> IntakerStates]
      /\ \A w \in Intakers : iw[w].job \in JobKinds
      /\ mail = NoMail => ijobs["ingest"].status = "NONE" /\ ijobs["ingest"].attempts = 0
      /\ mail # NoMail => mail' # NoMail
  <2>1. ijobs \in [JobKinds -> IntakeJobs]
    BY DEF IntakeIInv, IntakeTypeOK
  <2>2. JobsOK
    BY <2>1 DEF IntakeIInv, IntakeTypeOK, IntakeJobsHaveAttempts, JobsOK, JobRowOK
  <2>3. iw \in [Intakers -> IntakerStates]
    BY DEF IntakeIInv, IntakeTypeOK, IntakerStates, IntakerPcs
  <2>4. QED
    BY <2>2, <2>3, MailTypes DEF IntakeIInv, IntakeJobsHaveAttempts, IntakerStates
<1>1. ASSUME NEW k \in JobKinds, NEW r, JobRowOK(r), ijobs' = [ijobs EXCEPT ![k] = r],
             k = "ingest" /\ mail = NoMail /\ mail' = NoMail => r.status = "NONE" /\ r.attempts = 0
      PROVE  JobsOK' /\ (mail' = NoMail => ijobs'["ingest"].status = "NONE" /\ ijobs'["ingest"].attempts = 0)
  <2>1. JobsOK' /\ ijobs'[k] = r /\ \A l \in JobKinds : l # k => ijobs'[l] = ijobs[l]
    BY <1>0, <1>1, JobsSet
  <2>2. "ingest" \in JobKinds
    BY DEF JobKinds
  <2>3. QED
    BY <1>0, <1>1, <2>1, <2>2
<1>2. \A k \in JobKinds : JobRowOK(ijobs[k])
  BY <1>0 DEF JobsOK
<1>3. ASSUME NEW w \in Intakers, NEW k \in JobKinds, IntakeClaim(w, k)
      PROVE  JobsOK' /\ (mail' = NoMail => ijobs'["ingest"].status = "NONE" /\ ijobs'["ingest"].attempts = 0)
  <2>1. PICK r : r = [ijobs[k] EXCEPT !.status = "RUNNING", !.attempts = ijobs[k].attempts + 1]
    OBVIOUS
  <2>2. ijobs[k].status = "PENDING"
    BY <1>3 DEF IntakeClaim
  <2>3. JobRowOK(r)
    BY <1>2, <2>1, <2>2, JobRowsAre
  <2>4. ijobs' = [ijobs EXCEPT ![k] = r]
    BY <1>0, <1>3, <2>1 DEF IntakeClaim, JobsOK
  <2>5. QED
    BY <1>0, <1>1, <2>2, <2>3, <2>4
<1>4. ASSUME NEW w \in Intakers, IntakeDone(w) \/ IntakeFailed(w) \/ IntakerLapses(w)
      PROVE  JobsOK' /\ (mail' = NoMail => ijobs'["ingest"].status = "NONE" /\ ijobs'["ingest"].attempts = 0)
  <2>0. PICK k \in JobKinds : k = iw[w].job
    BY <1>0
  <2>1. PICK r : /\ ijobs' = [ijobs EXCEPT ![k] = r]
                 /\ \/ r = NoIntakeJob
                    \/ r = ijobs[k]
                    \/ r = Requeued(ijobs[k]) /\ ijobs[k].status = "RUNNING"
    BY <1>4, <2>0 DEF IntakeDone, IntakeFailed, IntakerLapses
  <2>2. JobRowOK(r)
    BY <1>2, <2>1, JobRowsAre
  <2>3. k = "ingest" /\ mail = NoMail => r.status = "NONE" /\ r.attempts = 0
    BY <1>0, <2>1 DEF NoIntakeJob
  <2>4. QED
    BY <1>1, <2>1, <2>2, <2>3
<1>5. ASSUME NEW again \in BOOLEAN, ijobs' = WithClassifyJob(again)
      PROVE  JobsOK' /\ (mail' = NoMail => ijobs'["ingest"].status = "NONE" /\ ijobs'["ingest"].attempts = 0)
  <2>0. PICK k \in JobKinds : k = "classify"
    BY DEF JobKinds
  <2>1. PICK r : /\ ijobs' = [ijobs EXCEPT ![k] = r]
                 /\ r = ijobs[k] \/ r = [status |-> "PENDING", attempts |-> 0, again |-> again]
    BY <1>5, <2>0 DEF WithClassifyJob
  <2>2. JobRowOK(r)
    BY <1>2, <2>1, JobRowsAre
  <2>3. QED
    BY <1>1, <2>0, <2>1, <2>2
<1>6. ASSUME DiscoverMessage \/ RequestIngest
      PROVE  JobsOK' /\ (mail' = NoMail => ijobs'["ingest"].status = "NONE" /\ ijobs'["ingest"].attempts = 0)
  <2>0. PICK k \in JobKinds : k = "ingest"
    BY DEF JobKinds
  <2>a. CASE DiscoverMessage
    <3>1. PICK r : r = [ijobs[k] EXCEPT !.status = "PENDING"]
      OBVIOUS
    <3>2. ijobs' = [ijobs EXCEPT ![k] = r] /\ mail = NoMail
      BY <1>0, <2>0, <2>a, <3>1 DEF DiscoverMessage, JobsOK
    <3>3. JobRowOK(r)
      BY <1>0, <1>2, <2>0, <3>1, <3>2, JobRowsAre
    <3>4. mail' # NoMail
      BY <2>a DEF DiscoverMessage, NoMail
    <3>5. QED
      BY <1>1, <3>2, <3>3, <3>4
  <2>b. CASE RequestIngest
    <3>1. PICK r : r = [NoIntakeJob EXCEPT !.status = "PENDING"]
      OBVIOUS
    <3>2. ijobs' = [ijobs EXCEPT ![k] = r] /\ mail # NoMail
      BY <2>0, <2>b, <3>1 DEF RequestIngest
    <3>3. JobRowOK(r)
      BY <1>2, <2>0, <3>1, JobRowsAre
    <3>4. QED
      BY <1>1, <3>2, <3>3
  <2>1. QED
    BY <1>6, <2>a, <2>b
<1>7. ASSUME ijobs' = ijobs
      PROVE  JobsOK' /\ (mail' = NoMail => ijobs'["ingest"].status = "NONE" /\ ijobs'["ingest"].attempts = 0)
  BY <1>0, <1>7 DEF JobsOK, JobRowOK
<1>8. \/ \E w \in Intakers : \/ \E k \in JobKinds : IntakeClaim(w, k)
                             \/ IntakeDone(w) \/ IntakeFailed(w) \/ IntakerLapses(w)
      \/ \E again \in BOOLEAN : ijobs' = WithClassifyJob(again)
      \/ DiscoverMessage \/ RequestIngest \/ ijobs' = ijobs
  <2>1. ASSUME RequestClassification
        PROVE  \E again \in BOOLEAN : ijobs' = WithClassifyJob(again)
    <3>1. CASE mail.state = "CLASSIFIED"
      <4>1. (mail.state = "CLASSIFIED") = TRUE
        BY <3>1
      <4>2. QED
        BY <2>1, <4>1 DEF RequestClassification
    <3>2. CASE mail.state # "CLASSIFIED"
      <4>1. (mail.state = "CLASSIFIED") = FALSE
        BY <3>2
      <4>2. QED
        BY <2>1, <4>1 DEF RequestClassification
    <3>3. QED
      BY <3>1, <3>2
  <2>2. QED
    BY <2>1 DEF IntakeNext, IntakeStep, IngestStarts, StoreEvidence, Fetched,
     StoreParts, PartsSaved, QueueClassification, GoneFails, ClassifyReads, ClassifyStores, IntakeRequestFails,
     TooManyParts, MessageGone, ReviewStep, ClaimReview, ReleaseReview,
     Decide, ClaimExpires, CreateTask
<1>9. QED
  BY <1>3, <1>4, <1>5, <1>6, <1>7, <1>8

(***************************************************************************)
(* The intake: sessions, evidence and tasks                                *)
(***************************************************************************)

LEMMA IntakerGoes ==
  ASSUME iw \in [Intakers -> IntakerStates], NEW w \in Intakers, NEW pc \in IntakerPcs, IntakeGoTo(w, pc)
  PROVE  /\ iw' \in [Intakers -> IntakerStates] /\ iw'[w].pc = pc
         /\ \A v \in Intakers : v # w => iw'[v] = iw[v]
<1>1. PICK r : r = [iw[w] EXCEPT !.pc = pc]
  OBVIOUS
<1>2. r \in IntakerStates /\ r.pc = pc
  BY <1>1 DEF IntakerStates
<1>3. iw' = [iw EXCEPT ![w] = r]
  BY <1>1 DEF IntakeGoTo
<1>4. QED
  BY <1>2, <1>3

\* Where a session may go, and what is behind it then.
SessionMoved(w) ==
  \/ iw'[w].pc = iw[w].pc
  \/ iw'[w].pc \notin {"fetched", "parts", "saved"}
  \/ iw'[w].pc = "fetched" /\ evidence'
  \/ iw'[w].pc = "parts" /\ (mail.state = "FETCHED" \/ iw[w].pc = "fetched")
  \/ iw'[w].pc = "saved" /\ iw[w].pc = "parts" /\ saved' = Parts

LEMMA IntakersMove ==
  ASSUME IntakeIInv, IntakeNext
  PROVE  iw' \in [Intakers -> IntakerStates] /\ \A v \in Intakers : SessionMoved(v)
<1>0. iw \in [Intakers -> IntakerStates]
  BY DEF IntakeIInv, IntakeTypeOK, IntakerStates, IntakerPcs
<1>1. ASSUME iw' = iw
      PROVE  iw' \in [Intakers -> IntakerStates] /\ \A v \in Intakers : SessionMoved(v)
  BY <1>0, <1>1 DEF SessionMoved
<1>2. ASSUME NEW w \in Intakers, NEW r \in IntakerStates, iw' = [iw EXCEPT ![w] = r], r.pc \in {"idle", "start"}
      PROVE  iw' \in [Intakers -> IntakerStates] /\ \A v \in Intakers : SessionMoved(v)
  <2>1. iw' \in [Intakers -> IntakerStates] /\ iw'[w] = r /\ \A v \in Intakers : v # w => iw'[v] = iw[v]
    BY <1>0, <1>2
  <2>2. QED
    BY <1>2, <2>1 DEF SessionMoved
<1>3. ASSUME NEW w \in Intakers, NEW pc \in IntakerPcs, IntakeGoTo(w, pc),
             \/ pc \notin {"fetched", "parts", "saved"}
             \/ pc = "fetched" /\ evidence'
             \/ pc = "parts" /\ (mail.state = "FETCHED" \/ iw[w].pc = "fetched")
             \/ pc = "saved" /\ iw[w].pc = "parts" /\ saved' = Parts
      PROVE  iw' \in [Intakers -> IntakerStates] /\ \A v \in Intakers : SessionMoved(v)
  <2>1. iw' \in [Intakers -> IntakerStates] /\ iw'[w].pc = pc /\ \A v \in Intakers : v # w => iw'[v] = iw[v]
    BY <1>0, <1>3, IntakerGoes
  <2>2. QED
    BY <1>3, <2>1 DEF SessionMoved
<1>4. IdleIntaker \in IntakerStates /\ IdleIntaker.pc = "idle"
  BY DEF IdleIntaker, IntakerStates, IntakerPcs, JobKinds
<1>5. ASSUME NEW w \in Intakers, NEW k \in JobKinds, IntakeClaim(w, k)
      PROVE  iw' \in [Intakers -> IntakerStates] /\ \A v \in Intakers : SessionMoved(v)
  <2>1. ijobs[k].again \in BOOLEAN
    BY DEF IntakeIInv, IntakeTypeOK, IntakeJobs
  <2>2. PICK r : r = [pc |-> "start", job |-> k, again |-> ijobs[k].again]
    OBVIOUS
  <2>3. r \in IntakerStates /\ r.pc = "start"
    BY <2>1, <2>2 DEF IntakerStates, IntakerPcs
  <2>4. iw' = [iw EXCEPT ![w] = r]
    BY <1>5, <2>2 DEF IntakeClaim
  <2>5. QED
    BY <1>2, <2>3, <2>4
<1>6. ASSUME NEW w \in Intakers, IntakeDone(w) \/ IntakeFailed(w) \/ IntakerLapses(w)
      PROVE  iw' \in [Intakers -> IntakerStates] /\ \A v \in Intakers : SessionMoved(v)
  BY <1>1, <1>2, <1>4, <1>6 DEF IntakeDone, IntakeFailed, IntakerLapses
<1>7. ASSUME NEW w \in Intakers,
             \/ IntakeRequestFails(w) \/ TooManyParts(w) \/ MessageGone(w) \/ PartsSaved(w) \/ QueueClassification(w)
             \/ GoneFails(w) \/ ClassifyReads(w) \/ ClassifyStores(w)
      PROVE  iw' \in [Intakers -> IntakerStates] /\ \A v \in Intakers : SessionMoved(v)
  <2>1. \E pc \in {"failed", "done", "gone", "queue", "model"} : IntakeGoTo(w, pc)
    BY <1>7 DEF IntakeRequestFails, TooManyParts, MessageGone, PartsSaved, QueueClassification,
       GoneFails, ClassifyReads, ClassifyStores, IntakeMoves
  <2>2. QED
    BY <1>3, <2>1 DEF IntakerPcs
<1>8. ASSUME NEW w \in Intakers, IngestStarts(w) \/ StoreEvidence(w) \/ Fetched(w) \/ StoreParts(w)
      PROVE  iw' \in [Intakers -> IntakerStates] /\ \A v \in Intakers : SessionMoved(v)
  <2>1. \E pc \in IntakerPcs :
          /\ IntakeGoTo(w, pc)
          /\ \/ pc \notin {"fetched", "parts", "saved"}
             \/ pc = "fetched" /\ evidence'
             \/ pc = "parts" /\ (mail.state = "FETCHED" \/ iw[w].pc = "fetched")
             \/ pc = "saved" /\ iw[w].pc = "parts" /\ saved' = Parts
    <3>1. CASE IngestStarts(w)
      <4>1. PICK pc : pc = CASE mail.state = "DISCOVERED" -> "store"
                             [] mail.state = "FETCHED" -> "parts"
                             [] OTHER -> "done"
        OBVIOUS
      <4>2. IntakeGoTo(w, pc)
        BY <3>1, <4>1 DEF IngestStarts
      <4>3. pc \in {"store", "parts", "done"} /\ (pc = "parts" => mail.state = "FETCHED")
        BY <4>1
      <4>4. QED
        BY <4>2, <4>3 DEF IntakerPcs
    <3>2. CASE StoreEvidence(w) \/ Fetched(w) \/ StoreParts(w)
      BY <3>2 DEF StoreEvidence, Fetched, StoreParts, IntakeMoves, IntakerPcs
    <3>3. QED
      BY <1>8, <3>1, <3>2
  <2>2. QED
    BY <1>3, <2>1
<1>9. ASSUME \/ DiscoverMessage \/ RequestIngest \/ ReviewStep \/ RequestClassification
             \/ \E v \in DOMAIN versions : ClaimExpires(v) \/ CreateTask(v)
      PROVE  iw' = iw
  BY <1>9 DEF DiscoverMessage, RequestIngest, ReviewStep, ClaimReview, ReleaseReview, Decide, RequestClassification,
     ClaimExpires, CreateTask
<1>10. QED
  BY <1>1, <1>5, <1>6, <1>7, <1>8, <1>9 DEF IntakeNext, IntakeStep

\* Evidence is never taken back.
LEMMA EvidenceStays ==
  ASSUME IntakeIInv, IntakeNext
  PROVE  /\ evidence \in BOOLEAN /\ evidence' \in BOOLEAN /\ (evidence => evidence')
         /\ saved' \subseteq Parts /\ (saved = Parts => saved' = Parts)
<1>1. evidence \in BOOLEAN /\ saved \subseteq Parts
  BY DEF IntakeIInv, IntakeTypeOK
<1>2. evidence' \in {evidence, TRUE} /\ saved' \in {saved, Parts}
  BY DEF IntakeNext, IntakeStep, IntakeClaim, IntakeDone, IntakeFailed, IngestStarts, StoreEvidence, Fetched,
     StoreParts, PartsSaved, QueueClassification, GoneFails, ClassifyReads, ClassifyStores, IntakeRequestFails,
     IntakerLapses, TooManyParts, MessageGone, DiscoverMessage, RequestIngest, ReviewStep, ClaimReview, ReleaseReview,
     Decide, RequestClassification, ClaimExpires, CreateTask
<1>3. evidence' \in BOOLEAN /\ (evidence => evidence')
  <2>1. CASE evidence' = evidence
    BY <1>1, <2>1
  <2>2. CASE evidence' = TRUE
    BY <2>2
  <2>3. QED
    BY <1>2, <2>1, <2>2
<1>4. QED
  BY <1>1, <1>2, <1>3

\* Versions are appended and reviewed in place; the classifications stay numbered.
LEMMA VersionsKeep ==
  ASSUME IntakeIInv, IntakeNext
  PROVE  versions' \in Seq(ReviewRows) /\ Len(versions') <= MaxVersions /\ DOMAIN versions \subseteq DOMAIN versions'
<1>0. versions \in Seq(ReviewRows) /\ Len(versions) \in Nat /\ Len(versions) <= MaxVersions /\ MaxVersions \in Nat
  BY IntakeAssumption DEF IntakeIInv, IntakeTypeOK
<1>1. CASE versions' = versions
  BY <1>0, <1>1
<1>2. ASSUME NEW v \in DOMAIN versions, NEW r \in ReviewRows, versions' = [versions EXCEPT ![v] = r]
      PROVE  versions' \in Seq(ReviewRows) /\ Len(versions') = Len(versions) /\ DOMAIN versions' = DOMAIN versions
  BY <1>0, <1>2, ExceptSeq
<1>3. ASSUME NEW r \in ReviewRows, versions' = Append(versions, r), Len(versions) < MaxVersions
      PROVE  versions' \in Seq(ReviewRows) /\ Len(versions') <= MaxVersions /\ DOMAIN versions \subseteq DOMAIN versions'
  <2>1. versions' \in Seq(ReviewRows) /\ Len(versions') = Len(versions) + 1
    BY <1>0, <1>3, AppendProperties
  <2>2. DOMAIN versions = 1..Len(versions) /\ DOMAIN versions' = 1..Len(versions')
    BY <1>0, <2>1
  <2>3. QED
    BY <1>0, <1>3, <2>1, <2>2
<1>4. \/ versions' = versions
      \/ \E v \in DOMAIN versions, r \in ReviewRows : versions' = [versions EXCEPT ![v] = r]
      \/ \E r \in ReviewRows : versions' = Append(versions, r) /\ Len(versions) < MaxVersions
  <2>1. ASSUME NEW w \in Intakers, ClassifyStores(w)
        PROVE  versions' = versions \/ \E r \in ReviewRows : versions' = Append(versions, r) /\ Len(versions) < MaxVersions
    <3>1. [decision |-> "PENDING", by |-> "none", held |-> FALSE] \in ReviewRows
      BY DEF ReviewRows, Decisions
    <3>2. QED
      BY <2>1, <3>1 DEF ClassifyStores
  <2>2. ASSUME NEW v \in DOMAIN versions, NEW r \in Reviewers,
               \/ ClaimReview(v, r) \/ ReleaseReview(v, r) \/ ClaimExpires(v)
               \/ \E d \in Decisions \ {"PENDING", "IN_REVIEW"} : Decide(v, r, d)
        PROVE  \E q \in ReviewRows : versions' = [versions EXCEPT ![v] = q]
    <3>0. versions[v] \in ReviewRows
      BY <1>0
    <3>1. CASE ClaimReview(v, r) \/ ReleaseReview(v, r)
      <4>1. /\ [decision |-> "IN_REVIEW", by |-> r, held |-> TRUE] \in ReviewRows
            /\ [decision |-> "PENDING", by |-> "none", held |-> FALSE] \in ReviewRows
        BY DEF ReviewRows, Decisions
      <4>2. QED
        BY <3>1, <4>1 DEF ClaimReview, ReleaseReview
    <3>2. CASE ClaimExpires(v)
      <4>1. PICK q : q = [versions[v] EXCEPT !.held = FALSE]
        OBVIOUS
      <4>2. q \in ReviewRows
        BY <3>0, <4>1 DEF ReviewRows
      <4>3. versions' = [versions EXCEPT ![v] = q]
        BY <3>2, <4>1 DEF ClaimExpires
      <4>4. QED
        BY <4>2, <4>3
    <3>3. ASSUME NEW d \in Decisions, Decide(v, r, d)
          PROVE  \E q \in ReviewRows : versions' = [versions EXCEPT ![v] = q]
      <4>1. PICK q : q = [versions[v] EXCEPT !.decision = d, !.by = r]
        OBVIOUS
      <4>2. q \in ReviewRows
        BY <3>0, <4>1 DEF ReviewRows
      <4>3. versions' = [versions EXCEPT ![v] = q]
        BY <3>3, <4>1 DEF Decide
      <4>4. QED
        BY <4>2, <4>3
    <3>4. QED
      BY <2>2, <3>1, <3>2, <3>3
  <2>3. ASSUME NEW v \in DOMAIN versions, ClaimExpires(v)
        PROVE  \E q \in ReviewRows : versions' = [versions EXCEPT ![v] = q]
    <3>0. versions[v] \in ReviewRows
      BY <1>0
    <3>1. PICK q : q = [versions[v] EXCEPT !.held = FALSE]
      OBVIOUS
    <3>2. q \in ReviewRows
      BY <3>0, <3>1 DEF ReviewRows
    <3>3. versions' = [versions EXCEPT ![v] = q]
      BY <2>3, <3>1 DEF ClaimExpires
    <3>4. QED
      BY <3>2, <3>3
  <2>4. CASE ReviewStep
    BY <2>2, <2>4 DEF ReviewStep
  <2>5. QED
    BY <2>1, <2>3, <2>4
     DEF IntakeNext, IntakeStep, IntakeClaim, IntakeDone, IntakeFailed, IngestStarts, StoreEvidence, Fetched,
     StoreParts, PartsSaved, QueueClassification, GoneFails, ClassifyReads, IntakeRequestFails,
     IntakerLapses, TooManyParts, MessageGone, DiscoverMessage, RequestIngest, RequestClassification, CreateTask
<1>5. QED
  BY <1>0, <1>1, <1>2, <1>3, <1>4

LEMMA IntakeStarts == IntakeInit => IntakeIInv
<1> SUFFICES ASSUME IntakeInit
             PROVE  IntakeIInv
  OBVIOUS
<1>0. 0 \in 0..IntakeMax /\ 0 \in 0..MaxIntakeFaults /\ 0 <= MaxVersions
  BY IntakeAssumption
<1>1. NoIntakeJob \in IntakeJobs /\ NoIntakeJob.status = "NONE" /\ NoIntakeJob.attempts = 0
  BY <1>0 DEF NoIntakeJob, IntakeJobs
<1>2. IdleIntaker \in IntakerStates /\ IdleIntaker.pc = "idle"
  BY DEF IdleIntaker, IntakerStates, IntakerPcs, JobKinds
<1>3. mail.state = "NONE"
  BY DEF IntakeInit, NoMail
<1>4. IntakeTypeOK
  <2>1. versions \in Seq(ReviewRows) /\ Len(versions) = 0 /\ tasks \subseteq DOMAIN versions
    BY DEF IntakeInit
  <2>2. QED
    BY <1>0, <1>1, <1>2, <2>1 DEF IntakeInit, IntakeTypeOK, IntakerStates, IntakerPcs
<1>5. IntakeJobsHaveAttempts /\ SessionsHaveEvidence
  BY <1>1, <1>2 DEF IntakeInit, IntakeJobsHaveAttempts, SessionsHaveEvidence, JobKinds
<1>6. EvidenceIsBehindState /\ TaskClosesMail
  BY <1>3, StatesAre DEF IntakeInit, EvidenceIsBehindState, TaskClosesMail
<1>7. QED
  BY <1>4, <1>5, <1>6 DEF IntakeIInv

LEMMA IntakeStays == IntakeIInv /\ [IntakeNext]_intakeVars => IntakeIInv'
<1>1. ASSUME IntakeIInv, IntakeNext
      PROVE  IntakeIInv'
  <2>0. /\ mail \in EmailRows \cup {NoMail} /\ mail.state # "FAILED_RETRYABLE"
        /\ evidence \in BOOLEAN /\ evidence' \in BOOLEAN /\ (evidence => evidence')
        /\ saved' \subseteq Parts /\ (saved = Parts => saved' = Parts)
        /\ EvidenceIsBehindState /\ SessionsHaveEvidence /\ TaskClosesMail
    BY <1>1, EvidenceStays DEF IntakeIInv, IntakeTypeOK, TaskClosesMail
  <2>1. /\ mail' \in EmailRows \cup {NoMail} /\ mail'.state # "FAILED_RETRYABLE"
    BY <1>1, MailTypes
  <2>2. /\ ijobs' \in [JobKinds -> IntakeJobs] /\ IntakeJobsHaveAttempts'
        /\ \A k \in JobKinds : ijobs'[k].status = "RUNNING" => ijobs'[k].attempts > 0
    BY <1>1, JobsKeep DEF JobsOK, JobRowOK, IntakeJobsHaveAttempts
  <2>3. SessionsHaveEvidence'
    <3>1. ASSUME NEW w \in Intakers
          PROVE  /\ iw'[w].pc \in {"fetched", "parts", "saved"} => evidence'
                 /\ iw'[w].pc = "saved" => saved' = Parts
      <4>1. SessionMoved(w)
        BY <1>1, IntakersMove
      <4>2. mail.state = "FETCHED" => evidence
        BY <2>0, StatesAre DEF EvidenceIsBehindState
      <4>3. /\ iw[w].pc \in {"fetched", "parts", "saved"} => evidence
            /\ iw[w].pc = "saved" => saved = Parts
        BY <2>0 DEF SessionsHaveEvidence
      <4>4. QED
        BY <2>0, <4>1, <4>2, <4>3 DEF SessionMoved
    <3>2. QED
      BY <3>1 DEF SessionsHaveEvidence
  <2>4. EvidenceIsBehindState'
    <3>1. CASE mail' = mail
      BY <2>0, <3>1 DEF EvidenceIsBehindState
    <3>2. CASE mail = NoMail /\ mail' = [NoMail EXCEPT !.state = "DISCOVERED"]
      <4>1. mail'.state = "DISCOVERED"
        BY <3>2 DEF NoMail
      <4>2. QED
        BY <4>1 DEF EvidenceIsBehindState
    <3>3. ASSUME NEW target \in {"FETCHED", "ATTACHMENTS_SAVED", "CLASSIFIED", "TASK_CREATED", "FAILED_REVIEW"},
                 ValidTransition(mail, target), mail' = Transitioned(mail, target),
                 /\ target \in {"FETCHED", "ATTACHMENTS_SAVED"} => evidence
                 /\ target = "ATTACHMENTS_SAVED" => saved = Parts
          PROVE  EvidenceIsBehindState'
      <4>1. /\ target = "CLASSIFIED" => mail.state \in {"ATTACHMENTS_SAVED", "CLASSIFIED"}
            /\ target = "TASK_CREATED" => mail.state = "CLASSIFIED" 
            /\ Transitioned(mail, target).state = target
        BY <2>0, <3>3, TransitionIs
      <4>2. QED
        BY <2>0, <3>3, <4>1, StatesAre DEF EvidenceIsBehindState
    <3>4. \/ mail' = mail
          \/ mail = NoMail /\ mail' = [NoMail EXCEPT !.state = "DISCOVERED"]
          \/ \E target \in {"FETCHED", "ATTACHMENTS_SAVED", "CLASSIFIED", "TASK_CREATED", "FAILED_REVIEW"} :
               /\ ValidTransition(mail, target) /\ mail' = Transitioned(mail, target)
               /\ target = "FETCHED" => \E w \in Intakers : iw[w].pc = "fetched"
               /\ target = "ATTACHMENTS_SAVED" => \E w \in Intakers : iw[w].pc = "saved"
      BY <1>1 DEF IntakeNext, IntakeStep, IntakeClaim, IntakeDone, IntakeFailed, IngestStarts, StoreEvidence, Fetched,
         StoreParts, PartsSaved, QueueClassification, GoneFails, ClassifyReads, ClassifyStores, IntakeRequestFails,
         IntakerLapses, TooManyParts, MessageGone, DiscoverMessage, RequestIngest, ReviewStep, ClaimReview,
         ReleaseReview, Decide, RequestClassification, ClaimExpires, CreateTask, IntakeMoves
    <3>5. QED
      BY <2>0, <3>1, <3>2, <3>3, <3>4 DEF SessionsHaveEvidence
  <2>5. TaskClosesMail' /\ tasks' \subseteq DOMAIN versions'
    <3>0. tasks \subseteq DOMAIN versions /\ DOMAIN versions \subseteq DOMAIN versions'
      BY <1>1, VersionsKeep DEF IntakeIInv, IntakeTypeOK
    <3>1. CASE tasks' = tasks
      <4>1. tasks # {} => mail'.state \in {"TASK_CREATED", "FAILED_REVIEW"}
        <5>1. SUFFICES ASSUME tasks # {}
                       PROVE  mail'.state \in {"TASK_CREATED", "FAILED_REVIEW"}
          OBVIOUS
        <5>2. mail.state \in {"TASK_CREATED", "FAILED_REVIEW"}
          BY <2>0, <5>1 DEF TaskClosesMail
        <5>3. mail # NoMail
          BY <5>2 DEF NoMail
        <5>4. ASSUME NEW target \in {"FETCHED", "ATTACHMENTS_SAVED", "CLASSIFIED", "TASK_CREATED", "FAILED_REVIEW"},
                     ValidTransition(mail, target), mail' = Transitioned(mail, target)
              PROVE  mail'.state = "FAILED_REVIEW"
          <6>1. /\ mail.state \in PipelineStates
                /\ target = "FETCHED" => mail.state = "DISCOVERED"
                /\ target = "ATTACHMENTS_SAVED" => mail.state = "FETCHED"
                /\ target = "CLASSIFIED" => mail.state \in {"ATTACHMENTS_SAVED", "CLASSIFIED"}
                /\ target = "TASK_CREATED" => mail.state = "CLASSIFIED"
                /\ Transitioned(mail, target).state = target
            BY <2>0, <5>4, TransitionIs
          <6>2. QED
            BY <5>2, <5>4, <6>1
        <5>5. QED
          BY <1>1, <5>2, <5>3, <5>4, MailMoves
      <4>2. QED
        BY <2>0, <2>1, <3>0, <3>1, <4>1 DEF TaskClosesMail
    <3>2. ASSUME NEW v \in DOMAIN versions, CreateTask(v)
          PROVE  TaskClosesMail' /\ tasks' \subseteq DOMAIN versions'
      <4>1. /\ mail.state = "CLASSIFIED" /\ ValidTransition(mail, "TASK_CREATED")
            /\ mail' = Transitioned(mail, "TASK_CREATED") /\ tasks' = tasks \cup {v}
        BY <3>2 DEF CreateTask
      <4>2. Transitioned(mail, "TASK_CREATED").state = "TASK_CREATED"
        BY <2>0, <4>1, TransitionIs
      <4>3. tasks = {}
        BY <2>0, <4>1 DEF TaskClosesMail
      <4>4. QED
        BY <3>0, <3>2, <4>1, <4>2, <4>3 DEF TaskClosesMail
    <3>3. tasks' = tasks \/ \E v \in DOMAIN versions : CreateTask(v)
      BY <1>1 DEF IntakeNext, IntakeStep, IntakeClaim, IntakeDone, IntakeFailed, IngestStarts, StoreEvidence, Fetched,
         StoreParts, PartsSaved, QueueClassification, GoneFails, ClassifyReads, ClassifyStores, IntakeRequestFails,
         IntakerLapses, TooManyParts, MessageGone, DiscoverMessage, RequestIngest, ReviewStep, ClaimReview,
         ReleaseReview, Decide, RequestClassification, ClaimExpires, IntakeMoves
    <3>4. QED
      BY <3>1, <3>2, <3>3
  <2>6. crashed' \in BOOLEAN /\ intakeFaults' \in 0..MaxIntakeFaults
    <3>1. crashed \in BOOLEAN /\ intakeFaults \in 0..MaxIntakeFaults
      BY <1>1 DEF IntakeIInv, IntakeTypeOK
    <3>2. /\ crashed' = crashed \/ crashed' = TRUE
          /\ intakeFaults' = intakeFaults \/ (intakeFaults < MaxIntakeFaults /\ intakeFaults' = intakeFaults + 1)
      BY <1>1 DEF IntakeNext, IntakeStep, IntakeClaim, IntakeDone, IntakeFailed, IngestStarts, StoreEvidence, Fetched,
         StoreParts, PartsSaved, QueueClassification, GoneFails, ClassifyReads, ClassifyStores, IntakeRequestFails,
         IntakerLapses, TooManyParts, MessageGone, DiscoverMessage, RequestIngest, ReviewStep, ClaimReview,
         ReleaseReview, Decide, RequestClassification, ClaimExpires, CreateTask, IntakeMoves, IntakeFault
    <3>3. crashed' \in BOOLEAN
      BY <3>1, <3>2
    <3>4. intakeFaults' \in 0..MaxIntakeFaults
      BY <3>1, <3>2, IntakeAssumption
    <3>5. QED
      BY <3>3, <3>4
  <2>7. /\ versions' \in Seq(ReviewRows) /\ Len(versions') <= MaxVersions
        /\ iw' \in [Intakers -> IntakerStates]
    BY <1>1, VersionsKeep, IntakersMove
  <2>8. IntakeTypeOK'
    BY <2>0, <2>1, <2>2, <2>5, <2>6, <2>7 DEF IntakeTypeOK, IntakerStates, IntakerPcs
  <2>9. QED
    BY <2>2, <2>3, <2>4, <2>5, <2>8 DEF IntakeIInv
<1>2. ASSUME IntakeIInv, UNCHANGED intakeVars
      PROVE  IntakeIInv'
  BY <1>2 DEF intakeVars, IntakeIInv, IntakeTypeOK, IntakeJobsHaveAttempts, SessionsHaveEvidence,
     EvidenceIsBehindState, TaskClosesMail
<1>3. QED
  BY <1>1, <1>2

\* EmailIngestionService, ClassificationOrchestrator and TaskCreationService: whatever request fails,
\* whichever worker dies or outlives its lease and however many versions are approved, an email's state
\* is never ahead of its stored evidence, and it leads to one task at most.
THEOREM IntakeIsSafe == MailSpec => []IntakeInv
<1>1. MailInit => IntakeIInv
  BY IntakeStarts DEF MailInit
<1>2. [MailNext]_<<focus, intakeVars, draftVars, attVars>> => [IntakeNext]_intakeVars
  BY DEF MailNext
<1>3. IntakeIInv /\ [MailNext]_<<focus, intakeVars, draftVars, attVars>> => IntakeIInv'
  BY <1>2, IntakeStays
<1>4. IntakeIInv => IntakeInv
  <2> SUFFICES ASSUME IntakeIInv
               PROVE  OneTask
    BY DEF IntakeIInv, IntakeInv
  <2>1. \A u, v \in tasks : u = v
    BY DEF IntakeIInv, TaskClosesMail
  <2>2. tasks = {} \/ \E v \in tasks : tasks = {v}
    BY <2>1
  <2>3. QED
    BY <2>2, FS_EmptySet, FS_Singleton DEF OneTask
<1>5. QED
  BY <1>1, <1>3, <1>4, PTL DEF MailSpec

(***************************************************************************)
(* The reply draft                                                         *)
(***************************************************************************)

ReconRows == [status : {"absent", "PENDING", "RUNNING", "COMPLETED", "FAILED_RETRYABLE", "FAILED_REVIEW"},
              attempts : 0..ReconDraftMax]
Opening == {"intent", "refused"}
Carrying == {"intent", "created", "finalize"}

LEMMA DraftNumbers ==
  ASSUME DraftIInv
  PROVE  /\ MaxEdits \in Nat /\ MaxReplies \in Nat /\ ReconDraftMax \in Nat /\ 0 \in Revisions /\ 0 \in 0..MaxReplies
         /\ gd.rev \in Nat /\ gd.rev \in Revisions /\ draftEdits \in Nat /\ draftEdits <= MaxEdits
         /\ gd.id \in 0..MaxReplies /\ gd.id \in Nat /\ gd.id <= Len(replies) /\ Len(replies) \in Nat
         /\ (replies = <<>> <=> Len(replies) = 0)
         /\ \A s \in Composers : /\ cs[s] \in ComposerStates /\ cs[s].rev \in Revisions /\ cs[s].rev \in Nat
                                 /\ cs[s].reply \in Nat /\ cs[s].job \in Revisions /\ cs[s].n \in Nat
<1>1. MaxEdits \in Nat /\ MaxReplies \in Nat /\ ReconDraftMax \in Nat
  BY DraftAssumption
<1>2. gd.rev \in Nat /\ draftEdits \in Nat /\ gd.id \in 0..MaxReplies /\ gd.id <= Len(replies)
      /\ replies \in Seq({"app", "person"}) /\ cs \in [Composers -> ComposerStates]
  BY DEF DraftIInv, DraftTypeOK, LocalDraftRows
<1>3. gd.rev <= 2 + draftEdits /\ draftEdits <= MaxEdits
  BY <1>2 DEF DraftIInv, RevisionsBounded
<1>4. gd.rev \in Revisions /\ 0 \in Revisions
  BY <1>1, <1>2, <1>3 DEF Revisions
<1>5. Len(replies) \in Nat /\ (replies = <<>> <=> Len(replies) = 0)
  BY <1>2, EmptySeq
<1>6. \A s \in Composers : /\ cs[s] \in ComposerStates /\ cs[s].rev \in Revisions
                           /\ cs[s].reply \in 0..MaxReplies /\ cs[s].job \in Revisions /\ cs[s].n \in Nat
  BY <1>2 DEF ComposerStates
<1>7. \A s \in Composers : cs[s].rev \in Nat /\ cs[s].reply \in Nat
  BY <1>1, <1>6 DEF Revisions
<1>8. QED
  BY <1>1, <1>2, <1>3, <1>4, <1>5, <1>6, <1>7

LEMMA ComposerSet ==
  ASSUME DraftIInv, NEW s \in Composers, NEW r \in ComposerStates, cs' = [cs EXCEPT ![s] = r]
  PROVE  cs' \in [Composers -> ComposerStates] /\ cs'[s] = r /\ \A t \in Composers : t # s => cs'[t] = cs[t]
BY DEF DraftIInv, DraftTypeOK

\* What a session's step may do to the row, and the record it is left with.
StepIsSound(s, r) ==
  /\ gd' \in LocalDraftRows /\ gd'.id <= Len(replies') /\ (gd'.status = "GRAPH_DRAFT_CREATED" => gd'.id # 0)
  /\ gd.id # 0 => gd'.id # 0
  /\ gd'.status = "NONE" => gd' = gd /\ r.pc \in {"idle", "load"}
  /\ draftEdits' \in Nat /\ draftEdits <= draftEdits' /\ draftEdits' <= MaxEdits
  /\ r.rev <= gd'.rev /\ r.reply <= Len(replies')
  /\ r.pc = "created" => r.reply >= 1
  /\ r.pc = "finalize" => gd'.id # 0
  /\ \/ /\ gd'.rev = gd.rev
        /\ gd.status # "GRAPH_DRAFT_PENDING" => gd'.status # "GRAPH_DRAFT_PENDING" \/ gd.id = 0
        /\ r.pc \in Carrying =>
             \/ cs[s].pc \in Carrying /\ r.rev = cs[s].rev
             \/ gd.status = "GRAPH_DRAFT_PENDING" \/ gd.id = 0
     \/ /\ gd'.rev = gd.rev + 1 /\ gd.rev = cs[s].rev /\ cs[s].pc = "finalize" /\ gd.id # 0
        /\ gd'.status = "GRAPH_DRAFT_CREATED" /\ r.pc = "idle"

LEMMA ComposerKeeps ==
  ASSUME DraftIInv, NEW s \in Composers, NEW r \in ComposerStates, cs' = [cs EXCEPT ![s] = r], StepIsSound(s, r),
         replies' \in Seq({"app", "person"}), Len(replies') <= MaxReplies, Len(replies) <= Len(replies'),
         intentAt' \in 0..Len(replies'), rjobs' \in [Revisions -> ReconRows], edited' \in BOOLEAN, draftFaults' \in Nat
  PROVE  DraftTypeOK' /\ RevisionsBounded' /\ ComposersKnowReplies'
<1>0. cs' \in [Composers -> ComposerStates] /\ cs'[s] = r /\ \A t \in Composers : t # s => cs'[t] = cs[t]
  BY ComposerSet
<1>1. DraftTypeOK'
  BY <1>0 DEF DraftTypeOK, StepIsSound, ReconRows
<1>2. /\ MaxEdits \in Nat /\ gd.rev \in Nat /\ draftEdits \in Nat /\ gd'.rev \in Nat /\ draftEdits' \in Nat
      /\ Len(replies) \in Nat /\ Len(replies') \in Nat /\ r.rev \in Nat
      /\ \A t \in Composers : cs[t].rev \in Nat /\ cs[t].reply \in Nat /\ cs[t].rev <= gd.rev
  <2>1. r.rev \in Nat
    BY DraftAssumption DEF ComposerStates, Revisions
  <2>2. QED
    BY <2>1, DraftNumbers DEF StepIsSound, LocalDraftRows, DraftIInv, RevisionsBounded
<1>3. gd.rev <= gd'.rev
  BY <1>2 DEF StepIsSound
<1>4. ComposersKnowReplies'
  <2>1. ASSUME NEW t \in Composers
        PROVE  /\ cs'[t].reply <= Len(replies')
               /\ cs'[t].pc = "created" => cs'[t].reply >= 1
               /\ cs'[t].pc = "finalize" => gd'.id # 0
    <3>1. CASE t = s
      BY <1>0, <3>1 DEF StepIsSound
    <3>2. CASE t # s
      BY <1>0, <1>2, <3>2 DEF StepIsSound, DraftIInv, ComposersKnowReplies
    <3>3. QED
      BY <3>1, <3>2
  <2>2. QED
    BY <2>1 DEF ComposersKnowReplies
<1>5. RevisionsBounded'
  <2>1. gd'.status = "NONE" => gd'.rev = 0 /\ gd'.id = 0 /\ \A t \in Composers : cs'[t].pc \in {"idle", "load"}
    BY <1>0 DEF StepIsSound, DraftIInv, RevisionsBounded
  <2>2. \A t \in Composers : cs'[t].rev <= gd'.rev
    <3>1. ASSUME NEW t \in Composers
          PROVE  cs'[t].rev <= gd'.rev
      <4>1. CASE t = s
        BY <1>0, <4>1 DEF StepIsSound
      <4>2. CASE t # s
        BY <1>0, <1>2, <1>3, <4>2
      <4>3. QED
        BY <4>1, <4>2
    <3>2. QED
      BY <3>1
  <2>3. \/ gd'.rev <= 1 + draftEdits'
        \/ /\ gd'.rev <= 2 + draftEdits' /\ gd'.id # 0 /\ gd'.status # "GRAPH_DRAFT_PENDING"
           /\ \A t \in Composers : cs'[t].pc \in Carrying => cs'[t].rev < gd'.rev
    <3>0. \/ gd.rev <= 1 + draftEdits
          \/ /\ gd.rev <= 2 + draftEdits /\ gd.id # 0 /\ gd.status # "GRAPH_DRAFT_PENDING"
             /\ \A t \in Composers : cs[t].pc \in Carrying => cs[t].rev < gd.rev
      BY DEF DraftIInv, RevisionsBounded, Carrying
    <3>a. draftEdits <= draftEdits'
      BY DEF StepIsSound
    <3>1. CASE gd'.rev = gd.rev
      <4>1. CASE gd.rev <= 1 + draftEdits
        BY <1>2, <3>1, <3>a, <4>1
      <4>2. CASE /\ gd.rev <= 2 + draftEdits /\ gd.id # 0 /\ gd.status # "GRAPH_DRAFT_PENDING"
                 /\ \A t \in Composers : cs[t].pc \in Carrying => cs[t].rev < gd.rev
        <5>1. gd'.rev <= 2 + draftEdits'
          BY <1>2, <3>1, <3>a, <4>2
        <5>2. gd'.rev # gd.rev + 1
          BY <1>2, <3>1
        <5>3. /\ gd'.id # 0 /\ gd'.status # "GRAPH_DRAFT_PENDING"
              /\ r.pc \in Carrying => cs[s].pc \in Carrying /\ r.rev = cs[s].rev
          BY <4>2, <5>2 DEF StepIsSound
        <5>4. ASSUME NEW t \in Composers, cs'[t].pc \in Carrying
              PROVE  cs'[t].rev < gd'.rev
          BY <1>0, <3>1, <4>2, <5>3, <5>4
        <5>5. QED
          BY <5>1, <5>3, <5>4
      <4>3. QED
        BY <3>0, <4>1, <4>2
    <3>2. CASE gd'.rev = gd.rev + 1
      <4>1. /\ gd.rev = cs[s].rev /\ cs[s].pc = "finalize" /\ gd.id # 0
            /\ gd'.status = "GRAPH_DRAFT_CREATED" /\ r.pc = "idle" /\ gd'.id # 0
        BY <1>2, <3>2 DEF StepIsSound
      <4>2. gd.rev <= 1 + draftEdits
        BY <1>2, <3>0, <4>1 DEF Carrying
      <4>3. gd'.rev <= 2 + draftEdits'
        BY <1>2, <3>2, <3>a, <4>2
      <4>4. ASSUME NEW t \in Composers, cs'[t].pc \in Carrying
            PROVE  cs'[t].rev < gd'.rev
        <5>1. t # s
          BY <1>0, <4>1, <4>4 DEF Carrying
        <5>2. QED
          BY <1>0, <1>2, <3>2, <5>1
      <4>5. QED
        BY <4>1, <4>3, <4>4
    <3>3. QED
      BY <3>1, <3>2 DEF StepIsSound
  <2>4. QED
    BY <2>1, <2>2, <2>3 DEF RevisionsBounded, StepIsSound, Carrying
<1>6. QED
  BY <1>1, <1>4, <1>5

\* A step that opens no intent and adds no reply.
LEMMA IntentKeeps ==
  ASSUME DraftIInv, NEW s \in Composers, NEW r \in ComposerStates, cs' = [cs EXCEPT ![s] = r],
         edited' = edited, replies' = replies, gd.id # 0 => gd'.id # 0,
         r.pc \in Opening => cs[s].pc = "intent",
         gd.status = "GRAPH_DRAFT_PENDING" /\ gd'.status # "GRAPH_DRAFT_PENDING" =>
           gd.id # 0 \/ (cs[s].pc = "refused" /\ r.pc = "idle")
  PROVE  OneIntent'
<1> SUFFICES ASSUME ~edited
             PROVE  OneIntent'
  BY DEF OneIntent
<1>0. cs'[s] = r /\ \A t \in Composers : t # s => cs'[t] = cs[t]
  BY ComposerSet
<1>1. /\ Len(replies) <= 1
      /\ replies # <<>> => gd.status = "GRAPH_DRAFT_PENDING" \/ gd.id # 0
      /\ \A t \in Composers : cs[t].pc \in Opening => replies = <<>> /\ gd.status = "GRAPH_DRAFT_PENDING"
      /\ \A t, u \in Composers : cs[t].pc \in Opening /\ cs[u].pc \in Opening => t = u
  BY DEF DraftIInv, OneIntent, Opening
<1>2. \A t \in Composers : cs'[t].pc \in Opening => cs[t].pc \in Opening
  BY <1>0 DEF Opening
<1>3. replies = <<>> => gd.id = 0
  BY DraftNumbers
<1>4. cs[s].pc = "refused" => replies = <<>>
  BY <1>1 DEF Opening
<1>5. ASSUME NEW t \in Composers, cs'[t].pc \in Opening
      PROVE  gd'.status = "GRAPH_DRAFT_PENDING"
  <2>1. gd.status = "GRAPH_DRAFT_PENDING" /\ gd.id = 0
    BY <1>1, <1>2, <1>3, <1>5
  <2>2. cs[s].pc = "refused" /\ r.pc = "idle" => t # s /\ t = s
    BY <1>0, <1>1, <1>2, <1>5 DEF Opening
  <2>3. QED
    BY <2>1, <2>2
<1>6. QED
  BY <1>1, <1>2, <1>4, <1>5 DEF OneIntent, Opening

LEMMA ReconsAre ==
  ASSUME DraftIInv, NEW s \in Composers, NEW st \in {"COMPLETED", "FAILED_RETRYABLE", "FAILED_REVIEW"}
  PROVE  /\ rjobs \in [Revisions -> ReconRows] /\ WithReconciliation(cs[s].rev) \in [Revisions -> ReconRows]
         /\ EndJob(s, st) => rjobs' \in [Revisions -> ReconRows]
<1>0. rjobs \in [Revisions -> ReconRows] /\ cs[s].rev \in Revisions /\ cs[s].job \in Revisions
  BY DraftNumbers DEF DraftIInv, DraftTypeOK, ReconRows
<1>1. ASSUME NEW x \in Revisions, NEW v \in {"PENDING", "COMPLETED", "FAILED_RETRYABLE", "FAILED_REVIEW"}
      PROVE  [rjobs EXCEPT ![x].status = v] \in [Revisions -> ReconRows]
  <2>1. PICK r : r = [rjobs[x] EXCEPT !.status = v]
    OBVIOUS
  <2>2. r \in ReconRows
    BY <1>0, <2>1 DEF ReconRows
  <2>3. [rjobs EXCEPT ![x].status = v] = [rjobs EXCEPT ![x] = r]
    BY <2>1
  <2>4. QED
    BY <1>0, <2>2, <2>3
<1>2. WithReconciliation(cs[s].rev) \in [Revisions -> ReconRows]
  BY <1>0, <1>1 DEF WithReconciliation
<1>3. EndJob(s, st) => rjobs' \in [Revisions -> ReconRows]
  <2>1. [rjobs EXCEPT ![cs[s].job].status = st] \in [Revisions -> ReconRows]
    BY <1>0, <1>1
  <2>2. EndJob(s, st) => rjobs' = rjobs \/ rjobs' = [rjobs EXCEPT ![cs[s].job].status = st]
    BY DEF EndJob
  <2>3. QED
    BY <1>0, <2>1, <2>2
<1>4. QED
  BY <1>0, <1>2, <1>3

LEMMA QuietComposer ==
  ASSUME DraftIInv, NEW s \in Composers, NEW r \in ComposerStates, cs' = [cs EXCEPT ![s] = r], StepIsSound(s, r),
         replies' = replies, intentAt' = intentAt, edited' = edited,
         draftFaults' \in {draftFaults, draftFaults + 1}, rjobs' \in [Revisions -> ReconRows],
         r.pc \in Opening => cs[s].pc = "intent",
         gd.status = "GRAPH_DRAFT_PENDING" /\ gd'.status # "GRAPH_DRAFT_PENDING" =>
           gd.id # 0 \/ (cs[s].pc = "refused" /\ r.pc = "idle")
  PROVE  DraftIInv'
<1>1. /\ replies \in Seq({"app", "person"}) /\ Len(replies) <= MaxReplies /\ intentAt \in 0..Len(replies)
      /\ edited \in BOOLEAN /\ draftFaults \in Nat
  BY DEF DraftIInv, DraftTypeOK
<1>2. draftFaults' \in Nat /\ Len(replies) <= Len(replies') /\ edited' \in BOOLEAN
  BY <1>1, DraftNumbers
<1>3. DraftTypeOK' /\ RevisionsBounded' /\ ComposersKnowReplies'
  BY <1>1, <1>2, ComposerKeeps
<1>4. gd.id # 0 => gd'.id # 0
  BY DEF StepIsSound
<1>5. OneIntent'
  BY <1>4, IntentKeeps
<1>6. QED
  BY <1>3, <1>5 DEF DraftIInv

\* A session ends without touching the row, or moves on without loading it.
LEMMA PlainSteps ==
  ASSUME DraftIInv, NEW s \in Composers, NEW r \in ComposerStates, cs' = [cs EXCEPT ![s] = r],
         gd' = gd, draftEdits' = draftEdits, replies' = replies, intentAt' = intentAt, edited' = edited,
         draftFaults' \in {draftFaults, draftFaults + 1}, rjobs' \in [Revisions -> ReconRows],
         \/ r = IdleComposer
         \/ r.pc = "load" /\ r.rev \in {0, cs[s].rev} /\ r.reply \in {0, cs[s].reply}
         \/ gd.status # "NONE" /\ r.pc = "source" /\ r.rev = cs[s].rev /\ r.reply = cs[s].reply
         \/ cs[s].pc = "intent" /\ r.pc \in {"lost", "refused"} /\ r.rev = cs[s].rev /\ r.reply = cs[s].reply
         \/ gd.status = "GRAPH_DRAFT_PENDING" /\ gd.id # 0 /\ r.pc = "finalize" /\ r.rev = gd.rev /\ r.reply = gd.id
  PROVE  DraftIInv'
<1>0. /\ DraftTypeOK /\ RevisionsBounded /\ ComposersKnowReplies
  BY DEF DraftIInv
<1>1. /\ gd.rev \in Nat /\ gd.id \in Nat /\ gd.id <= Len(replies) /\ Len(replies) \in Nat /\ draftEdits \in Nat
      /\ draftEdits <= MaxEdits /\ cs[s].rev \in Nat /\ cs[s].reply \in Nat
  BY DraftNumbers
<1>2. cs[s].rev <= gd.rev /\ cs[s].reply <= Len(replies) /\ (gd.status = "NONE" => cs[s].pc \in {"idle", "load"})
  BY <1>0 DEF RevisionsBounded, ComposersKnowReplies
<1>3. IdleComposer.pc = "idle" /\ IdleComposer.rev = 0 /\ IdleComposer.reply = 0
  BY DEF IdleComposer
<1>4. StepIsSound(s, r)
  BY <1>0, <1>1, <1>2, <1>3 DEF StepIsSound, DraftTypeOK, Carrying
<1>5. r.pc \in Opening => cs[s].pc = "intent"
  BY <1>3 DEF Opening
<1>6. QED
  BY <1>4, <1>5, QuietComposer

LEMMA ComposerRecords ==
  ASSUME DraftIInv, NEW s \in Composers, NEW pc \in {"source", "load", "lost", "refused", "finalize", "created", "intent"},
         NEW rev \in Revisions, NEW reply \in 0..MaxReplies
  PROVE  /\ IdleComposer \in ComposerStates
         /\ [cs[s] EXCEPT !.pc = pc] \in ComposerStates /\ [cs[s] EXCEPT !.pc = pc].pc = pc
         /\ [cs[s] EXCEPT !.pc = pc].rev = cs[s].rev /\ [cs[s] EXCEPT !.pc = pc].reply = cs[s].reply
         /\ [cs[s] EXCEPT !.pc = pc, !.rev = rev, !.reply = reply] \in ComposerStates
         /\ [cs[s] EXCEPT !.pc = pc, !.rev = rev, !.reply = reply].pc = pc
         /\ [cs[s] EXCEPT !.pc = pc, !.rev = rev, !.reply = reply].rev = rev
         /\ [cs[s] EXCEPT !.pc = pc, !.rev = rev, !.reply = reply].reply = reply
<1>0. cs[s] \in ComposerStates /\ 0 \in Revisions /\ 0 \in 0..MaxReplies
  BY DraftNumbers
<1>1. IdleComposer \in ComposerStates
  BY <1>0 DEF IdleComposer, ComposerStates
<1>2. PICK q : q = [cs[s] EXCEPT !.pc = pc]
  OBVIOUS
<1>3. q \in ComposerStates /\ q.pc = pc /\ q.rev = cs[s].rev /\ q.reply = cs[s].reply
  BY <1>0, <1>2 DEF ComposerStates
<1>4. PICK r : r = [cs[s] EXCEPT !.pc = pc, !.rev = rev, !.reply = reply]
  OBVIOUS
<1>5. r \in ComposerStates /\ r.pc = pc /\ r.rev = rev /\ r.reply = reply
  BY <1>0, <1>4 DEF ComposerStates
<1>6. QED
  BY <1>1, <1>2, <1>3, <1>4, <1>5

\* Sessions that start, give up or end without touching the row.
LEMMA DraftPlain ==
  ASSUME DraftIInv, NEW s \in Composers,
         \/ CreateStarts(s) \/ ReconcileRequest(s) \/ ReconcileKnown(s) \/ ReconcileGivesUp(s) \/ ComposerCrash(s)
         \/ \E x \in Revisions : ReconcileClaim(s, x)
  PROVE  DraftIInv'
<1>0. /\ gd' = gd /\ draftEdits' = draftEdits /\ replies' = replies /\ intentAt' = intentAt /\ edited' = edited
      /\ draftFaults' \in {draftFaults, draftFaults + 1}
  BY DEF CreateStarts, ReconcileRequest, ReconcileKnown, ReconcileGivesUp, ComposerCrash, ReconcileClaim
<1>1. /\ cs[s] \in ComposerStates /\ 0 \in Revisions /\ 0 \in 0..MaxReplies /\ gd.rev \in Revisions
      /\ gd.id \in 0..MaxReplies /\ IdleComposer \in ComposerStates
      /\ rjobs \in [Revisions -> ReconRows] /\ cs \in [Composers -> ComposerStates] /\ ReconDraftMax \in Nat
  BY DraftNumbers, ReconsAre, ComposerRecords DEF DraftIInv, DraftTypeOK
<1>2. CASE cs' = [cs EXCEPT ![s] = IdleComposer]
  <2>1. rjobs' \in [Revisions -> ReconRows]
    <3>1. CASE rjobs' = rjobs
      BY <1>1, <3>1
    <3>2. CASE EndJob(s, "COMPLETED")
      BY <3>2, ReconsAre
    <3>3. CASE \E x \in Revisions : ReconcileClaim(s, x)
      <4>1. PICK x \in Revisions : ReconcileClaim(s, x)
        BY <3>3
      <4>2. PICK q : q = [IdleComposer EXCEPT !.pc = "load", !.job = x, !.n = rjobs[x].attempts + 1]
        OBVIOUS
      <4>3. cs' = [cs EXCEPT ![s] = q] /\ q.pc = "load"
        BY <4>1, <4>2 DEF ReconcileClaim, IdleComposer
      <4>4. cs'[s].pc = "load" /\ cs'[s].pc = "idle"
        BY <1>1, <1>2, <4>3 DEF IdleComposer
      <4>5. QED
        BY <4>4
    <3>4. QED
      BY <3>1, <3>2, <3>3 DEF CreateStarts, ReconcileRequest, ReconcileKnown, ReconcileGivesUp, ComposerCrash
  <2>2. QED
    BY <1>0, <1>1, <1>2, <2>1, PlainSteps
<1>3. CASE \E x \in Revisions : ReconcileClaim(s, x)
  <2>1. PICK x \in Revisions : ReconcileClaim(s, x)
    BY <1>3
  <2>a. rjobs[x] \in ReconRows /\ rjobs[x].attempts < ReconDraftMax
    BY <1>1, <2>1 DEF ReconcileClaim
  <2>b. rjobs[x].attempts \in 0..ReconDraftMax
    BY <2>a DEF ReconRows
  <2>2. rjobs[x].attempts + 1 \in Nat /\ rjobs[x].attempts + 1 \in 0..ReconDraftMax
    BY <1>1, <2>a, <2>b
  <2>c. IdleComposer \in ComposerStates /\ IdleComposer.rev = 0 /\ IdleComposer.reply = 0
    BY <1>1 DEF IdleComposer
  <2>3. PICK q : q = [IdleComposer EXCEPT !.pc = "load", !.job = x, !.n = rjobs[x].attempts + 1]
    OBVIOUS
  <2>4. q \in ComposerStates /\ q.pc = "load" /\ q.rev = 0 /\ q.reply = 0
    BY <2>2, <2>3, <2>c DEF ComposerStates
  <2>5. cs' = [cs EXCEPT ![s] = q]
    BY <2>1, <2>3 DEF ReconcileClaim
  <2>6. rjobs' \in [Revisions -> ReconRows]
    <3>1. [status |-> "RUNNING", attempts |-> rjobs[x].attempts + 1] \in ReconRows
      BY <2>2 DEF ReconRows
    <3>2. rjobs' = [rjobs EXCEPT ![x] = [status |-> "RUNNING", attempts |-> rjobs[x].attempts + 1]]
      BY <2>1 DEF ReconcileClaim
    <3>3. QED
      BY <1>1, <3>1, <3>2
  <2>7. QED
    BY <1>0, <2>4, <2>5, <2>6, PlainSteps
<1>4. CASE /\ gd.status = "GRAPH_DRAFT_PENDING" /\ gd.id # 0 /\ rjobs' = rjobs
           /\ cs' = [cs EXCEPT ![s].pc = "finalize", ![s].rev = gd.rev, ![s].reply = gd.id]
  <2>1. PICK q : q = [cs[s] EXCEPT !.pc = "finalize", !.rev = gd.rev, !.reply = gd.id]
    OBVIOUS
  <2>2. q \in ComposerStates /\ q.pc = "finalize" /\ q.rev = gd.rev /\ q.reply = gd.id
    BY <1>1, <2>1 DEF ComposerStates
  <2>3. cs' = [cs EXCEPT ![s] = q]
    BY <1>1, <1>4, <2>1
  <2>4. QED
    BY <1>0, <1>1, <1>4, <2>2, <2>3, PlainSteps
<1>5. ASSUME NEW pc \in {"source", "load"}, DraftGoTo(s, pc), gd.status # "NONE", rjobs' = rjobs
      PROVE  DraftIInv'
  <2>1. PICK q : q = [cs[s] EXCEPT !.pc = pc]
    OBVIOUS
  <2>2. q \in ComposerStates /\ q.pc = pc /\ q.rev = cs[s].rev /\ q.reply = cs[s].reply
    BY <1>1, <2>1 DEF ComposerStates
  <2>3. cs' = [cs EXCEPT ![s] = q]
    BY <1>5, <2>1 DEF DraftGoTo
  <2>4. QED
    BY <1>0, <1>1, <1>5, <2>2, <2>3, PlainSteps
<1>6. QED
  <2>1. CASE CreateStarts(s)
    BY <1>2, <1>4, <1>5, <2>1 DEF CreateStarts, Known, DraftIdle
  <2>2. CASE ReconcileRequest(s)
    BY <1>5, <2>2 DEF ReconcileRequest
  <2>3. CASE ReconcileKnown(s)
    BY <1>2, <1>4, <2>3 DEF ReconcileKnown, DraftIdle
  <2>4. CASE ReconcileGivesUp(s) \/ ComposerCrash(s)
    BY <1>2, <2>4 DEF ReconcileGivesUp, ComposerCrash, DraftIdle
  <2>5. QED
    BY <1>3, <2>1, <2>2, <2>3, <2>4

\* The row with another identity, status or revision.
LEMMA DraftRows ==
  ASSUME DraftIInv, NEW st \in LocalStatuses, NEW i \in 0..MaxReplies
  PROVE  /\ [gd EXCEPT !.status = st] \in LocalDraftRows /\ [gd EXCEPT !.status = st].status = st
         /\ [gd EXCEPT !.status = st].id = gd.id /\ [gd EXCEPT !.status = st].rev = gd.rev
         /\ [gd EXCEPT !.id = i] \in LocalDraftRows /\ [gd EXCEPT !.id = i].status = gd.status
         /\ [gd EXCEPT !.id = i].id = i /\ [gd EXCEPT !.id = i].rev = gd.rev
         /\ [gd EXCEPT !.status = st, !.rev = gd.rev + 1] \in LocalDraftRows
         /\ [gd EXCEPT !.status = st, !.rev = gd.rev + 1].status = st
         /\ [gd EXCEPT !.status = st, !.rev = gd.rev + 1].id = gd.id
         /\ [gd EXCEPT !.status = st, !.rev = gd.rev + 1].rev = gd.rev + 1
<1>0. gd \in LocalDraftRows /\ gd.rev + 1 \in Nat
  BY DraftNumbers DEF DraftIInv, DraftTypeOK
<1>1. PICK a : a = [gd EXCEPT !.status = st]
  OBVIOUS
<1>2. a \in LocalDraftRows /\ a.status = st /\ a.id = gd.id /\ a.rev = gd.rev
  BY <1>0, <1>1 DEF LocalDraftRows
<1>3. PICK b : b = [gd EXCEPT !.id = i]
  OBVIOUS
<1>4. b \in LocalDraftRows /\ b.status = gd.status /\ b.id = i /\ b.rev = gd.rev
  BY <1>0, <1>3 DEF LocalDraftRows
<1>5. PICK c : c = [gd EXCEPT !.status = st, !.rev = gd.rev + 1]
  OBVIOUS
<1>6. c \in LocalDraftRows /\ c.status = st /\ c.id = gd.id /\ c.rev = gd.rev + 1
  BY <1>0, <1>5 DEF LocalDraftRows
<1>7. QED
  BY <1>1, <1>2, <1>3, <1>4, <1>5, <1>6

\* The end of a finalization: done, overtaken, found sent, or failed.
LEMMA FinalizeKeeps ==
  ASSUME DraftIInv, NEW s \in Composers, Finalizes(s) \/ FinalizeFindsSent(s) \/ FinalizeFails(s)
  PROVE  DraftIInv'
<1>0. /\ cs' = [cs EXCEPT ![s] = IdleComposer] /\ replies' = replies /\ intentAt' = intentAt /\ edited' = edited
      /\ draftFaults' \in {draftFaults, draftFaults + 1} /\ cs[s].pc = "finalize"
  BY DEF Finalizes, FinalizeFindsSent, FinalizeFails, DraftIdle
<1>1. /\ IdleComposer \in ComposerStates /\ 0 \in 0..MaxReplies /\ 0 \in Revisions
      /\ gd.rev \in Nat /\ gd.id \in Nat /\ gd.id <= Len(replies) /\ Len(replies) \in Nat
      /\ draftEdits \in Nat /\ draftEdits <= MaxEdits /\ MaxEdits \in Nat /\ gd \in LocalDraftRows
  <2>1. IdleComposer \in ComposerStates
    <3>1. 0 \in Revisions /\ 0 \in 0..MaxReplies
      BY DraftNumbers
    <3>2. QED
      BY <3>1 DEF IdleComposer, ComposerStates
  <2>2. QED
    BY <2>1, DraftNumbers DEF DraftIInv, DraftTypeOK
<1>2. gd.id # 0 /\ gd.status # "NONE"
  BY <1>0 DEF DraftIInv, ComposersKnowReplies, RevisionsBounded
<1>3. IdleComposer.pc = "idle" /\ IdleComposer.rev = 0 /\ IdleComposer.reply = 0
  BY DEF IdleComposer
<1>4. rjobs' \in [Revisions -> ReconRows]
  <2>1. \/ rjobs' = rjobs
        \/ \E st \in {"COMPLETED", "FAILED_RETRYABLE", "FAILED_REVIEW"} : EndJob(s, st)
        \/ rjobs' = WithReconciliation(cs[s].rev)
    BY DEF Finalizes, FinalizeFindsSent, FinalizeFails
  <2>2. QED
    BY <2>1, ReconsAre
<1>5. \/ gd' = gd /\ draftEdits' = draftEdits
      \/ /\ \E st \in {"SEND_AMBIGUOUS", "SEND_FAILED_REVIEW"} : gd' = [gd EXCEPT !.status = st]
         /\ draftEdits' = draftEdits \/ (draftEdits < MaxEdits /\ draftEdits' = draftEdits + 1)
      \/ /\ gd.rev = cs[s].rev /\ gd' = [gd EXCEPT !.status = "GRAPH_DRAFT_CREATED", !.rev = gd.rev + 1]
         /\ draftEdits' = draftEdits
  BY DEF Finalizes, FinalizeFindsSent, FinalizeFails
<1>6. draftEdits' \in Nat /\ draftEdits <= draftEdits' /\ draftEdits' <= MaxEdits
  BY <1>1, <1>5
<1>7. /\ gd' \in LocalDraftRows /\ gd'.id = gd.id /\ gd'.status # "NONE"
      /\ \/ /\ gd'.rev = gd.rev
            /\ gd.status # "GRAPH_DRAFT_PENDING" => gd'.status # "GRAPH_DRAFT_PENDING"
         \/ /\ gd'.rev = gd.rev + 1 /\ gd.rev = cs[s].rev
            /\ gd'.status = "GRAPH_DRAFT_CREATED"
  <2>1. ASSUME NEW st \in {"SEND_AMBIGUOUS", "SEND_FAILED_REVIEW"}, gd' = [gd EXCEPT !.status = st]
        PROVE  gd' \in LocalDraftRows /\ gd'.id = gd.id /\ gd'.status = st /\ gd'.rev = gd.rev
    BY <1>1, <2>1, DraftRows DEF LocalStatuses
  <2>2. ASSUME gd' = [gd EXCEPT !.status = "GRAPH_DRAFT_CREATED", !.rev = gd.rev + 1]
        PROVE  /\ gd' \in LocalDraftRows /\ gd'.id = gd.id /\ gd'.status = "GRAPH_DRAFT_CREATED"
               /\ gd'.rev = gd.rev + 1
    BY <1>1, <2>2, DraftRows DEF LocalStatuses
  <2>3. QED
    BY <1>1, <1>2, <1>5, <2>1, <2>2
<1>8. gd'.rev \in Nat /\ 0 <= gd'.rev
  BY <1>7 DEF LocalDraftRows
<1>9. StepIsSound(s, IdleComposer)
  BY <1>0, <1>1, <1>2, <1>3, <1>6, <1>7, <1>8 DEF StepIsSound, Carrying
<1>10. QED
  BY <1>0, <1>1, <1>2, <1>3, <1>4, <1>9, QuietComposer DEF Opening

\* The identity is recorded or adopted, the lost answer queued, the refusal noted.
LEMMA RecordKeeps ==
  ASSUME DraftIInv, NEW s \in Composers, CreateRecords(s) \/ ReconcileAdopts(s)
  PROVE  DraftIInv'
<1>0. /\ replies' = replies /\ intentAt' = intentAt /\ edited' = edited
      /\ draftFaults' = draftFaults /\ draftEdits' = draftEdits
  BY DEF CreateRecords, ReconcileAdopts
<1>1. /\ cs[s] \in ComposerStates /\ cs \in [Composers -> ComposerStates]
      /\ gd.rev \in Nat /\ gd.rev \in Revisions /\ gd.id \in Nat /\ gd.id <= Len(replies) /\ Len(replies) \in Nat
      /\ draftEdits \in Nat /\ draftEdits <= MaxEdits /\ gd \in LocalDraftRows /\ 0 \in 0..MaxReplies /\ 0 \in Revisions
      /\ cs[s].rev \in Nat /\ cs[s].rev <= gd.rev /\ cs[s].reply <= Len(replies) /\ cs[s].reply \in 0..MaxReplies
      /\ rjobs \in [Revisions -> ReconRows] /\ Len(replies) <= MaxReplies /\ MaxReplies \in Nat
      /\ gd.status = "NONE" => cs[s].pc \in {"idle", "load"}
  <2>1. cs[s].reply \in 0..MaxReplies
    BY DraftNumbers DEF ComposerStates
  <2>2. QED
    BY <2>1, DraftNumbers, ReconsAre DEF DraftIInv, DraftTypeOK, RevisionsBounded, ComposersKnowReplies
<1>2. CASE cs[s].pc = "lost" /\ CreateRecords(s)
  <2>1. cs' = [cs EXCEPT ![s] = IdleComposer] /\ gd' = gd /\ rjobs' = WithReconciliation(cs[s].rev)
    BY <1>2 DEF CreateRecords, DraftIdle
  <2>2. IdleComposer \in ComposerStates
    BY <1>1 DEF IdleComposer, ComposerStates
  <2>3. rjobs' \in [Revisions -> ReconRows]
    BY <2>1, ReconsAre
  <2>4. QED
    BY <1>0, <2>1, <2>2, <2>3, PlainSteps
<1>3. CASE cs[s].pc = "refused" /\ CreateRecords(s)
  <2>1. cs' = [cs EXCEPT ![s] = IdleComposer] /\ gd' = [gd EXCEPT !.status = "SEND_FAILED_REVIEW"] /\ rjobs' = rjobs
    BY <1>3 DEF CreateRecords, DraftIdle
  <2>2. IdleComposer \in ComposerStates /\ IdleComposer.pc = "idle" /\ IdleComposer.rev = 0 /\ IdleComposer.reply = 0
    BY <1>1 DEF IdleComposer, ComposerStates
  <2>3. gd' \in LocalDraftRows /\ gd'.status = "SEND_FAILED_REVIEW" /\ gd'.id = gd.id /\ gd'.rev = gd.rev
    BY <1>1, <2>1, DraftRows DEF LocalStatuses
  <2>4. StepIsSound(s, IdleComposer)
    BY <1>0, <1>1, <2>2, <2>3 DEF StepIsSound, Carrying
  <2>5. QED
    BY <1>0, <1>1, <1>3, <2>1, <2>2, <2>3, <2>4, QuietComposer DEF Opening
<1>4. CASE cs[s].pc = "created" /\ CreateRecords(s)
  <2>1. cs' = [cs EXCEPT ![s].pc = "finalize"] /\ gd' = [gd EXCEPT !.id = cs[s].reply] /\ rjobs' = rjobs
    BY <1>4 DEF CreateRecords, DraftGoTo
  <2>2. PICK q : q = [cs[s] EXCEPT !.pc = "finalize"]
    OBVIOUS
  <2>3. q \in ComposerStates /\ q.pc = "finalize" /\ q.rev = cs[s].rev /\ q.reply = cs[s].reply
    BY <1>1, <2>2 DEF ComposerStates
  <2>4. cs' = [cs EXCEPT ![s] = q]
    BY <2>1, <2>2
  <2>5. gd' \in LocalDraftRows /\ gd'.status = gd.status /\ gd'.id = cs[s].reply /\ gd'.rev = gd.rev
    BY <1>1, <2>1, DraftRows DEF LocalDraftRows
  <2>6. cs[s].reply # 0 /\ gd.status # "NONE"
    BY <1>1, <1>4 DEF DraftIInv, ComposersKnowReplies
  <2>7. StepIsSound(s, q)
    BY <1>0, <1>1, <1>4, <2>3, <2>5, <2>6 DEF StepIsSound, Carrying
  <2>8. QED
    BY <1>0, <1>1, <2>1, <2>3, <2>4, <2>5, <2>7, QuietComposer DEF Opening
<1>5. CASE ReconcileAdopts(s)
  <2>1. PICK i \in 1..Len(replies) :
          /\ gd' = [gd EXCEPT !.id = i]
          /\ cs' = [cs EXCEPT ![s].pc = "finalize", ![s].rev = gd.rev, ![s].reply = i]
    BY <1>5 DEF ReconcileAdopts
  <2>2. gd.id = 0 /\ gd.status = "GRAPH_DRAFT_PENDING" /\ rjobs' = rjobs
    BY <1>5 DEF ReconcileAdopts
  <2>3. i \in 0..MaxReplies /\ i # 0 /\ i <= Len(replies)
    BY <1>1
  <2>4. PICK q : q = [cs[s] EXCEPT !.pc = "finalize", !.rev = gd.rev, !.reply = i]
    OBVIOUS
  <2>5. q \in ComposerStates /\ q.pc = "finalize" /\ q.rev = gd.rev /\ q.reply = i
    BY <1>1, <2>3, <2>4 DEF ComposerStates
  <2>6. cs' = [cs EXCEPT ![s] = q]
    BY <1>1, <2>1, <2>4
  <2>7. gd' \in LocalDraftRows /\ gd'.status = gd.status /\ gd'.id = i /\ gd'.rev = gd.rev
    BY <1>1, <2>1, <2>3, DraftRows DEF LocalDraftRows
  <2>8. StepIsSound(s, q)
    BY <1>0, <1>1, <2>2, <2>3, <2>5, <2>7 DEF StepIsSound, Carrying
  <2>9. QED
    BY <1>0, <1>1, <2>2, <2>5, <2>6, <2>7, <2>8, QuietComposer DEF Opening
<1>6. QED
  BY <1>2, <1>3, <1>4, <1>5 DEF CreateRecords

\* The intent is committed under the row lock, where it finds the row as it must be.
LEMMA IntentIsOne ==
  ASSUME DraftIInv, NEW s \in Composers, CreateIntent(s)
  PROVE  DraftIInv'
<1>0. /\ replies' = replies /\ edited' = edited /\ rjobs' = rjobs
      /\ draftFaults' = draftFaults /\ draftEdits' = draftEdits
  BY DEF CreateIntent
<1>1. /\ cs[s] \in ComposerStates /\ cs \in [Composers -> ComposerStates]
      /\ gd.rev \in Nat /\ gd.rev \in Revisions /\ gd.id \in 0..MaxReplies /\ gd.id \in Nat
      /\ gd.id <= Len(replies) /\ Len(replies) \in Nat
      /\ draftEdits \in Nat /\ draftEdits <= MaxEdits /\ gd \in LocalDraftRows /\ 0 \in 0..MaxReplies /\ 0 \in Revisions
      /\ cs[s].reply <= Len(replies) /\ cs[s].reply \in Nat /\ rjobs \in [Revisions -> ReconRows]
      /\ Len(replies) <= MaxReplies /\ edited \in BOOLEAN /\ draftFaults \in Nat
      /\ replies \in Seq({"app", "person"})
      /\ gd.status = "NONE" => cs[s].pc \in {"idle", "load"}
  BY DraftNumbers, ReconsAre DEF DraftIInv, DraftTypeOK, RevisionsBounded, ComposersKnowReplies
<1>2. gd.status # "NONE"
  BY <1>1 DEF CreateIntent
<1>3. CASE gd.id = 0 /\ gd.status # "GRAPH_DRAFT_PENDING"
  <2>1. /\ gd' = [gd EXCEPT !.status = "GRAPH_DRAFT_PENDING"] /\ intentAt' = Len(replies)
        /\ cs' = [cs EXCEPT ![s].pc = "intent", ![s].rev = gd.rev]
    BY <1>3 DEF CreateIntent
  <2>2. PICK q : q = [cs[s] EXCEPT !.pc = "intent", !.rev = gd.rev]
    OBVIOUS
  <2>3. q \in ComposerStates /\ q.pc = "intent" /\ q.rev = gd.rev /\ q.reply = cs[s].reply
    BY <1>1, <2>2 DEF ComposerStates
  <2>4. cs' = [cs EXCEPT ![s] = q]
    BY <1>1, <2>1, <2>2
  <2>5. gd' \in LocalDraftRows /\ gd'.status = "GRAPH_DRAFT_PENDING" /\ gd'.id = gd.id /\ gd'.rev = gd.rev
    BY <1>1, <2>1, DraftRows DEF LocalStatuses
  <2>6. StepIsSound(s, q)
    BY <1>0, <1>1, <1>3, <2>3, <2>5 DEF StepIsSound, Carrying
  <2>7. DraftTypeOK' /\ RevisionsBounded' /\ ComposersKnowReplies'
    <3>1. intentAt' \in 0..Len(replies) /\ Len(replies) <= Len(replies')
      BY <1>0, <1>1, <2>1
    <3>2. QED
      BY <1>0, <1>1, <2>3, <2>4, <2>6, <3>1, ComposerKeeps
  <2>8. OneIntent'
    <3> SUFFICES ASSUME ~edited
                 PROVE  OneIntent'
      BY <1>0 DEF OneIntent
    <3>1. replies = <<>> /\ \A t \in Composers : cs[t].pc \notin Opening
      BY <1>3 DEF DraftIInv, OneIntent, Opening
    <3>2. cs'[s] = q /\ \A t \in Composers : t # s => cs'[t] = cs[t]
      BY <2>3, <2>4, ComposerSet
    <3>3. \A t \in Composers : cs'[t].pc \in Opening => t = s
      BY <3>1, <3>2
    <3>4. Len(replies) <= 1
      BY DEF DraftIInv, OneIntent
    <3>5. QED
      BY <1>0, <2>5, <3>1, <3>3, <3>4 DEF OneIntent, Opening
  <2>9. QED
    BY <2>7, <2>8 DEF DraftIInv
<1>4. CASE gd.id # 0 /\ gd.status = "GRAPH_DRAFT_PENDING"
  <2>1. /\ gd' = gd /\ intentAt' = intentAt
        /\ cs' = [cs EXCEPT ![s].pc = "finalize", ![s].rev = gd.rev, ![s].reply = gd.id]
    BY <1>4 DEF CreateIntent, Known
  <2>2. PICK q : q = [cs[s] EXCEPT !.pc = "finalize", !.rev = gd.rev, !.reply = gd.id]
    OBVIOUS
  <2>3. q \in ComposerStates /\ q.pc = "finalize" /\ q.rev = gd.rev /\ q.reply = gd.id
    BY <1>1, <2>2 DEF ComposerStates
  <2>4. cs' = [cs EXCEPT ![s] = q]
    BY <1>1, <2>1, <2>2
  <2>5. QED
    BY <1>0, <1>1, <1>4, <2>1, <2>3, <2>4, PlainSteps
<1>5. CASE (gd.id = 0 /\ gd.status = "GRAPH_DRAFT_PENDING") \/ (gd.id # 0 /\ gd.status # "GRAPH_DRAFT_PENDING")
  <2>1. gd' = gd /\ intentAt' = intentAt /\ cs' = [cs EXCEPT ![s] = IdleComposer]
    BY <1>5 DEF CreateIntent, Known, DraftIdle
  <2>2. IdleComposer \in ComposerStates
    BY <1>1 DEF IdleComposer, ComposerStates
  <2>3. QED
    BY <1>0, <1>1, <2>1, <2>2, PlainSteps
<1>6. QED
  BY <1>3, <1>4, <1>5

\* createReply: only the session of the one intent adds a reply.
LEMMA PostKeeps ==
  ASSUME DraftIInv, NEW s \in Composers, CreatePost(s)
  PROVE  DraftIInv'
<1>0. /\ gd' = gd /\ intentAt' = intentAt /\ edited' = edited /\ rjobs' = rjobs /\ cs[s].pc = "intent"
      /\ draftFaults' = draftFaults /\ draftEdits' = draftEdits
  BY DEF CreatePost
<1>1. /\ cs[s] \in ComposerStates /\ cs \in [Composers -> ComposerStates]
      /\ gd.rev \in Nat /\ gd.id \in Nat /\ gd.id <= Len(replies) /\ Len(replies) \in Nat
      /\ draftEdits \in Nat /\ draftEdits <= MaxEdits /\ gd \in LocalDraftRows
      /\ cs[s].rev <= gd.rev /\ cs[s].rev \in Nat /\ cs[s].reply \in Nat /\ cs[s].reply <= Len(replies)
      /\ rjobs \in [Revisions -> ReconRows] /\ Len(replies) <= MaxReplies /\ MaxReplies \in Nat
      /\ edited \in BOOLEAN /\ draftFaults \in Nat
      /\ replies \in Seq({"app", "person"}) /\ intentAt \in 0..Len(replies)
      /\ gd.status # "NONE" /\ (gd.status = "GRAPH_DRAFT_CREATED" => gd.id # 0)
  BY <1>0, DraftNumbers, ReconsAre DEF DraftIInv, DraftTypeOK, RevisionsBounded, ComposersKnowReplies
<1>2. CASE replies' = replies
  <2>1. PICK pc \in {"lost", "refused"} : DraftGoTo(s, pc)
    <3>1. replies # Append(replies, "app")
      <4>1. Len(Append(replies, "app")) = Len(replies) + 1
        BY <1>1, AppendProperties
      <4>2. QED
        BY <1>1, <4>1
    <3>2. QED
      BY <1>2, <3>1 DEF CreatePost
  <2>2. PICK q : q = [cs[s] EXCEPT !.pc = pc]
    OBVIOUS
  <2>3. q \in ComposerStates /\ q.pc = pc /\ q.rev = cs[s].rev /\ q.reply = cs[s].reply
    BY <1>1, <2>2 DEF ComposerStates
  <2>4. cs' = [cs EXCEPT ![s] = q]
    BY <2>1, <2>2 DEF DraftGoTo
  <2>5. QED
    BY <1>0, <1>1, <1>2, <2>1, <2>3, <2>4, PlainSteps
<1>3. CASE Len(replies) < MaxReplies /\ replies' = Append(replies, "app")
  <2>1. /\ replies' \in Seq({"app", "person"}) /\ Len(replies') = Len(replies) + 1
    BY <1>1, <1>3, AppendProperties
  <2>2. /\ Len(replies') <= MaxReplies /\ Len(replies) <= Len(replies') /\ intentAt \in 0..Len(replies')
        /\ gd.id <= Len(replies') /\ cs[s].reply <= Len(replies') /\ Len(replies) + 1 \in 0..MaxReplies
        /\ Len(replies) + 1 >= 1
    BY <1>1, <1>3, <2>1
  <2>3. PICK q \in ComposerStates :
          /\ cs' = [cs EXCEPT ![s] = q] /\ q.rev = cs[s].rev
          /\ \/ q.pc = "lost" /\ q.reply = cs[s].reply
             \/ q.pc = "created" /\ q.reply = Len(replies) + 1
    <3>1. CASE DraftGoTo(s, "lost")
      <4>1. PICK q : q = [cs[s] EXCEPT !.pc = "lost"]
        OBVIOUS
      <4>2. q \in ComposerStates /\ q.pc = "lost" /\ q.rev = cs[s].rev /\ q.reply = cs[s].reply
        BY <1>1, <4>1 DEF ComposerStates
      <4>3. cs' = [cs EXCEPT ![s] = q]
        BY <3>1, <4>1 DEF DraftGoTo
      <4>4. QED
        BY <4>2, <4>3
    <3>2. CASE cs' = [cs EXCEPT ![s].pc = "created", ![s].reply = Len(replies) + 1]
      <4>1. PICK q : q = [cs[s] EXCEPT !.pc = "created", !.reply = Len(replies) + 1]
        OBVIOUS
      <4>2. q \in ComposerStates /\ q.pc = "created" /\ q.rev = cs[s].rev /\ q.reply = Len(replies) + 1
        BY <1>1, <2>2, <4>1 DEF ComposerStates
      <4>3. cs' = [cs EXCEPT ![s] = q]
        BY <1>1, <3>2, <4>1
      <4>4. QED
        BY <4>2, <4>3
    <3>3. replies' # replies
      BY <1>1, <2>1
    <3>4. QED
      BY <3>1, <3>2, <3>3 DEF CreatePost
  <2>4. StepIsSound(s, q)
    BY <1>0, <1>1, <2>1, <2>2, <2>3 DEF StepIsSound, Carrying
  <2>5. DraftTypeOK' /\ RevisionsBounded' /\ ComposersKnowReplies'
    BY <1>0, <1>1, <2>1, <2>2, <2>3, <2>4, ComposerKeeps
  <2>6. OneIntent'
    <3> SUFFICES ASSUME ~edited
                 PROVE  OneIntent'
      BY <1>0 DEF OneIntent
    <3>1. /\ replies = <<>> /\ gd.status = "GRAPH_DRAFT_PENDING"
          /\ \A t \in Composers : cs[t].pc \in Opening => t = s
      BY <1>0 DEF DraftIInv, OneIntent, Opening
    <3>2. cs'[s] = q /\ \A t \in Composers : t # s => cs'[t] = cs[t]
      BY <2>3, ComposerSet
    <3>3. \A t \in Composers : cs'[t].pc \notin Opening
      BY <2>3, <3>1, <3>2 DEF Opening
    <3>4. Len(replies') <= 1
      BY <2>1, <3>1
    <3>5. QED
      BY <1>0, <3>1, <3>3, <3>4 DEF OneIntent, Opening
  <2>7. QED
    BY <2>5, <2>6 DEF DraftIInv
<1>4. QED
  BY <1>2, <1>3 DEF CreatePost

\* People: the draft is generated or edited, a reply is started in Outlook.
LEMMA PeopleKeep ==
  ASSUME DraftIInv, GenerateDraft \/ EditDraft \/ OutlookReply
  PROVE  DraftIInv'
<1>0. /\ cs' = cs /\ intentAt' = intentAt /\ rjobs' = rjobs /\ draftFaults' = draftFaults
  BY DEF GenerateDraft, EditDraft, OutlookReply
<1>1. /\ gd.rev \in Nat /\ gd.id \in Nat /\ gd.id <= Len(replies) /\ Len(replies) \in Nat
      /\ draftEdits \in Nat /\ draftEdits <= MaxEdits /\ MaxEdits \in Nat /\ gd \in LocalDraftRows /\ 0 \in 0..MaxReplies
      /\ replies \in Seq({"app", "person"}) /\ intentAt \in 0..Len(replies) /\ Len(replies) <= MaxReplies
      /\ MaxReplies \in Nat /\ edited \in BOOLEAN
      /\ \A s \in Composers : cs[s].rev \in Nat /\ cs[s].reply \in Nat
  BY DraftNumbers DEF DraftIInv, DraftTypeOK
<1>2. DraftTypeOK /\ RevisionsBounded /\ ComposersKnowReplies /\ OneIntent
  BY DEF DraftIInv
<1>3. CASE GenerateDraft
  <2>1. /\ gd.status = "NONE" /\ gd' = [status |-> "LOCAL_DRAFT", id |-> 0, rev |-> 1] /\ replies' = replies
        /\ edited' = edited /\ draftEdits' = draftEdits
    BY <1>3 DEF GenerateDraft
  <2>2. gd' \in LocalDraftRows /\ gd'.status = "LOCAL_DRAFT" /\ gd'.id = 0 /\ gd'.rev = 1
    BY <1>1, <2>1 DEF LocalDraftRows, LocalStatuses
  <2>3. gd.rev = 0 /\ gd.id = 0 /\ \A s \in Composers : cs[s].pc \in {"idle", "load"} /\ cs[s].rev <= gd.rev
    BY <1>2, <2>1 DEF RevisionsBounded
  <2>4. DraftTypeOK'
    BY <1>0, <1>1, <1>2, <2>1, <2>2 DEF DraftTypeOK
  <2>5. RevisionsBounded'
    <3>1. \A s \in Composers : cs[s].rev <= 1
      BY <1>1, <2>3
    <3>2. 1 <= 1 + draftEdits
      BY <1>1
    <3>3. QED
      BY <1>0, <1>1, <2>1, <2>2, <3>1, <3>2 DEF RevisionsBounded
  <2>6. ComposersKnowReplies' /\ OneIntent'
    BY <1>0, <1>2, <2>1, <2>2, <2>3 DEF ComposersKnowReplies, OneIntent
  <2>7. QED
    BY <2>4, <2>5, <2>6 DEF DraftIInv
<1>4. CASE EditDraft
  <2>1. /\ gd.status # "NONE" /\ gd' = [gd EXCEPT !.status = "REVIEW_IN_PROGRESS", !.rev = gd.rev + 1]
        /\ replies' = replies /\ draftEdits' = draftEdits + 1 /\ draftEdits < MaxEdits
        /\ edited' = (edited \/ gd.status = "GRAPH_DRAFT_PENDING")
    BY <1>4 DEF EditDraft
  <2>2. gd' \in LocalDraftRows /\ gd'.status = "REVIEW_IN_PROGRESS" /\ gd'.id = gd.id /\ gd'.rev = gd.rev + 1
    BY <1>1, <2>1, DraftRows DEF LocalStatuses
  <2>3. DraftTypeOK'
    <3>1. edited' \in BOOLEAN
      BY <2>1
    <3>2. draftEdits' \in Nat
      BY <1>1, <2>1
    <3>3. QED
      BY <1>0, <1>1, <1>2, <2>1, <2>2, <3>1, <3>2 DEF DraftTypeOK
  <2>4. RevisionsBounded'
    <3>1. \A s \in Composers : cs[s].rev <= gd.rev /\ cs[s].rev < gd.rev + 1
      BY <1>1, <1>2 DEF RevisionsBounded
    <3>2. \A s \in Composers : cs[s].rev <= gd.rev + 1
      BY <1>1, <3>1
    <3>3. gd.rev + 1 <= 1 + (draftEdits + 1) \/ (gd.rev + 1 <= 2 + (draftEdits + 1) /\ gd.id # 0)
      BY <1>1, <1>2 DEF RevisionsBounded
    <3>4. draftEdits + 1 <= MaxEdits
      BY <1>1, <2>1
    <3>5. QED
      BY <1>0, <2>1, <2>2, <3>1, <3>2, <3>3, <3>4 DEF RevisionsBounded
  <2>5. ComposersKnowReplies'
    BY <1>0, <1>2, <2>1, <2>2 DEF ComposersKnowReplies
  <2>6. OneIntent'
    <3> SUFFICES ASSUME ~edited'
                 PROVE  OneIntent'
      BY DEF OneIntent
    <3>1. ~edited /\ gd.status # "GRAPH_DRAFT_PENDING"
      BY <2>1
    <3>2. QED
      BY <1>0, <1>2, <2>1, <2>2, <3>1 DEF OneIntent
  <2>7. QED
    BY <2>3, <2>4, <2>5, <2>6 DEF DraftIInv
<1>5. CASE OutlookReply
  <2>1. /\ gd' = gd /\ replies' = Append(replies, "person") /\ Len(replies) < MaxReplies
        /\ draftEdits' = draftEdits + 1 /\ draftEdits < MaxEdits /\ edited' = TRUE
    BY <1>5 DEF OutlookReply
  <2>2. replies' \in Seq({"app", "person"}) /\ Len(replies') = Len(replies) + 1
    BY <1>1, <2>1, AppendProperties
  <2>3. /\ Len(replies') <= MaxReplies /\ Len(replies) <= Len(replies') /\ intentAt \in 0..Len(replies')
        /\ gd.id <= Len(replies') /\ draftEdits' \in Nat /\ draftEdits' <= MaxEdits
        /\ \A s \in Composers : cs[s].reply <= Len(replies')
    BY <1>1, <1>2, <2>1, <2>2 DEF ComposersKnowReplies
  <2>4. DraftTypeOK'
    BY <1>0, <1>1, <1>2, <2>1, <2>2, <2>3 DEF DraftTypeOK
  <2>5. RevisionsBounded'
    <3>1. \/ gd.rev <= 1 + draftEdits'
          \/ /\ gd.rev <= 2 + draftEdits' /\ gd.id # 0 /\ gd.status # "GRAPH_DRAFT_PENDING"
             /\ \A s \in Composers : cs[s].pc \in {"intent", "created", "finalize"} => cs[s].rev < gd.rev
      BY <1>1, <1>2, <2>1 DEF RevisionsBounded
    <3>2. QED
      BY <1>0, <1>2, <2>1, <2>3, <3>1 DEF RevisionsBounded
  <2>6. ComposersKnowReplies' /\ OneIntent'
    BY <1>0, <1>2, <2>1, <2>3 DEF ComposersKnowReplies, OneIntent
  <2>7. QED
    BY <2>4, <2>5, <2>6 DEF DraftIInv
<1>6. QED
  BY <1>3, <1>4, <1>5

LEMMA DraftStarts == DraftInit => DraftIInv
<1> SUFFICES ASSUME DraftInit
             PROVE  DraftIInv
  OBVIOUS
<1>0. MaxReplies \in Nat /\ MaxEdits \in Nat /\ ReconDraftMax \in Nat
  BY DraftAssumption
<1>1. 0 \in Revisions /\ 0 \in 0..MaxReplies /\ 0 \in 0..ReconDraftMax /\ 0 <= MaxReplies /\ 0 <= MaxEdits
  BY <1>0 DEF Revisions
<1>2. IdleComposer \in ComposerStates /\ IdleComposer.pc = "idle" /\ IdleComposer.rev = 0 /\ IdleComposer.reply = 0
  BY <1>1 DEF IdleComposer, ComposerStates
<1>3. replies = <<>> /\ replies \in Seq({"app", "person"}) /\ Len(replies) = 0 /\ intentAt \in 0..Len(replies)
  BY DEF DraftInit
<1>4. gd \in LocalDraftRows /\ gd.status = "NONE" /\ gd.id = 0 /\ gd.rev = 0
  BY <1>1 DEF DraftInit, LocalDraftRows, LocalStatuses
<1>5. cs \in [Composers -> ComposerStates] /\ \A s \in Composers : cs[s] = IdleComposer
  BY <1>2 DEF DraftInit
<1>6. rjobs \in [Revisions -> ReconRows]
  BY <1>1 DEF DraftInit, ReconRows
<1>7. edited = FALSE /\ draftEdits = 0 /\ draftFaults = 0
  BY DEF DraftInit
<1>8. DraftTypeOK
  <2>1. gd.id <= Len(replies) /\ Len(replies) <= MaxReplies /\ draftEdits \in Nat /\ draftFaults \in Nat
    BY <1>1, <1>3, <1>4, <1>7
  <2>2. gd.status # "GRAPH_DRAFT_CREATED"
    BY <1>4
  <2>3. edited \in BOOLEAN
    BY <1>7
  <2>4. QED
    BY <1>3, <1>4, <1>5, <1>6, <2>1, <2>2, <2>3 DEF DraftTypeOK, ReconRows
<1>9. RevisionsBounded /\ ComposersKnowReplies /\ OneIntent
  BY <1>1, <1>2, <1>3, <1>4, <1>5, <1>7 DEF RevisionsBounded, ComposersKnowReplies, OneIntent
<1>10. QED
  BY <1>8, <1>9 DEF DraftIInv

LEMMA DraftStays == DraftIInv /\ [DraftNext]_draftVars => DraftIInv'
<1> SUFFICES ASSUME DraftIInv, [DraftNext]_draftVars
             PROVE  DraftIInv'
  OBVIOUS
<1>1. CASE GenerateDraft \/ EditDraft \/ OutlookReply
  BY <1>1, PeopleKeep
<1>2. ASSUME NEW s \in Composers,
             \/ CreateStarts(s) \/ ReconcileRequest(s) \/ \E r \in Revisions : ReconcileClaim(s, r)
             \/ ComposerStep(s) \/ FinalizeFails(s) \/ FinalizeFindsSent(s) \/ ComposerCrash(s)
      PROVE  DraftIInv'
  BY <1>2, DraftPlain, FinalizeKeeps, RecordKeeps, IntentIsOne, PostKeeps DEF ComposerStep
<1>3. CASE UNCHANGED draftVars
  <2>1. UNCHANGED <<gd, replies, intentAt, rjobs, cs, edited, draftEdits, draftFaults>>
    BY <1>3 DEF draftVars
  <2>2. DraftTypeOK'
    BY <2>1 DEF DraftIInv, DraftTypeOK
  <2>3. RevisionsBounded' /\ ComposersKnowReplies'
    BY <2>1 DEF DraftIInv, RevisionsBounded, ComposersKnowReplies
  <2>4. OneIntent'
    BY <2>1 DEF DraftIInv, OneIntent
  <2>5. QED
    BY <2>2, <2>3, <2>4 DEF DraftIInv
<1>4. QED
  BY <1>1, <1>2, <1>3 DEF DraftNext

\* Without interference a step adds a reply only to an empty conversation and keeps the identity.
LEMMA ReplyStep ==
  ASSUME DraftIInv, DraftNext, ~edited'
  PROVE  /\ Len(replies') > Len(replies) => replies = <<>>
         /\ gd.id # 0 => gd'.id = gd.id
<1>0. ~edited
  BY DEF DraftNext, GenerateDraft, EditDraft, OutlookReply, CreateStarts, ReconcileRequest, ReconcileClaim,
         ComposerStep, CreateIntent, CreatePost, CreateRecords, Finalizes, ReconcileAdopts, ReconcileKnown,
         ReconcileGivesUp, FinalizeFails, FinalizeFindsSent, ComposerCrash
<1>1. /\ Len(replies) \in Nat /\ gd.id \in Nat /\ gd.id <= Len(replies) /\ Len(replies) <= 1
      /\ gd \in LocalDraftRows
  BY <1>0, DraftNumbers DEF DraftIInv, OneIntent, DraftTypeOK
<1>2. \A st \in LocalStatuses : [gd EXCEPT !.status = st].id = gd.id /\ [gd EXCEPT !.status = st, !.rev = gd.rev + 1].id = gd.id
  BY <1>1 DEF LocalDraftRows
<1>3. CASE GenerateDraft \/ EditDraft \/ OutlookReply
  <2>1. GenerateDraft => gd.id = 0 /\ replies' = replies
    BY DEF GenerateDraft, DraftIInv, RevisionsBounded
  <2>2. EditDraft => gd'.id = gd.id /\ replies' = replies
    BY <1>2 DEF EditDraft, LocalStatuses
  <2>3. ~OutlookReply
    BY DEF OutlookReply
  <2>4. QED
    BY <1>1, <1>3, <2>1, <2>2, <2>3
<1>4. ASSUME NEW s \in Composers, CreatePost(s)
      PROVE  gd' = gd /\ replies = <<>>
  BY <1>0, <1>4 DEF CreatePost, DraftIInv, OneIntent
<1>5. ASSUME NEW s \in Composers, CreateRecords(s)
      PROVE  replies' = replies /\ (gd.id # 0 => gd'.id = gd.id)
  <2>1. cs[s].reply \in Nat /\ cs[s].reply <= Len(replies) /\ (cs[s].pc = "created" => cs[s].reply >= 1)
    BY DraftNumbers DEF DraftIInv, ComposersKnowReplies
  <2>2. CASE cs[s].pc = "created"
    <3>1. gd' = [gd EXCEPT !.id = cs[s].reply]
      BY <1>5, <2>2 DEF CreateRecords
    <3>2. gd'.id = cs[s].reply
      BY <1>1, <3>1 DEF LocalDraftRows
    <3>3. QED
      BY <1>1, <1>5, <2>1, <2>2, <3>2 DEF CreateRecords
  <2>3. CASE cs[s].pc # "created"
    <3>1. gd' \in {gd, [gd EXCEPT !.status = "SEND_FAILED_REVIEW"]} /\ replies' = replies
      BY <1>5, <2>3 DEF CreateRecords
    <3>2. QED
      BY <1>2, <3>1 DEF LocalStatuses
  <2>4. QED
    BY <2>2, <2>3
<1>6. ASSUME NEW s \in Composers,
             \/ CreateStarts(s) \/ ReconcileRequest(s) \/ \E r \in Revisions : ReconcileClaim(s, r)
             \/ CreateIntent(s) \/ Finalizes(s) \/ ReconcileAdopts(s) \/ ReconcileKnown(s) \/ ReconcileGivesUp(s)
             \/ FinalizeFails(s) \/ FinalizeFindsSent(s) \/ ComposerCrash(s)
      PROVE  replies' = replies /\ (gd.id # 0 => gd'.id = gd.id)
  <2>1. replies' = replies
    BY <1>6 DEF CreateStarts, ReconcileRequest, ReconcileClaim, CreateIntent, Finalizes, ReconcileAdopts, ReconcileKnown,
                ReconcileGivesUp, FinalizeFails, FinalizeFindsSent, ComposerCrash
  <2>2. \/ gd.id = 0
        \/ \E st \in LocalStatuses : gd' \in {gd, [gd EXCEPT !.status = st], [gd EXCEPT !.status = st, !.rev = gd.rev + 1]}
    <3>1. CASE CreateStarts(s) \/ ReconcileRequest(s) \/ (\E r \in Revisions : ReconcileClaim(s, r))
               \/ ReconcileKnown(s) \/ ReconcileGivesUp(s) \/ ComposerCrash(s)
      BY <3>1 DEF CreateStarts, ReconcileRequest, ReconcileClaim, ReconcileKnown, ReconcileGivesUp, ComposerCrash,
                  LocalStatuses
    <3>2. CASE CreateIntent(s) \/ ReconcileAdopts(s)
      BY <3>2 DEF CreateIntent, ReconcileAdopts, LocalStatuses
    <3>3. CASE Finalizes(s) \/ FinalizeFindsSent(s) \/ FinalizeFails(s)
      BY <3>3 DEF Finalizes, FinalizeFindsSent, FinalizeFails, LocalStatuses
    <3>4. QED
      BY <1>6, <3>1, <3>2, <3>3
  <2>3. QED
    BY <1>2, <2>1, <2>2
<1>7. QED
  BY <1>1, <1>3, <1>4, <1>5, <1>6 DEF DraftNext, ComposerStep

LEMMA MailSteps ==
  ASSUME [MailNext]_<<focus, intakeVars, draftVars, attVars>>
  PROVE  [DraftNext]_draftVars /\ [AttNext]_attVars
BY DEF MailNext

LEMMA DraftAlways == MailSpec => []DraftIInv
<1>1. MailInit => DraftIInv
  BY DraftStarts DEF MailInit
<1>2. DraftIInv /\ [MailNext]_<<focus, intakeVars, draftVars, attVars>> => DraftIInv'
  BY MailSteps, DraftStays
<1>3. QED
  BY <1>1, <1>2, PTL DEF MailSpec

\* One createReply per draft: while nobody edits an unresolved draft or replies in Outlook, no
\* order of requests, retries, reconciliations, crashes and lost answers makes the application
\* create a second reply, or replace the identity it stored.
THEOREM RepliesAreNotRepeated == MailSpec => OneReply
<1>1. DraftIInv /\ [MailNext]_<<focus, intakeVars, draftVars, attVars>> =>
        [~edited' => /\ Len(replies') > Len(replies) => replies = <<>>
                     /\ gd.id # 0 => gd'.id = gd.id]_draftVars
  BY MailSteps, ReplyStep
<1>2. QED
  BY <1>1, DraftAlways, PTL DEF MailSpec, OneReply

(***************************************************************************)
(* The attachments                                                         *)
(***************************************************************************)

UpRecords == [pc : {"idle", "next", "post", "doubt"}, todo : SUBSET (1..MaxSelections),
              row : 0..MaxSelections, ok : Seq((1..MaxSelections) \X Nat)]
RmRecords == [pc : {"idle", "delete", "close"}, row : 0..MaxSelections]

LEMMA AttFacts ==
  ASSUME AttIInv
  PROVE  /\ MaxSelections \in Nat /\ "gone" \notin Docs /\ atts \in Seq(AttRows) /\ Len(atts) \in Nat
         /\ DOMAIN atts = 1..Len(atts) /\ Len(atts) <= MaxSelections /\ DOMAIN atts \subseteq 1..MaxSelections
         /\ copies \in Seq(Docs \cup {"gone"}) /\ Len(copies) \in Nat /\ DOMAIN copies = 1..Len(copies)
         /\ 0 \notin DOMAIN copies /\ frozen \in BOOLEAN /\ uploads \in Nat /\ attFaults \in Nat
         /\ up \in UpRecords /\ rm \in RmRecords /\ late \subseteq DOMAIN atts
         /\ \A i \in DOMAIN atts : /\ atts[i] \in AttRows /\ atts[i].doc \in Docs /\ atts[i].gid \in Nat
                                   /\ atts[i].removed \in BOOLEAN /\ atts[i].status \in AttStatuses
<1>0. AttTypeOK
  BY DEF AttIInv
<1>1. MaxSelections \in Nat /\ "gone" \notin Docs
  BY AttachmentAssumption
<1>2. /\ atts \in Seq(AttRows) /\ Len(atts) <= MaxSelections /\ copies \in Seq(Docs \cup {"gone"})
      /\ frozen \in BOOLEAN /\ uploads \in Nat /\ attFaults \in Nat /\ late \subseteq DOMAIN atts
  BY <1>0 DEF AttTypeOK
<1>3. up \in UpRecords /\ rm \in RmRecords
  BY <1>0 DEF AttTypeOK, UpRecords, RmRecords
<1>4. Len(atts) \in Nat /\ DOMAIN atts = 1..Len(atts) /\ Len(copies) \in Nat /\ DOMAIN copies = 1..Len(copies)
  BY <1>2
<1>5. DOMAIN atts \subseteq 1..MaxSelections /\ 0 \notin DOMAIN copies
  BY <1>1, <1>2, <1>4
<1>6. \A i \in DOMAIN atts : atts[i] \in AttRows
  BY <1>2, <1>4
<1>7. \A i \in DOMAIN atts : /\ atts[i].doc \in Docs /\ atts[i].gid \in Nat
                             /\ atts[i].removed \in BOOLEAN /\ atts[i].status \in AttStatuses
  BY <1>6 DEF AttRows
<1>8. QED
  BY <1>1, <1>2, <1>3, <1>4, <1>5, <1>6, <1>7

\* What the upload session is, and the rows it works on.
LEMMA UpFacts ==
  ASSUME AttIInv
  PROVE  /\ up.pc \in {"idle", "next", "post", "doubt"} /\ up.todo \subseteq DOMAIN atts
         /\ up.row \in 0..MaxSelections /\ (up.pc \in {"post", "doubt"} => up.row \in DOMAIN atts)
         /\ up.ok \in Seq((1..MaxSelections) \X Nat) /\ Len(up.ok) \in Nat /\ DOMAIN up.ok = 1..Len(up.ok)
         /\ \A k \in DOMAIN up.ok : /\ up.ok[k] \in (1..MaxSelections) \X Nat
                                    /\ up.ok[k][1] \in DOMAIN atts /\ up.ok[k][2] \in DOMAIN copies
                                    /\ up.ok[k][1] \in UploadRows /\ up.ok[k][2] \in Nat
         /\ \A i \in up.todo : i \in UploadRows
         /\ up.pc \in {"post", "doubt"} => up.row \in UploadRows
         /\ \A i \in UploadRows : i \in DOMAIN atts /\ atts[i].gid = 0 /\ (atts[i].status = "VALIDATED" \/ atts[i].removed)
<1>1. UploadIsOwn /\ up \in UpRecords
  BY AttFacts DEF AttIInv
<1>2. /\ up.pc \in {"idle", "next", "post", "doubt"} /\ up.row \in 0..MaxSelections
      /\ up.ok \in Seq((1..MaxSelections) \X Nat)
  BY <1>1 DEF UpRecords
<1>3. Len(up.ok) \in Nat /\ DOMAIN up.ok = 1..Len(up.ok)
      /\ \A k \in DOMAIN up.ok : up.ok[k] \in (1..MaxSelections) \X Nat
  BY <1>2
<1>4. /\ \A k \in DOMAIN up.ok : up.ok[k][1] \in UploadRows
      /\ \A i \in up.todo : i \in UploadRows
      /\ up.pc \in {"post", "doubt"} => up.row \in UploadRows
  BY DEF UploadRows
<1>5. \A i \in UploadRows : i \in DOMAIN atts /\ atts[i].gid = 0 /\ (atts[i].status = "VALIDATED" \/ atts[i].removed)
  BY <1>1 DEF UploadIsOwn
<1>6. \A k \in DOMAIN up.ok : up.ok[k][2] \in DOMAIN copies
  BY <1>1 DEF UploadIsOwn
<1>7. \A k \in DOMAIN up.ok : up.ok[k][2] \in Nat
  BY <1>3
<1>8. QED
  BY <1>2, <1>3, <1>4, <1>5, <1>6, <1>7

\* A session that is over works on nothing.
LEMMA UploadOver ==
  ASSUME MaxSelections \in Nat, up' = NoUpload
  PROVE  up' \in UpRecords /\ UploadIsOwn'
<1>1. up'.pc = "idle" /\ up'.todo = {} /\ up'.row = 0 /\ up'.ok = <<>> /\ up' \in UpRecords
  BY DEF NoUpload, UpRecords
<1>2. DOMAIN up'.ok = {}
  BY <1>1
<1>3. UploadRows' = {}
  BY <1>1, <1>2 DEF UploadRows
<1>4. QED
  BY <1>1, <1>2, <1>3 DEF UploadIsOwn

\* A commit of the rows that were uploaded, and of one that is refused.
LEMMA CommitKeeps ==
  ASSUME AttIInv, NEW refused \in SUBSET UploadRows, atts' = Committed(refused), up' = NoUpload,
         UNCHANGED <<copies, frozen, rm, late, uploads, attFaults>>
  PROVE  AttIInv'
<1>0. /\ AttTypeOK /\ CopiesAreOwned /\ UploadIsOwn /\ RemovalIsOwn /\ OneCopy /\ FrozenIsUploaded /\ QueuedIsComplete
  BY DEF AttIInv
<1>1. DOMAIN atts' = DOMAIN atts
  BY DEF Committed
<1>2. ASSUME NEW i \in DOMAIN atts
      PROVE  \/ \E k \in DOMAIN up.ok : /\ up.ok[k][1] = i
                                        /\ atts'[i] = [atts[i] EXCEPT !.status = "GRAPH_UPLOADED", !.gid = up.ok[k][2]]
             \/ i \in UploadRows /\ atts'[i] = [atts[i] EXCEPT !.status = "FAILED_REVIEW"]
             \/ atts'[i] = atts[i]
  BY DEF Committed
<1>3. ASSUME NEW i \in DOMAIN atts
      PROVE  /\ atts'[i] \in AttRows /\ atts'[i].doc = atts[i].doc /\ atts'[i].removed = atts[i].removed
             /\ \/ /\ i \in UploadRows /\ atts'[i].status = "GRAPH_UPLOADED"
                   /\ \E k \in DOMAIN up.ok : up.ok[k][1] = i /\ atts'[i].gid = up.ok[k][2]
                \/ i \in UploadRows /\ atts'[i].status = "FAILED_REVIEW" /\ atts'[i].gid = atts[i].gid
                \/ atts'[i] = atts[i]
  <2>0. atts[i] \in AttRows
    BY AttFacts
  <2>1. ASSUME NEW k \in DOMAIN up.ok, up.ok[k][1] = i,
               atts'[i] = [atts[i] EXCEPT !.status = "GRAPH_UPLOADED", !.gid = up.ok[k][2]]
        PROVE  /\ atts'[i] \in AttRows /\ atts'[i].doc = atts[i].doc /\ atts'[i].removed = atts[i].removed
               /\ i \in UploadRows /\ atts'[i].status = "GRAPH_UPLOADED" /\ atts'[i].gid = up.ok[k][2]
    <3>1. up.ok[k][2] \in Nat /\ i \in UploadRows
      BY <2>1, UpFacts
    <3>2. PICK n \in Nat : n = up.ok[k][2]
      BY <3>1
    <3>3. atts'[i] = [atts[i] EXCEPT !.status = "GRAPH_UPLOADED", !.gid = n]
      BY <2>1, <3>2
    <3>4. QED
      BY <2>0, <3>1, <3>2, <3>3 DEF AttRows, AttStatuses
  <2>2. ASSUME i \in UploadRows, atts'[i] = [atts[i] EXCEPT !.status = "FAILED_REVIEW"]
        PROVE  /\ atts'[i] \in AttRows /\ atts'[i].doc = atts[i].doc /\ atts'[i].removed = atts[i].removed
               /\ atts'[i].status = "FAILED_REVIEW" /\ atts'[i].gid = atts[i].gid
    BY <2>0, <2>2 DEF AttRows, AttStatuses
  <2>3. QED
    BY <1>2, <2>0, <2>1, <2>2
<1>4. atts' \in Seq(AttRows) /\ Len(atts') = Len(atts)
  <2>1. atts' = [i \in 1..Len(atts) |-> atts'[i]] /\ \A i \in 1..Len(atts) : atts'[i] \in AttRows
    BY <1>3, AttFacts DEF Committed
  <2>2. atts' \in [1..Len(atts) -> AttRows]
    BY <2>1
  <2>3. QED
    BY <2>2, AttFacts
<1>5. up' \in UpRecords /\ UploadIsOwn'
  BY AttFacts, UploadOver
<1>6. \A k \in DOMAIN up.ok : /\ up.ok[k][2] \in DOMAIN copies /\ up.ok[k][2] # 0
                              /\ copies[up.ok[k][2]] \in {atts[up.ok[k][1]].doc, "gone"}
                              /\ \A i \in DOMAIN atts : up.ok[k][2] # atts[i].gid
                              /\ \A l \in DOMAIN up.ok : up.ok[k][2] = up.ok[l][2] => k = l
  BY <1>0, AttFacts DEF UploadIsOwn, Pins
<1>7. CopiesAreOwned'
  <2>1. ASSUME NEW i \in DOMAIN atts, atts'[i].gid # 0
        PROVE  atts'[i].gid \in DOMAIN copies /\ copies[atts'[i].gid] \in {atts'[i].doc, "gone"}
    BY <1>0, <1>3, <1>6, <2>1 DEF CopiesAreOwned
  <2>2. ASSUME NEW i \in DOMAIN atts, NEW j \in DOMAIN atts, atts'[i].gid = atts'[j].gid, atts'[i].gid # 0
        PROVE  i = j
    <3>1. \/ atts'[i].gid = atts[i].gid \/ \E k \in DOMAIN up.ok : up.ok[k][1] = i /\ atts'[i].gid = up.ok[k][2]
      BY <1>3
    <3>2. \/ atts'[j].gid = atts[j].gid \/ \E k \in DOMAIN up.ok : up.ok[k][1] = j /\ atts'[j].gid = up.ok[k][2]
      BY <1>3
    <3>3. QED
      BY <1>0, <1>6, <2>2, <3>1, <3>2 DEF CopiesAreOwned
  <2>3. ASSUME NEW i \in DOMAIN atts
        PROVE  /\ atts'[i].status = "GRAPH_UPLOADED" => atts'[i].gid # 0
               /\ atts'[i].status = "VALIDATED" => atts'[i].gid = 0
    BY <1>0, <1>3, <1>6 DEF CopiesAreOwned
  <2>4. QED
    BY <1>1, <2>1, <2>2, <2>3 DEF CopiesAreOwned
<1>8. AttTypeOK'
  <2>1. \A i \in DOMAIN atts' : atts'[i].status = "GRAPH_UPLOADED" => atts'[i].gid \in DOMAIN copies'
    BY <1>1, <1>7 DEF CopiesAreOwned
  <2>2. QED
    BY <1>0, <1>1, <1>4, <1>5, <2>1, AttFacts DEF AttTypeOK, UpRecords
<1>9. RemovalIsOwn'
  BY <1>0, <1>1, <1>3, <1>6 DEF RemovalIsOwn
<1>10. ASSUME frozen, NEW i \in DOMAIN atts, ~atts'[i].removed
       PROVE  i \in LiveAtts /\ atts'[i] = atts[i]
  <2>1. i \in LiveAtts
    BY <1>3, <1>10 DEF LiveAtts
  <2>2. atts[i].status = "GRAPH_UPLOADED"
    BY <1>0, <1>10, <2>1 DEF FrozenIsUploaded
  <2>3. i \notin UploadRows
    BY <2>1, <2>2, UpFacts DEF LiveAtts
  <2>4. QED
    BY <1>3, <2>1, <2>3
<1>11. FrozenIsUploaded' /\ QueuedIsComplete'
  BY <1>0, <1>1, <1>10 DEF FrozenIsUploaded, QueuedIsComplete, LiveAtts
<1>12. OneCopy'
  BY <1>0 DEF OneCopy
<1>13. QED
  BY <1>5, <1>7, <1>8, <1>9, <1>11, <1>12 DEF AttIInv

\* The rows stay as they are and Graph gains at most a copy of a document it has none of.
LEMMA RowsStay ==
  ASSUME AttIInv, UNCHANGED <<atts, frozen, rm, late>>, up' \in UpRecords, UploadIsOwn', uploads' \in Nat, attFaults' \in Nat,
         \/ copies' = copies
         \/ \E d \in Docs : CopiesOf(d) = {} /\ copies' = Append(copies, d)
  PROVE  AttIInv'
<1>0. /\ AttTypeOK /\ CopiesAreOwned /\ RemovalIsOwn /\ OneCopy /\ FrozenIsUploaded /\ QueuedIsComplete
  BY DEF AttIInv
<1>1. /\ copies' \in Seq(Docs \cup {"gone"}) /\ DOMAIN copies \subseteq DOMAIN copies'
      /\ \A e \in DOMAIN copies : copies'[e] = copies[e]
      /\ OneCopy'
  <2>1. CASE copies' = copies
    BY <1>0, <2>1, AttFacts DEF OneCopy
  <2>2. ASSUME NEW d \in Docs, CopiesOf(d) = {}, copies' = Append(copies, d)
        PROVE  /\ copies' \in Seq(Docs \cup {"gone"}) /\ DOMAIN copies \subseteq DOMAIN copies'
               /\ \A e \in DOMAIN copies : copies'[e] = copies[e]
               /\ OneCopy'
    <3>1. /\ copies \in Seq(Docs \cup {"gone"}) /\ d \in Docs \cup {"gone"} /\ Len(copies) \in Nat
          /\ DOMAIN copies = 1..Len(copies)
      BY AttFacts
    <3>2. /\ copies' \in Seq(Docs \cup {"gone"}) /\ Len(copies') = Len(copies) + 1
          /\ \A e \in 1..Len(copies) : copies'[e] = copies[e]
          /\ copies'[Len(copies) + 1] = d
      <4>1. PICK cset : cset = Docs \cup {"gone"}
        OBVIOUS
      <4>2. copies \in Seq(cset) /\ d \in cset
        BY <3>1, <4>1
      <4>3. /\ Append(copies, d) \in Seq(cset) /\ Len(Append(copies, d)) = Len(copies) + 1
            /\ \A e \in 1..Len(copies) : Append(copies, d)[e] = copies[e]
            /\ Append(copies, d)[Len(copies) + 1] = d
        BY <4>2, AppendProperties
      <4>4. QED
        BY <2>2, <4>1, <4>3
    <3>3. DOMAIN copies' = 1..(Len(copies) + 1)
      BY <3>2
    <3>4. DOMAIN copies \subseteq DOMAIN copies' /\ \A e \in DOMAIN copies' : e \in DOMAIN copies \/ e = Len(copies) + 1
      BY <3>1, <3>3
    <3>5. \A e \in DOMAIN copies : copies[e] # d
      BY <2>2 DEF CopiesOf
    <3>6. OneCopy'
      BY <1>0, <3>1, <3>2, <3>4, <3>5 DEF OneCopy
    <3>7. QED
      BY <3>1, <3>2, <3>4, <3>6
  <2>3. QED
    BY <2>1, <2>2
<1>2. CopiesAreOwned'
  BY <1>0, <1>1 DEF CopiesAreOwned
<1>3. AttTypeOK'
  <2>1. \A i \in DOMAIN atts' : atts'[i].status = "GRAPH_UPLOADED" => atts'[i].gid \in DOMAIN copies'
    BY <1>2 DEF CopiesAreOwned
  <2>2. QED
    BY <1>0, <1>1, <2>1 DEF AttTypeOK, UpRecords
<1>4. RemovalIsOwn' /\ FrozenIsUploaded'
  BY <1>0 DEF RemovalIsOwn, FrozenIsUploaded, LiveAtts
<1>5. QueuedIsComplete'
  <2>1. \A i \in LiveAtts : frozen => atts[i].gid \in DOMAIN copies
    BY <1>0 DEF FrozenIsUploaded, CopiesAreOwned, LiveAtts
  <2>2. QED
    BY <1>0, <1>1, <2>1 DEF QueuedIsComplete, LiveAtts
<1>6. QED
  BY <1>1, <1>2, <1>3, <1>4, <1>5 DEF AttIInv

\* A file that has reached Graph joins the copies to commit.
LEMMA UploadedKeeps ==
  ASSUME AttIInv, up.pc \in {"post", "doubt"}, NEW c \in Nat, up' = Uploaded(c), UNCHANGED atts,
         DOMAIN copies \subseteq DOMAIN copies', \A e \in DOMAIN copies : copies'[e] = copies[e],
         c \in DOMAIN copies', copies'[c] = atts[up.row].doc, c \notin Pins, c \notin Uncommitted
  PROVE  up' \in UpRecords /\ UploadIsOwn'
<1>0. UploadIsOwn /\ up \in UpRecords /\ DOMAIN atts \subseteq 1..MaxSelections
  BY AttFacts DEF AttIInv
<1>1. PICK p : p = <<up.row, c>>
  OBVIOUS
<1>2. up.row \in DOMAIN atts /\ up.row \in UploadRows /\ up.row \in 1..MaxSelections
  BY <1>0, UpFacts
<1>3. p \in (1..MaxSelections) \X Nat /\ p[1] = up.row /\ p[2] = c
  BY <1>1, <1>2
<1>4. PICK ok : ok = Append(up.ok, p)
  OBVIOUS
<1>5. up.ok \in Seq((1..MaxSelections) \X Nat) /\ Len(up.ok) \in Nat /\ DOMAIN up.ok = 1..Len(up.ok)
  BY UpFacts
<1>6. /\ ok \in Seq((1..MaxSelections) \X Nat) /\ Len(ok) = Len(up.ok) + 1
      /\ \A k \in 1..Len(up.ok) : ok[k] = up.ok[k]
      /\ ok[Len(up.ok) + 1] = p
  BY <1>3, <1>4, <1>5, AppendProperties
<1>7. DOMAIN ok = 1..(Len(up.ok) + 1)
  BY <1>6
<1>8. \A k \in DOMAIN ok : (k \in DOMAIN up.ok /\ ok[k] = up.ok[k]) \/ (k = Len(up.ok) + 1 /\ ok[k] = p)
  <2>1. PICK n \in Nat : n = Len(up.ok)
    BY <1>5
  <2>2. \A k \in 1..(n + 1) : k \in 1..n \/ k = n + 1
    BY <2>1
  <2>3. QED
    BY <1>5, <1>6, <1>7, <2>1, <2>2
<1>9. up' = [up EXCEPT !.pc = "next", !.todo = up.todo \ {up.row}, !.ok = ok]
  BY <1>1, <1>4 DEF Uploaded
<1>10. up'.pc = "next" /\ up'.todo = up.todo \ {up.row} /\ up'.ok = ok /\ up' \in UpRecords
  <2>1. up.todo \ {up.row} \in SUBSET (1..MaxSelections)
    BY <1>0, UpFacts
  <2>2. QED
    BY <1>0, <1>6, <1>9, <2>1 DEF UpRecords
<1>11. UploadRows' \subseteq UploadRows
  <2>1. ASSUME NEW i \in UploadRows'
        PROVE  i \in UploadRows
    <3>1. i \in up'.todo \/ \E k \in DOMAIN up'.ok : up'.ok[k][1] = i
      BY <1>10 DEF UploadRows
    <3>2. QED
      BY <1>2, <1>3, <1>8, <1>10, <3>1, UpFacts
  <2>2. QED
    BY <2>1
<1>12. UploadRows' \subseteq DOMAIN atts' /\
       \A i \in UploadRows' : atts'[i].gid = 0 /\ (atts'[i].status = "VALIDATED" \/ atts'[i].removed)
  BY <1>11, UpFacts
<1>13. Pins' = Pins
  BY DEF Pins
<1>14. \A k \in DOMAIN up'.ok : /\ up'.ok[k][2] \in DOMAIN copies' /\ up'.ok[k][2] \notin Pins'
                                /\ copies'[up'.ok[k][2]] \in {atts'[up'.ok[k][1]].doc, "gone"}
  BY <1>0, <1>3, <1>8, <1>10, <1>13 DEF UploadIsOwn
<1>15. \A k, l \in DOMAIN up'.ok : up'.ok[k][2] = up'.ok[l][2] => k = l
  <2>1. \A k \in DOMAIN up.ok : up.ok[k][2] # c
    BY DEF Uncommitted
  <2>2. QED
    BY <1>0, <1>3, <1>8, <1>10, <2>1 DEF UploadIsOwn
<1>16. QED
  BY <1>10, <1>12, <1>14, <1>15 DEF UploadIsOwn

LEMMA PinsAre ==
  ASSUME AttIInv
  PROVE  Pins \subseteq DOMAIN copies \cup {0} /\ Uncommitted \subseteq DOMAIN copies
BY UpFacts DEF AttIInv, CopiesAreOwned, Pins, Uncommitted

LEMMA PostsKeep ==
  ASSUME AttIInv, UploadPosts
  PROVE  AttIInv'
<1>0. /\ up.pc = "post" /\ UNCHANGED <<atts, frozen, rm, late, uploads>> /\ attFaults' \in {attFaults, attFaults + 1}
      /\ copies' \in {copies, Append(copies, atts[up.row].doc)}
  BY DEF UploadPosts
<1>1. up.row \in DOMAIN atts /\ up.row \in UploadRows /\ atts[up.row].doc \in Docs /\ CopiesOf(atts[up.row].doc) = {}
  BY <1>0, AttFacts, UpFacts DEF AttIInv, UploadIsOwn
<1>2. copies' = copies \/ \E d \in Docs : CopiesOf(d) = {} /\ copies' = Append(copies, d)
  BY <1>0, <1>1
<1>3. attFaults' \in Nat /\ uploads' \in Nat
  BY <1>0, AttFacts
<1>4. /\ copies \in Seq(Docs \cup {"gone"}) /\ Len(copies) \in Nat /\ DOMAIN copies = 1..Len(copies) /\ 0 \notin DOMAIN copies
  BY AttFacts
<1>5. copies' = Append(copies, atts[up.row].doc) =>
        /\ Len(copies') = Len(copies) + 1 /\ copies' \in Seq(Docs \cup {"gone"})
        /\ \A e \in 1..Len(copies) : copies'[e] = copies[e]
        /\ copies'[Len(copies) + 1] = atts[up.row].doc
  BY <1>1, <1>4, AppendProperties
<1>6. copies' = Append(copies, atts[up.row].doc) =>
        /\ DOMAIN copies' = 1..(Len(copies) + 1)
        /\ DOMAIN copies \subseteq DOMAIN copies' /\ Len(copies) + 1 \in DOMAIN copies'
        /\ \A e \in DOMAIN copies' : e \in DOMAIN copies \/ e = Len(copies) + 1
  BY <1>4, <1>5
<1>7. Len(copies) + 1 \notin Pins /\ Len(copies) + 1 \notin Uncommitted /\ Len(copies) + 1 \in Nat
  <2>1. Len(copies) + 1 \notin DOMAIN copies \cup {0} /\ Len(copies) + 1 \in Nat
    BY <1>4
  <2>2. QED
    BY <2>1, PinsAre
<1>8. CASE copies' = Append(copies, atts[up.row].doc) /\ up' = Uploaded(Len(copies) + 1)
  <2>1. up' \in UpRecords /\ UploadIsOwn'
    BY <1>0, <1>4, <1>5, <1>6, <1>7, <1>8, UploadedKeeps
  <2>2. QED
    BY <1>0, <1>2, <1>3, <2>1, RowsStay
<1>9. CASE up' = [up EXCEPT !.pc = "doubt"]
  <2>0. up \in UpRecords /\ UploadIsOwn
    BY AttFacts DEF AttIInv
  <2>1. up' \in UpRecords /\ up'.pc = "doubt" /\ up'.todo = up.todo /\ up'.row = up.row /\ up'.ok = up.ok
    BY <1>9, <2>0 DEF UpRecords
  <2>2. UploadRows' = UploadRows
    BY <1>0, <2>1 DEF UploadRows
  <2>3. Pins' = Pins /\ Uncommitted' = Uncommitted
    BY <1>0, <2>1 DEF Pins, Uncommitted
  <2>4. DOMAIN copies \subseteq DOMAIN copies' /\ \A e \in DOMAIN copies : copies'[e] = copies[e]
    BY <1>0, <1>4, <1>5, <1>6
  <2>5. \A c \in DOMAIN copies' : copies'[c] = atts[up.row].doc => c = Len(copies) + 1
    <3>1. \A e \in DOMAIN copies : copies[e] # atts[up.row].doc
      BY <1>1 DEF CopiesOf
    <3>2. QED
      BY <1>0, <1>6, <2>4, <3>1
  <2>6. \A c \in CopiesOf(atts[up.row].doc)' : c \notin Pins \cup Uncommitted
    <3>1. \A c \in CopiesOf(atts[up.row].doc)' : c \in DOMAIN copies' /\ copies'[c] = atts[up.row].doc
      BY <1>0, <2>1 DEF CopiesOf
    <3>2. QED
      BY <1>7, <2>5, <3>1
  <2>7. UploadIsOwn'
    <3>1. UploadRows' \subseteq DOMAIN atts'
      BY <1>0, <2>0, <2>2 DEF UploadIsOwn
    <3>2. \A i \in UploadRows' : atts'[i].gid = 0 /\ (atts'[i].status = "VALIDATED" \/ atts'[i].removed)
      BY <1>0, <2>2, UpFacts
    <3>3. \A k \in DOMAIN up'.ok : /\ up'.ok[k][2] \in DOMAIN copies' /\ up'.ok[k][2] \notin Pins'
                                   /\ copies'[up'.ok[k][2]] \in {atts'[up'.ok[k][1]].doc, "gone"}
      BY <1>0, <2>0, <2>1, <2>3, <2>4 DEF UploadIsOwn
    <3>4. \A k, l \in DOMAIN up'.ok : up'.ok[k][2] = up'.ok[l][2] => k = l
      BY <2>0, <2>1 DEF UploadIsOwn
    <3>5. \A c \in CopiesOf(atts[up.row].doc)' : c \notin Pins' \cup Uncommitted'
      BY <2>3, <2>6
    <3>6. QED
      BY <2>1, <3>1, <3>2, <3>3, <3>4, <3>5 DEF UploadIsOwn
  <2>8. QED
    BY <1>0, <1>2, <1>3, <2>1, <2>7, RowsStay
<1>10. QED
  BY <1>8, <1>9 DEF UploadPosts

LEMMA ResolvesKeep ==
  ASSUME AttIInv, UploadResolves
  PROVE  AttIInv'
<1>0. up.pc = "doubt" /\ UNCHANGED <<copies, frozen, rm, late, uploads, attFaults>>
  BY DEF UploadResolves
<1>1. up.row \in DOMAIN atts /\ up.row \in UploadRows
  BY <1>0, UpFacts
<1>2. CASE atts' = Committed({up.row}) /\ up' = NoUpload
  BY <1>0, <1>1, <1>2, CommitKeeps
<1>3. ASSUME NEW c \in CopiesOf(atts[up.row].doc), up' = Uploaded(c), UNCHANGED atts
      PROVE  AttIInv'
  <2>1. c \in DOMAIN copies /\ copies[c] = atts[up.row].doc
    BY DEF CopiesOf
  <2>2. c \notin Pins /\ c \notin Uncommitted
    BY <1>0 DEF AttIInv, UploadIsOwn
  <2>3. c \in Nat
    BY <2>1, AttFacts
  <2>4. up' \in UpRecords /\ UploadIsOwn'
    BY <1>0, <1>3, <2>1, <2>2, <2>3, UploadedKeeps
  <2>5. uploads' \in Nat /\ attFaults' \in Nat
    BY <1>0, AttFacts
  <2>6. QED
    BY <1>0, <1>3, <2>4, <2>5, RowsStay
<1>4. QED
  BY <1>2, <1>3 DEF UploadResolves

LEMMA ChecksKeep ==
  ASSUME AttIInv, NEW i \in DOMAIN atts, UploadChecks(i)
  PROVE  AttIInv'
<1>0. up.pc = "next" /\ i \in up.todo /\ UNCHANGED <<copies, frozen, rm, late, uploads, attFaults>>
  BY DEF UploadChecks
<1>1. CASE atts' = Committed({i}) /\ up' = NoUpload
  BY <1>0, <1>1, UpFacts, CommitKeeps
<1>2. CASE CopiesOf(atts[i].doc) = {} /\ up' = [up EXCEPT !.pc = "post", !.row = i] /\ UNCHANGED atts
  <2>0. up \in UpRecords /\ UploadIsOwn /\ i \in 0..MaxSelections
    <3>1. i \in 1..MaxSelections /\ MaxSelections \in Nat
      BY AttFacts
    <3>2. i \in 0..MaxSelections
      BY <3>1
    <3>3. QED
      BY <3>2, AttFacts DEF AttIInv
  <2>1. up' \in UpRecords /\ up'.pc = "post" /\ up'.todo = up.todo /\ up'.row = i /\ up'.ok = up.ok
    BY <1>2, <2>0 DEF UpRecords
  <2>2. UploadRows' = UploadRows
    BY <1>0, <2>1 DEF UploadRows
  <2>3. Pins' = Pins
    BY <1>2 DEF Pins
  <2>4. CopiesOf(atts[up.row].doc)' = {}
    BY <1>0, <1>2, <2>1 DEF CopiesOf
  <2>5. UploadIsOwn'
    <3>1. UploadRows' \subseteq DOMAIN atts'
      BY <1>2, <2>0, <2>2 DEF UploadIsOwn
    <3>2. \A j \in UploadRows' : atts'[j].gid = 0 /\ (atts'[j].status = "VALIDATED" \/ atts'[j].removed)
      BY <1>2, <2>2, UpFacts
    <3>3. \A k \in DOMAIN up'.ok : /\ up'.ok[k][2] \in DOMAIN copies' /\ up'.ok[k][2] \notin Pins'
                                   /\ copies'[up'.ok[k][2]] \in {atts'[up'.ok[k][1]].doc, "gone"}
      BY <1>0, <1>2, <2>0, <2>1, <2>3 DEF UploadIsOwn
    <3>4. \A k, l \in DOMAIN up'.ok : up'.ok[k][2] = up'.ok[l][2] => k = l
      BY <2>0, <2>1 DEF UploadIsOwn
    <3>5. QED
      BY <2>1, <2>4, <3>1, <3>2, <3>3, <3>4 DEF UploadIsOwn
  <2>6. uploads' \in Nat /\ attFaults' \in Nat
    BY <1>0, AttFacts
  <2>7. QED
    BY <1>0, <1>2, <2>1, <2>5, <2>6, RowsStay
<1>3. QED
  BY <1>1, <1>2 DEF UploadChecks

\* A job that starts, ends or dies.
LEMMA JobsOfUploads ==
  ASSUME AttIInv, UploadStarts \/ UploadEnds \/ UploadCrash
  PROVE  AttIInv'
<1>1. CASE UploadStarts
  <2>1. PICK new : new = {i \in DOMAIN atts : atts[i].status = "VALIDATED" /\ i \in LiveAtts}
    OBVIOUS
  <2>2. up' = [NoUpload EXCEPT !.pc = "next", !.todo = new]
    BY <1>1, <2>1 DEF UploadStarts
  <2>3. new \in SUBSET (1..MaxSelections) /\ MaxSelections \in Nat
    BY <2>1, AttFacts
  <2>4. up'.pc = "next" /\ up'.todo = new /\ up'.row = 0 /\ up'.ok = <<>> /\ up' \in UpRecords
    <3>1. 0 \in 0..MaxSelections /\ <<>> \in Seq((1..MaxSelections) \X Nat)
      BY <2>3
    <3>2. up' = [pc |-> "next", todo |-> new, row |-> 0, ok |-> <<>>]
      BY <2>2 DEF NoUpload
    <3>3. QED
      BY <2>3, <3>1, <3>2 DEF UpRecords
  <2>5. DOMAIN up'.ok = {}
    BY <2>4
  <2>6. UploadRows' = new
    BY <2>4, <2>5 DEF UploadRows
  <2>7. /\ UNCHANGED <<atts, copies, frozen, rm, late>> /\ uploads' \in Nat /\ attFaults' \in Nat
    BY <1>1, AttFacts DEF UploadStarts
  <2>8. \A i \in new : i \in DOMAIN atts /\ atts[i].status = "VALIDATED" /\ atts[i].gid = 0
    BY <2>1 DEF AttIInv, CopiesAreOwned
  <2>9. UploadIsOwn'
    BY <2>4, <2>5, <2>6, <2>7, <2>8 DEF UploadIsOwn
  <2>10. QED
    BY <2>4, <2>7, <2>9, RowsStay
<1>2. CASE UploadEnds
  BY <1>2, CommitKeeps DEF UploadEnds
<1>3. CASE UploadCrash
  <2>1. /\ UNCHANGED <<atts, copies, frozen, rm, late>> /\ uploads' \in Nat /\ attFaults' \in Nat /\ up' = NoUpload
    BY <1>3, AttFacts DEF UploadCrash
  <2>2. up' \in UpRecords /\ UploadIsOwn'
    BY <2>1, AttFacts, UploadOver
  <2>3. QED
    BY <2>1, <2>2, RowsStay
<1>4. QED
  BY <1>1, <1>2, <1>3

LEMMA SelectKeeps ==
  ASSUME AttIInv, NEW d \in Docs, SelectAttachment(d)
  PROVE  AttIInv'
<1>0. /\ AttTypeOK /\ CopiesAreOwned /\ UploadIsOwn /\ RemovalIsOwn /\ OneCopy
  BY DEF AttIInv
<1>1. PICK row : row = [doc |-> d, status |-> "VALIDATED", gid |-> 0, removed |-> FALSE]
  OBVIOUS
<1>2. row \in AttRows /\ row.gid = 0 /\ row.status = "VALIDATED"
  BY <1>1 DEF AttRows, AttStatuses
<1>3. /\ ~frozen /\ Len(atts) < MaxSelections /\ atts' = Append(atts, row)
      /\ UNCHANGED <<copies, frozen, up, rm, late, uploads, attFaults>>
  BY <1>1 DEF SelectAttachment
<1>4. atts \in Seq(AttRows) /\ Len(atts) \in Nat /\ DOMAIN atts = 1..Len(atts) /\ MaxSelections \in Nat
  BY AttFacts
<1>5. /\ atts' \in Seq(AttRows) /\ Len(atts') = Len(atts) + 1
      /\ \A i \in 1..Len(atts) : atts'[i] = atts[i]
      /\ atts'[Len(atts) + 1] = row
  BY <1>2, <1>3, <1>4, AppendProperties
<1>6. DOMAIN atts' = 1..(Len(atts) + 1) /\ Len(atts') <= MaxSelections
  BY <1>3, <1>4, <1>5
<1>7. /\ DOMAIN atts \subseteq DOMAIN atts' /\ \A i \in DOMAIN atts : atts'[i] = atts[i]
      /\ \A i \in DOMAIN atts' : i \in DOMAIN atts \/ (i = Len(atts) + 1 /\ atts'[i] = row)
  BY <1>4, <1>5, <1>6
<1>8. CopiesAreOwned'
  <2>1. \A i \in DOMAIN atts' : (i \in DOMAIN atts /\ atts'[i] = atts[i]) \/ (atts'[i].gid = 0 /\ atts'[i].status = "VALIDATED")
    BY <1>2, <1>7
  <2>2. \A i \in DOMAIN atts' : atts'[i].gid # 0 =>
          atts'[i].gid \in DOMAIN copies' /\ copies'[atts'[i].gid] \in {atts'[i].doc, "gone"}
    BY <1>0, <1>3, <2>1 DEF CopiesAreOwned
  <2>3. \A i, j \in DOMAIN atts' : atts'[i].gid = atts'[j].gid /\ atts'[i].gid # 0 => i = j
    BY <1>0, <2>1 DEF CopiesAreOwned
  <2>4. \A i \in DOMAIN atts' : /\ atts'[i].status = "GRAPH_UPLOADED" => atts'[i].gid # 0
                                /\ atts'[i].status = "VALIDATED" => atts'[i].gid = 0
    BY <1>0, <2>1 DEF CopiesAreOwned
  <2>5. QED
    BY <2>2, <2>3, <2>4 DEF CopiesAreOwned
<1>9. AttTypeOK'
  <2>1. \A i \in DOMAIN atts' : atts'[i].status = "GRAPH_UPLOADED" => atts'[i].gid \in DOMAIN copies'
    BY <1>8 DEF CopiesAreOwned
  <2>2. QED
    BY <1>0, <1>3, <1>5, <1>6, <1>7, <2>1 DEF AttTypeOK
<1>10. UploadIsOwn'
  <2>1. UploadRows' = UploadRows /\ Uncommitted' = Uncommitted
    BY <1>3 DEF UploadRows, Uncommitted
  <2>2. \A x \in Pins' : x \in Pins \/ x = 0
    BY <1>2, <1>7 DEF Pins
  <2>3. UploadRows' \subseteq DOMAIN atts'
    BY <1>0, <1>7, <2>1 DEF UploadIsOwn
  <2>4. \A i \in UploadRows' : atts'[i].gid = 0 /\ (atts'[i].status = "VALIDATED" \/ atts'[i].removed)
    BY <1>7, <2>1, UpFacts
  <2>5. \A k \in DOMAIN up'.ok : /\ up'.ok[k][2] \in DOMAIN copies' /\ up'.ok[k][2] \notin Pins'
                                 /\ copies'[up'.ok[k][2]] \in {atts'[up'.ok[k][1]].doc, "gone"}
    BY <1>0, <1>3, <1>7, <2>2, UpFacts, AttFacts, SMTT(20) DEF UploadIsOwn
  <2>6. \A k, l \in DOMAIN up'.ok : up'.ok[k][2] = up'.ok[l][2] => k = l
    BY <1>0, <1>3 DEF UploadIsOwn
  <2>7. up.pc \in {"post", "doubt"} => CopiesOf(atts[up.row].doc)' = CopiesOf(atts[up.row].doc)
    <3>1. up.pc \in {"post", "doubt"} => atts'[up.row] = atts[up.row]
      BY <1>7, UpFacts
    <3>2. QED
      BY <1>3, <3>1 DEF CopiesOf
  <2>8. \A c \in DOMAIN copies : c # 0
    BY AttFacts
  <2>9. up.pc = "doubt" => \A c \in CopiesOf(atts[up.row].doc)' : c \notin Pins' \cup Uncommitted'
    <3> SUFFICES ASSUME up.pc = "doubt", NEW c \in CopiesOf(atts[up.row].doc)
                 PROVE  c \notin Pins' \cup Uncommitted'
      BY <2>7
    <3>1. c \in DOMAIN copies /\ c \notin Pins \cup Uncommitted
      BY <1>0 DEF UploadIsOwn, CopiesOf
    <3>2. QED
      BY <2>1, <2>2, <2>8, <3>1
  <2>10. up.pc = "post" => CopiesOf(atts[up.row].doc)' = {}
    BY <1>0, <2>7 DEF UploadIsOwn
  <2>11. QED
    BY <1>3, <2>3, <2>4, <2>5, <2>6, <2>9, <2>10 DEF UploadIsOwn
<1>11. RemovalIsOwn' /\ OneCopy' /\ FrozenIsUploaded' /\ QueuedIsComplete'
  BY <1>0, <1>3, <1>7 DEF RemovalIsOwn, OneCopy, FrozenIsUploaded, QueuedIsComplete
<1>12. QED
  BY <1>8, <1>9, <1>10, <1>11 DEF AttIInv

\* The send is queued once Graph has just the rows' copies; a removal only takes its row's place.
LEMMA QueueAndStartKeep ==
  ASSUME AttIInv, QueueSend \/ \E i \in DOMAIN atts : RemoveStarts(i)
  PROVE  AttIInv'
<1>0. /\ AttTypeOK /\ CopiesAreOwned /\ UploadIsOwn /\ RemovalIsOwn /\ OneCopy /\ FrozenIsUploaded /\ QueuedIsComplete
  BY DEF AttIInv
<1>1. UNCHANGED <<atts, copies, up, late, uploads, attFaults>>
  BY DEF QueueSend, RemoveStarts
<1>2. CopiesAreOwned' /\ OneCopy'
  BY <1>0, <1>1 DEF CopiesAreOwned, OneCopy
<1>3. UploadIsOwn'
  <2>1. UploadRows' = UploadRows /\ Pins' = Pins /\ Uncommitted' = Uncommitted
    BY <1>1 DEF UploadRows, Pins, Uncommitted
  <2>2. CopiesOf(atts[up.row].doc)' = CopiesOf(atts[up.row].doc)
    BY <1>1 DEF CopiesOf
  <2>3. QED
    BY <1>0, <1>1, <2>1, <2>2 DEF UploadIsOwn
<1>4. CASE QueueSend
  <2>1. /\ frozen' = TRUE /\ rm' = rm /\ \A i \in LiveAtts : atts[i].status = "GRAPH_UPLOADED"
        /\ {c \in DOMAIN copies : copies[c] # "gone"} = {atts[i].gid : i \in LiveAtts}
    BY <1>4 DEF QueueSend
  <2>2. AttTypeOK'
    BY <1>0, <1>1, <2>1 DEF AttTypeOK
  <2>3. RemovalIsOwn' /\ FrozenIsUploaded'
    BY <1>0, <1>1, <2>1 DEF RemovalIsOwn, FrozenIsUploaded, LiveAtts
  <2>4. \A i \in LiveAtts : copies[atts[i].gid] = atts[i].doc
    <3>1. \A i \in LiveAtts : i \in DOMAIN atts /\ atts[i].gid # 0 /\ copies[atts[i].gid] # "gone"
      BY <1>0, <2>1 DEF LiveAtts, CopiesAreOwned
    <3>2. QED
      BY <1>0, <3>1 DEF CopiesAreOwned
  <2>5. QueuedIsComplete'
    BY <1>1, <2>1, <2>4 DEF QueuedIsComplete, LiveAtts
  <2>6. QED
    BY <1>2, <1>3, <2>2, <2>3, <2>5 DEF AttIInv
<1>5. ASSUME NEW i \in DOMAIN atts, RemoveStarts(i)
      PROVE  AttIInv'
  <2>1. PICK pc : pc = IF atts[i].gid # 0 THEN "delete" ELSE "close"
    OBVIOUS
  <2>2. rm' = [pc |-> pc, row |-> i] /\ frozen' = frozen
    BY <1>5, <2>1 DEF RemoveStarts
  <2>3. i \in 0..MaxSelections
    <3>1. i \in 1..MaxSelections /\ MaxSelections \in Nat
      BY AttFacts
    <3>2. QED
      BY <3>1
  <2>4. rm' \in RmRecords /\ rm'.pc = pc /\ rm'.row = i
    BY <2>1, <2>2, <2>3 DEF RmRecords
  <2>5. AttTypeOK'
    BY <1>0, <1>1, <2>2, <2>4 DEF AttTypeOK, RmRecords
  <2>6. RemovalIsOwn'
    BY <1>1, <2>1, <2>4 DEF RemovalIsOwn
  <2>7. FrozenIsUploaded' /\ QueuedIsComplete'
    BY <1>0, <1>1, <2>2 DEF FrozenIsUploaded, QueuedIsComplete, LiveAtts
  <2>8. QED
    BY <1>2, <1>3, <2>5, <2>6, <2>7 DEF AttIInv
<1>6. QED
  BY <1>4, <1>5

LEMMA DeleteKeeps ==
  ASSUME AttIInv, RemoveDeletes
  PROVE  AttIInv'
<1>0. /\ AttTypeOK /\ CopiesAreOwned /\ UploadIsOwn /\ RemovalIsOwn /\ OneCopy /\ FrozenIsUploaded /\ QueuedIsComplete
  BY DEF AttIInv
<1>1. PICK g : g = atts[rm.row].gid
  OBVIOUS
<1>2. /\ rm.pc = "delete" /\ copies' = [copies EXCEPT ![g] = "gone"] /\ rm' = [rm EXCEPT !.pc = "close"]
      /\ late' = (IF frozen THEN late \cup {rm.row} ELSE late) /\ UNCHANGED <<atts, frozen, up, uploads, attFaults>>
  BY <1>1 DEF RemoveDeletes
<1>3. rm.row \in DOMAIN atts /\ g \in DOMAIN copies /\ g # 0
  BY <1>0, <1>1, <1>2 DEF RemovalIsOwn, CopiesAreOwned
<1>4. /\ copies' \in Seq(Docs \cup {"gone"}) /\ DOMAIN copies' = DOMAIN copies
      /\ copies'[g] = "gone" /\ \A c \in DOMAIN copies : c # g => copies'[c] = copies[c]
  <2>1. PICK cset : cset = Docs \cup {"gone"}
    OBVIOUS
  <2>2. copies \in Seq(cset) /\ g \in 1..Len(copies) /\ "gone" \in cset /\ DOMAIN copies = 1..Len(copies)
    BY <1>3, <2>1, AttFacts
  <2>3. copies' \in Seq(cset)
    BY <1>2, <2>2, ExceptSeq
  <2>4. QED
    BY <1>2, <1>3, <2>1, <2>3
<1>5. CopiesAreOwned'
  <2>1. \A i \in DOMAIN atts : atts[i].gid # 0 => copies'[atts[i].gid] \in {atts[i].doc, "gone"}
    BY <1>0, <1>4 DEF CopiesAreOwned
  <2>2. QED
    BY <1>0, <1>2, <1>4, <2>1 DEF CopiesAreOwned
<1>6. rm' \in RmRecords /\ rm'.pc = "close" /\ rm'.row = rm.row
  BY <1>2, AttFacts DEF RmRecords
<1>7. AttTypeOK'
  BY <1>0, <1>2, <1>3, <1>4, <1>6 DEF AttTypeOK, RmRecords
<1>8. UploadIsOwn'
  <2>1. UploadRows' = UploadRows /\ Pins' = Pins /\ Uncommitted' = Uncommitted
    BY <1>2 DEF UploadRows, Pins, Uncommitted
  <2>2. up.pc \in {"post", "doubt"} => CopiesOf(atts[up.row].doc)' \subseteq CopiesOf(atts[up.row].doc)
    <3> SUFFICES ASSUME up.pc \in {"post", "doubt"}, NEW c \in CopiesOf(atts[up.row].doc)'
                 PROVE  c \in CopiesOf(atts[up.row].doc)
      OBVIOUS
    <3>1. c \in DOMAIN copies /\ copies'[c] = atts[up.row].doc
      BY <1>2, <1>4 DEF CopiesOf
    <3>2. atts[up.row].doc # "gone"
      BY UpFacts, AttFacts
    <3>3. QED
      BY <1>4, <3>1, <3>2 DEF CopiesOf
  <2>3. \A k \in DOMAIN up'.ok : /\ up'.ok[k][2] \in DOMAIN copies' /\ up'.ok[k][2] \notin Pins'
                                 /\ copies'[up'.ok[k][2]] \in {atts'[up'.ok[k][1]].doc, "gone"}
    BY <1>0, <1>2, <1>4, <2>1 DEF UploadIsOwn
  <2>4. up.pc = "post" => CopiesOf(atts[up.row].doc)' = {}
    BY <1>0, <2>2 DEF UploadIsOwn
  <2>5. up.pc = "doubt" => \A c \in CopiesOf(atts[up.row].doc)' : c \notin Pins' \cup Uncommitted'
    BY <1>0, <2>1, <2>2 DEF UploadIsOwn
  <2>6. QED
    BY <1>0, <1>2, <2>1, <2>3, <2>4, <2>5 DEF UploadIsOwn
<1>9. RemovalIsOwn' /\ FrozenIsUploaded'
  BY <1>0, <1>2, <1>3, <1>6 DEF RemovalIsOwn, FrozenIsUploaded, LiveAtts
<1>10. OneCopy'
  BY <1>0, <1>4 DEF OneCopy
<1>11. QueuedIsComplete'
  <2> SUFFICES ASSUME frozen, NEW i \in LiveAtts
               PROVE  copies'[atts[i].gid] = atts[i].doc \/ i \in late'
    BY <1>2 DEF QueuedIsComplete, LiveAtts
  <2>1. i \in DOMAIN atts /\ atts[i].gid # 0 /\ atts[i].gid \in DOMAIN copies
    BY <1>0 DEF FrozenIsUploaded, CopiesAreOwned, LiveAtts
  <2>2. CASE atts[i].gid = g
    BY <1>0, <1>1, <1>2, <1>3, <2>1, <2>2 DEF CopiesAreOwned
  <2>3. CASE atts[i].gid # g
    BY <1>0, <1>2, <1>4, <2>1, <2>3 DEF QueuedIsComplete
  <2>4. QED
    BY <2>2, <2>3
<1>12. QED
  BY <1>5, <1>7, <1>8, <1>9, <1>10, <1>11 DEF AttIInv

LEMMA CloseKeeps ==
  ASSUME AttIInv, RemoveCloses
  PROVE  AttIInv'
<1>0. /\ AttTypeOK /\ CopiesAreOwned /\ UploadIsOwn /\ RemovalIsOwn /\ OneCopy /\ FrozenIsUploaded /\ QueuedIsComplete
  BY DEF AttIInv
<1>1. rm.pc = "close" /\ rm' = NoRemoval /\ UNCHANGED <<copies, frozen, up, late, uploads, attFaults>>
  BY DEF RemoveCloses
<1>2. rm' \in RmRecords /\ rm'.pc = "idle"
  <2>1. 0 \in 0..MaxSelections
    BY AttFacts
  <2>2. QED
    BY <1>1, <2>1 DEF NoRemoval, RmRecords
<1>3. rm.row \in DOMAIN atts
  BY <1>0, <1>1 DEF RemovalIsOwn
<1>4. /\ atts' \in Seq(AttRows) /\ Len(atts') = Len(atts) /\ DOMAIN atts' = DOMAIN atts
      /\ \A i \in DOMAIN atts : \/ atts'[i] = atts[i]
                                \/ /\ i = rm.row /\ ~frozen /\ atts'[i].doc = atts[i].doc /\ atts'[i].gid = atts[i].gid
                                   /\ atts'[i].status = "REMOVED" /\ atts'[i].removed
  <2>1. CASE atts' = atts
    BY <2>1, AttFacts
  <2>2. CASE ~frozen /\ atts' = [atts EXCEPT ![rm.row] = [@ EXCEPT !.status = "REMOVED", !.removed = TRUE]]
    <3>1. PICK q : q = [atts[rm.row] EXCEPT !.status = "REMOVED", !.removed = TRUE]
      OBVIOUS
    <3>2. atts[rm.row] \in AttRows
      BY <1>3, AttFacts
    <3>3. q \in AttRows /\ q.doc = atts[rm.row].doc /\ q.gid = atts[rm.row].gid /\ q.status = "REMOVED" /\ q.removed
      BY <3>1, <3>2 DEF AttRows, AttStatuses
    <3>4. atts' = [atts EXCEPT ![rm.row] = q]
      BY <2>2, <3>1
    <3>5. atts \in Seq(AttRows) /\ rm.row \in 1..Len(atts)
      BY <1>3, AttFacts
    <3>6. atts' \in Seq(AttRows) /\ Len(atts') = Len(atts)
      BY <3>3, <3>4, <3>5, ExceptSeq
    <3>7. QED
      BY <1>3, <2>2, <3>3, <3>4, <3>6
  <2>3. QED
    BY <2>1, <2>2 DEF RemoveCloses
<1>5. \A i \in DOMAIN atts : atts'[i].gid = atts[i].gid /\ atts'[i].doc = atts[i].doc
  BY <1>4
<1>6. CopiesAreOwned'
  BY <1>0, <1>1, <1>4, <1>5 DEF CopiesAreOwned
<1>7. AttTypeOK'
  <2>1. \A i \in DOMAIN atts' : atts'[i].status = "GRAPH_UPLOADED" => atts'[i].gid \in DOMAIN copies'
    BY <1>6 DEF CopiesAreOwned
  <2>2. QED
    BY <1>0, <1>1, <1>2, <1>4, <2>1 DEF AttTypeOK, RmRecords
<1>8. UploadIsOwn'
  <2>1. UploadRows' = UploadRows /\ Uncommitted' = Uncommitted
    BY <1>1 DEF UploadRows, Uncommitted
  <2>2. Pins' = Pins
    BY <1>4, <1>5 DEF Pins
  <2>3. up.pc \in {"post", "doubt"} => CopiesOf(atts[up.row].doc)' = CopiesOf(atts[up.row].doc)
    <3>1. up.pc \in {"post", "doubt"} => atts'[up.row].doc = atts[up.row].doc
      BY <1>5, UpFacts
    <3>2. QED
      BY <1>1, <3>1 DEF CopiesOf
  <2>4. \A i \in UploadRows' : atts'[i].gid = 0 /\ (atts'[i].status = "VALIDATED" \/ atts'[i].removed)
    BY <1>4, <2>1, UpFacts
  <2>5. \A k \in DOMAIN up'.ok : /\ up'.ok[k][2] \in DOMAIN copies' /\ up'.ok[k][2] \notin Pins'
                                 /\ copies'[up'.ok[k][2]] \in {atts'[up'.ok[k][1]].doc, "gone"}
    BY <1>0, <1>1, <1>5, <2>2, UpFacts DEF UploadIsOwn
  <2>6. UploadRows' \subseteq DOMAIN atts'
    BY <1>4, <2>1, UpFacts
  <2>7. /\ \A k, l \in DOMAIN up'.ok : up'.ok[k][2] = up'.ok[l][2] => k = l
        /\ up'.pc = "post" => CopiesOf(atts[up.row].doc)' = {}
        /\ up'.pc = "doubt" => \A c \in CopiesOf(atts[up.row].doc)' : c \notin Pins' \cup Uncommitted'
    BY <1>0, <1>1, <2>1, <2>2, <2>3 DEF UploadIsOwn
  <2>8. QED
    BY <2>4, <2>5, <2>6, <2>7 DEF UploadIsOwn
<1>9. RemovalIsOwn' /\ OneCopy'
  BY <1>0, <1>1, <1>2 DEF RemovalIsOwn, OneCopy
<1>10. FrozenIsUploaded' /\ QueuedIsComplete'
  BY <1>0, <1>1, <1>4 DEF FrozenIsUploaded, QueuedIsComplete, LiveAtts
<1>11. QED
  BY <1>6, <1>7, <1>8, <1>9, <1>10 DEF AttIInv

LEMMA AttStarts == AttInit => AttIInv
<1> SUFFICES ASSUME AttInit
             PROVE  AttIInv
  OBVIOUS
<1>0. MaxSelections \in Nat
  BY AttachmentAssumption
<1>1. /\ atts = <<>> /\ copies = <<>> /\ up = NoUpload /\ rm = NoRemoval /\ late = {} /\ uploads = 0 /\ attFaults = 0
      /\ DOMAIN atts = {} /\ DOMAIN copies = {} /\ ~frozen
  BY DEF AttInit
<1>2. up.pc = "idle" /\ up.todo = {} /\ up.row = 0 /\ up.ok = <<>> /\ up \in UpRecords
  BY <1>0, <1>1 DEF NoUpload, UpRecords
<1>3. rm.pc = "idle" /\ rm \in RmRecords
  <2>1. 0 \in 0..MaxSelections
    BY <1>0
  <2>2. QED
    BY <1>1, <2>1 DEF NoRemoval, RmRecords
<1>4. frozen \in BOOLEAN
  BY DEF AttInit
<1>5. AttTypeOK
  <2>1. Len(atts) <= MaxSelections
    BY <1>0, <1>1
  <2>2. QED
    BY <1>1, <1>2, <1>3, <1>4, <2>1 DEF AttTypeOK, UpRecords, RmRecords
<1>6. DOMAIN up.ok = {}
  BY <1>2
<1>7. UploadRows = {}
  BY <1>2, <1>6 DEF UploadRows
<1>8. UploadIsOwn
  BY <1>2, <1>6, <1>7 DEF UploadIsOwn
<1>9. QED
  BY <1>1, <1>3, <1>5, <1>8 DEF AttIInv, CopiesAreOwned, RemovalIsOwn, OneCopy, FrozenIsUploaded, QueuedIsComplete

LEMMA AttStays == AttIInv /\ [AttNext]_attVars => AttIInv'
<1> SUFFICES ASSUME AttIInv, [AttNext]_attVars
             PROVE  AttIInv'
  OBVIOUS
<1>1. CASE AttNext
  BY <1>1, SelectKeeps, QueueAndStartKeep, JobsOfUploads, PostsKeep, ResolvesKeep, ChecksKeep, DeleteKeeps, CloseKeeps
     DEF AttNext
<1>2. CASE UNCHANGED attVars
  <2>1. UNCHANGED <<atts, copies, frozen, up, rm, late, uploads, attFaults>>
    BY <1>2 DEF attVars
  <2>2. UploadRows' = UploadRows /\ Pins' = Pins /\ Uncommitted' = Uncommitted
    BY <2>1 DEF UploadRows, Pins, Uncommitted
  <2>3. CopiesOf(atts[up.row].doc)' = CopiesOf(atts[up.row].doc)
    BY <2>1 DEF CopiesOf
  <2>4. UploadIsOwn'
    BY <2>1, <2>2, <2>3 DEF AttIInv, UploadIsOwn
  <2>5. up' \in UpRecords /\ uploads' \in Nat /\ attFaults' \in Nat
    BY <2>1, AttFacts
  <2>6. QED
    BY <2>1, <2>4, <2>5, RowsStay
<1>3. QED
  BY <1>1, <1>2

\* In every reachable state the draft row names a reply that exists, Graph holds no second copy of
\* a document, and a queued send lacks none of its attachments but for a removal that had already
\* passed its checks.
THEOREM ReplyIsSafe == MailSpec => []ReplyInv
<1>1. MailInit => AttIInv
  BY AttStarts DEF MailInit
<1>2. AttIInv /\ [MailNext]_<<focus, intakeVars, draftVars, attVars>> => AttIInv'
  BY MailSteps, AttStays
<1>3. DraftIInv /\ AttIInv => ReplyInv
  <2> SUFFICES ASSUME DraftIInv, AttIInv
               PROVE  NoSecondCopy
    BY DEF ReplyInv, AttachmentsInv, DraftIInv, AttIInv
  <2> SUFFICES ASSUME NEW d \in Docs
               PROVE  Cardinality(CopiesOf(d)) <= 1
    BY DEF NoSecondCopy
  <2>1. \A c, e \in CopiesOf(d) : c = e
    BY AttFacts DEF AttIInv, OneCopy, CopiesOf
  <2>2. CopiesOf(d) = {} \/ \E c \in CopiesOf(d) : CopiesOf(d) = {c}
    BY <2>1
  <2>3. CASE CopiesOf(d) = {}
    BY <2>3, FS_EmptySet
  <2>4. ASSUME NEW c \in CopiesOf(d), CopiesOf(d) = {c}
        PROVE  Cardinality(CopiesOf(d)) = 1
    BY <2>4, FS_Singleton
  <2>5. QED
    BY <2>2, <2>3, <2>4
<1>4. QED
  BY <1>1, <1>2, <1>3, DraftAlways, PTL DEF MailSpec
=============================================================================
