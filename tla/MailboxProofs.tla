--------------------------- MODULE MailboxProofs ----------------------------
(***************************************************************************)
(* What the runs of MCMailbox show on a small instance, proved for every   *)
(* value of the constants: the source move (MoveInv, NoBlindRepeat), and   *)
(* the folder (FolderInv) with its two parts, the subscriptions and the    *)
(* delta synchronisation, each from an inductive invariant of its own.     *)
(***************************************************************************)
EXTENDS MCMailbox, FiniteSetTheorems, SequenceTheorems, TLAPS

(***************************************************************************)
(* The source move: its inductive invariant                                *)
(***************************************************************************)

MoveOnes == BaseKeys \cup ({"retry"} \X (1..MaxMoves))
VerifyOnes == {"verify"} \X (1..MaxMoves)
UnsettledJobs == {"PENDING", "RUNNING", "FAILED_RETRYABLE"}
Posting == {"clear", "intent", "posted"}
Verifying == {"inspect", "found", "missing", "failed"}

\* A claimed job is RUNNING under the lease of the one worker that holds it.
JobsAreHeld ==
  /\ \A w \in Movers : mw[w].pc # "idle" =>
       mjobs[mw[w].job].status = "RUNNING" /\ mjobs[mw[w].job].leased
  /\ \A v, w \in Movers : mw[v].pc # "idle" /\ mw[w].pc # "idle" /\ mw[v].job = mw[w].job => v = w

\* A session is where its job takes it, and refers to an attempt from its intent on.
SessionsKnowAttempts ==
  \A w \in Movers :
    /\ mw[w].pc \in Posting => mw[w].job \in MoveOnes
    /\ mw[w].pc \in Verifying => mw[w].job \in VerifyOnes
    /\ mw[w].pc \in (Posting \ {"clear"}) \cup Verifying => mw[w].at >= 1

\* What is queued, and every attempt, has what it follows from behind it.
QueuedInTurn ==
  /\ mjobs[<<"after-send", 0>>].status # "absent" => plan.required /\ sentCopy
  /\ mjobs[<<"no-response", 0>>].status # "absent" => ~plan.required
  /\ \A n \in 1..MaxMoves : n > Len(moves) =>
        mjobs[<<"retry", n>>].status = "absent" /\ mjobs[<<"verify", n>>].status = "absent"
  /\ moves # <<>> => ResponseSettled
  /\ \A w \in Movers : mw[w].pc = "clear" => ResponseSettled

MoveDests == {moves[i].dest : i \in DOMAIN moves}

\* The message is where an attempt took it, and has left the inbox once one is known to have.
MailFollowsMoves ==
  /\ folder \in MoveDests \cup {"inbox"} /\ wire \subseteq MoveDests
  /\ VerifiedMoves # {} => folder # "inbox"
  /\ \A w \in Movers : (mw[w].pc = "found" \/ (mw[w].pc = "posted" /\ mw[w].was = "moved"))
       => folder # "inbox"
  /\ record # "NONE" => /\ record \in MoveDests /\ email.state = "COMPLETED"
                        /\ ResponseSettled /\ folder # "inbox"

\* A move job that can still lead to an attempt.
LiveMove(k) ==
  /\ mjobs[k].status \in UnsettledJobs
  /\ \A w \in Movers : ~(mw[w].job = k /\ mw[w].pc = "done")

\* One job can lead to an attempt; only the last attempt is open; its reconciliation is the only
\* one under way; every session is at it.
OneLiveMove == \A j, k \in MoveOnes : LiveMove(j) /\ LiveMove(k) => j = k
PastIsClosed == \A i \in 1..(Len(moves) - 1) : moves[i].status \in Failures
LastIsVerified ==
  \A n \in 1..MaxMoves : mjobs[<<"verify", n>>].status \in UnsettledJobs =>
     n = Len(moves) /\ moves[n].status \in {"AMBIGUOUS", "VERIFIED"}
AtLast(w) ==
  /\ mw[w].pc = "clear" =>
       mw[w].at = Len(moves) /\ (moves # <<>> => moves[Len(moves)].status \in Failures)
  /\ mw[w].pc \in {"intent", "posted"} =>
       mw[w].at = Len(moves) /\ moves[Len(moves)].status = "STARTED"
  /\ mw[w].pc \in Verifying =>
       /\ mw[w].at = Len(moves) /\ moves[Len(moves)].status = "AMBIGUOUS"
       /\ mw[w].job = <<"verify", Len(moves)>>

\* All of it as long as one job stands for the move.
OneAtATime ==
  OneMoveJob => /\ OneLiveMove /\ PastIsClosed /\ LastIsVerified
                /\ \A w \in Movers : AtLast(w)

MoveIInv ==
  /\ MoveTypeOK /\ JobsAreHeld /\ SessionsKnowAttempts /\ QueuedInTurn /\ MailFollowsMoves
  /\ OneAtATime

(***************************************************************************)
(* Rows of the source move                                                 *)
(***************************************************************************)

LEMMA MoveKeysAre ==
  /\ MoveOnes \subseteq MoveKeys /\ VerifyOnes \subseteq MoveKeys
  /\ MoveOnes \cap VerifyOnes = {}
  /\ \A n \in 1..MaxMoves : /\ <<"verify", n>> \in VerifyOnes /\ <<"retry", n>> \in MoveOnes
                            /\ <<"complete", n>> \in MoveKeys
                            /\ <<"complete", n>> \notin MoveOnes \cup VerifyOnes
  /\ <<"after-send", 0>> \in MoveOnes /\ <<"no-response", 0>> \in MoveOnes
  /\ <<"manual", 0>> \in MoveOnes
  /\ \A k \in MoveKeys : k[1] \notin {"verify", "complete"} => k \in MoveOnes
  /\ \A k \in MoveKeys : k[1] = "verify" => k \in VerifyOnes
  /\ \A k \in VerifyOnes : \E n \in 1..MaxMoves : k = <<"verify", n>>
BY DEF MoveOnes, VerifyOnes, MoveKeys, BaseKeys

LEMMA MoveRowSet ==
  ASSUME NEW s \in Seq(MoveRows), NEW n \in 1..Len(s), NEW st \in MoveStatuses
  PROVE  /\ [s EXCEPT ![n].status = st] \in Seq(MoveRows)
         /\ Len([s EXCEPT ![n].status = st]) = Len(s)
         /\ DOMAIN [s EXCEPT ![n].status = st] = DOMAIN s
         /\ \A i \in 1..Len(s) :
              /\ [s EXCEPT ![n].status = st][i].dest = s[i].dest
              /\ [s EXCEPT ![n].status = st][i].status = IF i = n THEN st ELSE s[i].status
<1>1. s[n] \in MoveRows
  BY ElementOfSeq
<1> DEFINE r == [s[n] EXCEPT !.status = st]
<1>2. r \in MoveRows /\ r.dest = s[n].dest /\ r.status = st
  BY <1>1 DEF MoveRows
<1>3. [s EXCEPT ![n].status = st] = [s EXCEPT ![n] = r]
  OBVIOUS
<1> HIDE DEF r
<1>4. /\ [s EXCEPT ![n] = r] \in Seq(MoveRows) /\ Len([s EXCEPT ![n] = r]) = Len(s)
      /\ \A j \in 1..Len(s) : [s EXCEPT ![n] = r][j] = IF j = n THEN r ELSE s[j]
  BY <1>2, ExceptSeq
<1>5. DOMAIN [s EXCEPT ![n] = r] = DOMAIN s
  OBVIOUS
<1>6. QED
  BY <1>2, <1>3, <1>4, <1>5

LEMMA QueueJob ==
  ASSUME NEW js \in [MoveKeys -> MoveJobRows], NEW k \in MoveKeys
  PROVE  /\ WithMoveJob(js, k) \in [MoveKeys -> MoveJobRows]
         /\ WithMoveJob(js, k)[k].status # "absent"
         /\ \A j \in MoveKeys : /\ js[j].status # "absent" => WithMoveJob(js, k)[j] = js[j]
                                /\ j # k => WithMoveJob(js, k)[j] = js[j]
                                /\ WithMoveJob(js, k)[j] \in {js[j], NewMoveJob}
<1>1. NewMoveJob \in MoveJobRows /\ NewMoveJob.status # "absent"
  BY DEF NewMoveJob, MoveJobRows
<1>2. QED
  BY <1>1 DEF WithMoveJob

LEMMA LeastNat ==
  ASSUME NEW T, T \subseteq Nat, T # {}
  PROVE  \E x \in T : \A y \in T : x <= y
<1> DEFINE R == OpToRel(<, Nat)
<1>1. IsWellFoundedOn(R, Nat)
    BY NatLessThanWellFounded DEF OpToRel
<1>2. \A x, y \in Nat : x < y => <<x, y>> \in R
    BY DEF OpToRel
<1> HIDE DEF R
<1>3. PICK x \in T : \A y \in T : <<y, x>> \notin R
    BY <1>1, WFMin
<1>4. \A y \in T : ~(y < x)
    BY <1>2, <1>3
<1> QED
    BY <1>4

\* A non-empty set of bounded naturals has a greatest element.
LEMMA GreatestNat ==
  ASSUME NEW b \in Nat, NEW T, T \subseteq 0..b, T # {}
  PROVE  \E x \in T : \A y \in T : y <= x
<1> DEFINE U == {b - x : x \in T}
<1>0. \A x \in T : b - x \in Nat
  OBVIOUS
<1>1. U \subseteq Nat /\ U # {}
  BY <1>0
<1>2. PICK u \in U : \A v \in U : u <= v
  BY <1>1, LeastNat
<1>3. PICK x \in T : u = b - x
  OBVIOUS
<1>4. \A y \in T : b - x <= b - y
  BY <1>2, <1>3
<1>5. QED
  BY <1>4

\* What a session may become.
LEMMA MoverRowSet ==
  ASSUME NEW r \in MoverStates
  PROVE  /\ r.pc \in {"idle", "claimed", "clear", "intent", "posted", "inspect", "found",
                       "missing", "done", "failed"}
         /\ r.job \in MoveKeys /\ r.n \in Nat /\ r.at \in 0..MaxMoves
         /\ \A pc \in {"done", "failed", "found", "missing"} :
              [r EXCEPT !.pc = pc] \in MoverStates
         /\ \A pc \in {"clear", "intent"}, at \in 0..MaxMoves :
              [r EXCEPT !.pc = pc, !.at = at] \in MoverStates
         /\ \A out \in MoveOutcomes : [r EXCEPT !.pc = "posted", !.was = out] \in MoverStates
         /\ \A at \in 0..MaxMoves, was \in MoveStatuses :
              [r EXCEPT !.pc = "inspect", !.at = at, !.was = was] \in MoverStates
BY DEF MoverStates, MoveOutcomes, MoveStatuses

LEMMA IdleMoverIs ==
  IdleMover \in MoverStates /\ IdleMover.pc = "idle" /\ IdleMover.at = 0
<1>1. <<"manual", 0>> \in MoveKeys /\ 0 \in 0..MaxMoves /\ 0 \in Nat
  BY MoveAssumption DEF MoveKeys, BaseKeys
<1>2. QED
  BY <1>1 DEF IdleMover, MoverStates

LEMMA ClaimedMoverIs ==
  ASSUME NEW k \in MoveKeys, NEW n \in Nat
  PROVE  /\ [IdleMover EXCEPT !.pc = "claimed", !.job = k, !.n = n] \in MoverStates
         /\ [IdleMover EXCEPT !.pc = "claimed", !.job = k, !.n = n].pc = "claimed"
         /\ [IdleMover EXCEPT !.pc = "claimed", !.job = k, !.n = n].job = k
         /\ [IdleMover EXCEPT !.pc = "claimed", !.job = k, !.n = n].at = 0
BY IdleMoverIs DEF IdleMover, MoverStates

LEMMA MoveJobRowSet ==
  ASSUME NEW js \in [MoveKeys -> MoveJobRows], NEW k \in MoveKeys
  PROVE  /\ [js EXCEPT ![k] = [status |-> "RUNNING", attempts |-> @.attempts + 1,
                               leased |-> TRUE]] \in [MoveKeys -> MoveJobRows]
         /\ [js EXCEPT ![k].leased = FALSE] \in [MoveKeys -> MoveJobRows]
         /\ \A st \in {"COMPLETED", "FAILED_REVIEW", "FAILED_RETRYABLE"} :
              [js EXCEPT ![k] = [@ EXCEPT !.status = st, !.leased = FALSE]]
                \in [MoveKeys -> MoveJobRows]
<1>1. js[k] \in MoveJobRows /\ js[k].attempts + 1 \in Nat
  BY DEF MoveJobRows
<1>2. /\ [status |-> "RUNNING", attempts |-> js[k].attempts + 1, leased |-> TRUE] \in MoveJobRows
      /\ [js[k] EXCEPT !.leased = FALSE] \in MoveJobRows
      /\ \A st \in {"COMPLETED", "FAILED_REVIEW", "FAILED_RETRYABLE"} :
           [js[k] EXCEPT !.status = st, !.leased = FALSE] \in MoveJobRows
  BY <1>1 DEF MoveJobRows
<1>3. QED
  BY <1>2

LEMMA TransitionOfRow ==
  ASSUME NEW row \in EmailRows, NEW target \in {"MOVED", "COMPLETED"}
  PROVE  Transitioned(row, target) \in EmailRows /\ Transitioned(row, target).state = target
<1>1. target \in EmailStates /\ target \notin Failures /\ target # "FAILED_RETRYABLE"
  BY DEF EmailStates, PipelineStates, Pipeline, Failures
<1>2. row.retries + (IF target = "FAILED_RETRYABLE" THEN 1 ELSE 0) \in Nat
  BY <1>1 DEF EmailRows
<1> DEFINE resume == CASE target \notin Failures -> "NONE"
                       [] target \in Failures /\ row.state \notin Failures -> row.state
                       [] OTHER -> row.resume
<1>3. row.state \in EmailStates /\ row.resume \in PipelineStates \cup {"NONE"}
  BY DEF EmailRows
<1>4. resume \in PipelineStates \cup {"NONE"}
  BY <1>1, <1>3
<1>5. QED
  BY <1>1, <1>2, <1>4 DEF Transitioned, EmailRows

LEMMA CompletesTheEmail ==
  ASSUME email \in EmailRows
  PROVE  /\ Transitioned(Transitioned(email, "MOVED"), "COMPLETED") \in EmailRows
         /\ Transitioned(Transitioned(email, "MOVED"), "COMPLETED").state = "COMPLETED"
BY TransitionOfRow

LEMMA LastVerified ==
  ASSUME moves \in Seq(MoveRows), VerifiedMoves # {}
  PROVE  LET n == CHOOSE i \in VerifiedMoves : \A j \in VerifiedMoves : j <= i
         IN  n \in VerifiedMoves /\ n \in DOMAIN moves /\ moves[n].dest \in Folders
<1>1. /\ DOMAIN moves = 1..Len(moves) /\ Len(moves) \in Nat /\ VerifiedMoves \subseteq 1..Len(moves)
  BY LenProperties DEF VerifiedMoves
<1>2. VerifiedMoves \subseteq 0..Len(moves)
  BY <1>1
<1>3. \E i \in VerifiedMoves : \A j \in VerifiedMoves : j <= i
  BY <1>1, <1>2, GreatestNat
<1>4. PICK n \in VerifiedMoves :
          n = CHOOSE i \in VerifiedMoves : \A j \in VerifiedMoves : j <= i
  BY <1>3
<1>5. moves[n] \in MoveRows
  BY <1>1, <1>4, ElementOfSeq
<1>6. QED
  BY <1>1, <1>4, <1>5 DEF MoveRows

\* Every step but a worker's handler, and every handler, by name.
OtherMoveStep ==
  \/ SentCopyVerified \/ ManualMove \/ RequestCompletion
  \/ \E f \in Overrides : OverrideDestination(f)
  \/ \E f \in Folders : LateMove(f)

\* What a death of w leaves: its session forgotten, its job unleased.
LEMMA DeathLeaves ==
  ASSUME MoveTypeOK, NEW w \in Movers, MoverDies(w)
  PROVE  /\ mw' \in [Movers -> MoverStates] /\ mjobs' \in [MoveKeys -> MoveJobRows]
         /\ mw'[w] = IdleMover /\ \A v \in Movers : v # w => mw'[v] = mw[v]
         /\ mw[w].job \in MoveKeys
         /\ mjobs'[mw[w].job].leased = FALSE
         /\ \A k \in MoveKeys : /\ mjobs'[k].status = mjobs[k].status
                                /\ k # mw[w].job => mjobs'[k] = mjobs[k]
         /\ UNCHANGED <<moves, email, plan, sentCopy, record, folder, wire>>
<1>1. mw[w] \in MoverStates /\ mw[w].job \in MoveKeys
  BY MoverRowSet DEF MoveTypeOK
<1>2. mjobs' \in [MoveKeys -> MoveJobRows]
  BY <1>1, MoveJobRowSet DEF MoveTypeOK, MoverDies
<1>3. mjobs[mw[w].job] \in MoveJobRows
  BY <1>1 DEF MoveTypeOK
<1>4. /\ mjobs'[mw[w].job].leased = FALSE
      /\ \A k \in MoveKeys : /\ mjobs'[k].status = mjobs[k].status
                             /\ k # mw[w].job => mjobs'[k] = mjobs[k]
  BY <1>1, <1>3 DEF MoveTypeOK, MoverDies, MoveJobRows
<1>5. mw' \in [Movers -> MoverStates] /\ mw'[w] = IdleMover /\ \A v \in Movers : v # w => mw'[v] = mw[v]
  BY IdleMoverIs DEF MoveTypeOK, MoverDies
<1>6. QED
  BY <1>1, <1>2, <1>4, <1>5 DEF MoverDies

\* What a step of w to another program counter leaves.
LEMMA GoesTo ==
  ASSUME MoveTypeOK, NEW w \in Movers, NEW pc \in {"done", "failed", "found", "missing"},
         MoveGoTo(w, pc)
  PROVE  /\ mw' \in [Movers -> MoverStates]
         /\ mw'[w].pc = pc /\ mw'[w].job = mw[w].job /\ mw'[w].at = mw[w].at
         /\ mw'[w].was = mw[w].was /\ mw'[w].n = mw[w].n
         /\ \A v \in Movers : v # w => mw'[v] = mw[v]
<1>1. mw[w] \in MoverStates
  BY DEF MoveTypeOK
<1>2. [mw[w] EXCEPT !.pc = pc] \in MoverStates
  BY <1>1, MoverRowSet
<1>3. mw'[w] = [mw[w] EXCEPT !.pc = pc] /\ mw' = [mw EXCEPT ![w] = [mw[w] EXCEPT !.pc = pc]]
  BY DEF MoveGoTo, MoveTypeOK
<1>4. QED
  BY <1>1, <1>2, <1>3 DEF MoveTypeOK, MoverStates

LEMMA LengthOfMoves ==
  ASSUME MoveTypeOK
  PROVE  /\ Len(moves) \in 0..MaxMoves /\ DOMAIN moves = 1..Len(moves)
         /\ \A i \in 1..Len(moves) : moves[i] \in MoveRows /\ moves[i].dest \in Folders
                                     /\ moves[i].status \in MoveStatuses /\ i \in 1..MaxMoves
         /\ moves = <<>> <=> Len(moves) = 0
<1>1. Len(moves) \in Nat /\ DOMAIN moves = 1..Len(moves) /\ Len(moves) <= MaxMoves /\ MaxMoves \in Nat
  BY LenProperties, MoveAssumption DEF MoveTypeOK
<1>2. \A i \in 1..Len(moves) : moves[i] \in MoveRows
  BY ElementOfSeq DEF MoveTypeOK
<1>3. moves = <<>> <=> Len(moves) = 0
  BY EmptySeq DEF MoveTypeOK
<1>4. QED
  BY <1>1, <1>2, <1>3 DEF MoveRows

LEMMA OutcomeIsStatus ==
  \A out, n : OutcomeStatus(out, n) \in MoveStatuses
BY DEF OutcomeStatus, MoveStatuses

\* The job that an outcome queues.
LEMMA FollowUpQueues ==
  ASSUME MoveTypeOK, NEW st \in MoveStatuses, NEW n \in 1..MaxMoves
  PROVE  /\ FollowUp(st, n) \in [MoveKeys -> MoveJobRows]
         /\ \A j \in MoveKeys :
              /\ mjobs[j].status # "absent" => FollowUp(st, n)[j] = mjobs[j]
              /\ FollowUp(st, n)[j] \in {mjobs[j], NewMoveJob}
              /\ j \in MoveOnes /\ (j # <<"retry", n>> \/ st # "FAILED_RETRYABLE")
                   => FollowUp(st, n)[j] = mjobs[j]
              /\ j \in VerifyOnes /\ (j # <<"verify", n>> \/ st # "AMBIGUOUS")
                   => FollowUp(st, n)[j] = mjobs[j]
<1>1. /\ <<"complete", n>> \in MoveKeys /\ <<"verify", n>> \in MoveKeys /\ <<"retry", n>> \in MoveKeys
      /\ <<"complete", n>> \notin MoveOnes \cup VerifyOnes
      /\ <<"verify", n>> \notin MoveOnes /\ <<"retry", n>> \notin VerifyOnes
  BY MoveKeysAre
<1>2. mjobs \in [MoveKeys -> MoveJobRows]
  BY DEF MoveTypeOK
<1>3. CASE st = "VERIFIED"
  <2>1. FollowUp(st, n) = WithMoveJob(mjobs, <<"complete", n>>)
    BY <1>3 DEF FollowUp
  <2>2. QED
    BY <1>1, <1>2, <1>3, <2>1, QueueJob
<1>4. CASE st = "AMBIGUOUS"
  <2>1. FollowUp(st, n) = WithMoveJob(mjobs, <<"verify", n>>)
    BY <1>4 DEF FollowUp
  <2>2. QED
    BY <1>1, <1>2, <1>4, <2>1, QueueJob
<1>5. CASE st = "FAILED_RETRYABLE"
  <2>1. FollowUp(st, n) = WithMoveJob(mjobs, <<"retry", n>>)
    BY <1>5 DEF FollowUp
  <2>2. QED
    BY <1>1, <1>2, <1>5, <2>1, QueueJob
<1>6. CASE st \notin {"VERIFIED", "AMBIGUOUS", "FAILED_RETRYABLE"}
  <2>1. FollowUp(st, n) = mjobs
    BY <1>6 DEF FollowUp
  <2>2. QED
    BY <1>2, <2>1
<1>7. QED
  BY <1>3, <1>4, <1>5, <1>6

LEMMA MoveTypes ==
  ASSUME MoveTypeOK, SessionsKnowAttempts, QueuedInTurn, MailFollowsMoves, JobsAreHeld, MoveNext
  PROVE  MoveTypeOK'
<1>l. /\ Len(moves) \in 0..MaxMoves /\ DOMAIN moves = 1..Len(moves) /\ MaxMoves \in Nat
      /\ \A i \in 1..Len(moves) : moves[i] \in MoveRows /\ moves[i].dest \in Folders
                                  /\ moves[i].status \in MoveStatuses /\ i \in 1..MaxMoves
      /\ moves = <<>> <=> Len(moves) = 0
      /\ Overrides \subseteq Folders /\ MaxUpsets \in Nat
  BY LengthOfMoves, MoveAssumption
<1> USE <1>l
<1>k. /\ <<"after-send", 0>> \in MoveKeys /\ <<"manual", 0>> \in MoveKeys
      /\ mjobs \in [MoveKeys -> MoveJobRows] /\ upsets \in 0..MaxUpsets
  BY MoveKeysAre DEF MoveTypeOK
<1>s. ASSUME NEW w \in Movers, mw'[w].at <= Len(moves), \A v \in Movers : v # w => mw'[v] = mw[v]
      PROVE  \A v \in Movers : mw'[v].at <= Len(moves)
  BY <1>s DEF MoveTypeOK
<1>i. IdleMover \in MoverStates /\ IdleMover.at <= Len(moves)
  <2>1. IdleMover \in MoverStates /\ IdleMover.at = 0
    BY IdleMoverIs
  <2>2. QED
    BY <2>1
<1>1. CASE SentCopyVerified
  BY <1>1, <1>k, QueueJob DEF SentCopyVerified, MoveTypeOK
<1>2. CASE ManualMove
  <2>1. upsets' \in 0..MaxUpsets
    BY <1>2, <1>k DEF ManualMove
  <2>2. QED
    BY <1>2, <1>k, <2>1, QueueJob DEF ManualMove, MoveTypeOK
<1>3. ASSUME Complete, mjobs' \in [MoveKeys -> MoveJobRows], mw' \in [Movers -> MoverStates],
             \A v \in Movers : mw'[v].at = mw[v].at
      PROVE  MoveTypeOK'
  <2>1. email' \in EmailRows
    BY <1>3, CompletesTheEmail DEF Complete, MoveTypeOK
  <2>2. record' \in Folders
    BY <1>3, LastVerified DEF Complete, CanComplete, MoveTypeOK
  <2>3. QED
    BY <1>3, <2>1, <2>2 DEF Complete, MoveTypeOK, CompletionRecords
<1>4. CASE RequestCompletion
  BY <1>3, <1>4, <1>k DEF RequestCompletion, MoveTypeOK
<1>5. ASSUME NEW f \in Overrides, OverrideDestination(f)
      PROVE  MoveTypeOK'
  <2>1. upsets' \in 0..MaxUpsets
    BY <1>5, <1>k DEF OverrideDestination
  <2>2. plan' \in [required : BOOLEAN, dest : Folders]
    BY <1>5 DEF OverrideDestination, MoveTypeOK
  <2>3. QED
    BY <1>5, <2>1, <2>2 DEF OverrideDestination, MoveTypeOK
<1>6. ASSUME NEW f \in Folders, LateMove(f)
      PROVE  MoveTypeOK'
  BY <1>6 DEF LateMove, MoveTypeOK
<1>7. ASSUME NEW w \in Movers, MoverDies(w), upsets' \in 0..MaxUpsets
      PROVE  MoveTypeOK'
  <2>1. /\ mw' \in [Movers -> MoverStates] /\ mjobs' \in [MoveKeys -> MoveJobRows]
        /\ mw'[w] = IdleMover /\ \A v \in Movers : v # w => mw'[v] = mw[v]
        /\ UNCHANGED <<moves, email, plan, sentCopy, record, folder, wire>>
    BY <1>7, DeathLeaves
  <2>2. \A v \in Movers : mw'[v].at <= Len(moves)
    BY <1>i, <1>s, <2>1
  <2>3. QED
    BY <1>7, <2>1, <2>2 DEF MoveTypeOK
<1>8. ASSUME NEW w \in Movers, MoverCrash(w)
      PROVE  MoveTypeOK'
  <2>1. upsets' \in 0..MaxUpsets
    BY <1>8, <1>k DEF MoverCrash
  <2>2. QED
    BY <1>7, <1>8, <2>1 DEF MoverCrash
<1>9. ASSUME NEW w \in Movers, MoverStep(w)
      PROVE  MoveTypeOK'
  <2>t. mw[w] \in MoverStates /\ mw \in [Movers -> MoverStates] /\ mw[w].at <= Len(moves)
    BY DEF MoveTypeOK
  <2>0. /\ mw[w] \in MoverStates /\ mw[w].job \in MoveKeys /\ mw[w].at \in 0..Len(moves)
        /\ mw \in [Movers -> MoverStates]
    <3>1. mw[w].job \in MoveKeys /\ mw[w].at \in 0..MaxMoves
      BY <2>t DEF MoverStates
    <3>2. QED
      BY <2>t, <3>1
  <2>a. mw[w].pc \in {"intent", "posted", "inspect", "found", "missing", "failed"}
           => mw[w].at \in 1..Len(moves)
    BY <2>0 DEF SessionsKnowAttempts, Posting, Verifying
  <2>1. ASSUME NEW k \in MoveKeys, MoveClaim(w, k)
        PROVE  MoveTypeOK'
    <3>1. mjobs[k].attempts + 1 \in Nat
      BY <1>k DEF MoveJobRows
    <3>2. mjobs' \in [MoveKeys -> MoveJobRows]
      BY <1>k, <2>1, MoveJobRowSet DEF MoveClaim
    <3> DEFINE r == [IdleMover EXCEPT !.pc = "claimed", !.job = k, !.n = mjobs[k].attempts + 1]
    <3>b. r \in MoverStates /\ r.at = 0
      BY <3>1, ClaimedMoverIs, ZenonT(40)
    <3>3. r \in MoverStates /\ r.at = 0 /\ mw' = [mw EXCEPT ![w] = r]
      BY <2>1, <3>b DEF MoveClaim
    <3> HIDE DEF r
    <3>4. mw' \in [Movers -> MoverStates] /\ mw'[w].at = 0 /\ \A v \in Movers : v # w => mw'[v] = mw[v]
      BY <2>0, <3>3
    <3>5. \A v \in Movers : mw'[v].at <= Len(moves)
      BY <1>s, <3>4
    <3>6. QED
      BY <2>1, <3>2, <3>4, <3>5 DEF MoveClaim, MoveTypeOK
  <2>2. CASE MoveJobDone(w)
    <3>1. mjobs' \in [MoveKeys -> MoveJobRows]
      BY <1>k, <2>0, <2>2, MoveJobRowSet DEF MoveJobDone
    <3>2. mw' \in [Movers -> MoverStates] /\ mw'[w] = IdleMover /\ \A v \in Movers : v # w => mw'[v] = mw[v]
      BY <1>i, <2>0, <2>2 DEF MoveJobDone
    <3>3. \A v \in Movers : mw'[v].at <= Len(moves)
      BY <1>i, <1>s, <3>2
    <3>4. QED
      BY <2>2, <3>1, <3>2, <3>3 DEF MoveJobDone, MoveTypeOK
  <2>3. CASE MoveJobFails(w)
    <3>1. mjobs' \in [MoveKeys -> MoveJobRows]
      BY <1>k, <2>0, <2>3, MoveJobRowSet DEF MoveJobFails
    <3>2. Len(moves) \in 1..Len(moves)
      BY <2>a, <2>3 DEF MoveJobFails
    <3>a. /\ moves \in Seq(MoveRows) /\ "FAILED_REVIEW" \in MoveStatuses
          /\ moves' \in {moves, [moves EXCEPT ![Len(moves)].status = "FAILED_REVIEW"]}
      BY <2>3 DEF MoveJobFails, MoveTypeOK, MoveStatuses, LastMove
    <3>b. /\ [moves EXCEPT ![Len(moves)].status = "FAILED_REVIEW"] \in Seq(MoveRows)
          /\ Len([moves EXCEPT ![Len(moves)].status = "FAILED_REVIEW"]) = Len(moves)
      BY <3>a, <3>2, MoveRowSet
    <3>3. moves' \in Seq(MoveRows) /\ Len(moves') = Len(moves)
      BY <3>a, <3>b
    <3>4. mw' \in [Movers -> MoverStates] /\ mw'[w] = IdleMover /\ \A v \in Movers : v # w => mw'[v] = mw[v]
      BY <1>i, <2>0, <2>3 DEF MoveJobFails
    <3>5. \A v \in Movers : mw'[v].at <= Len(moves)
      BY <1>i, <1>s, <3>4
    <3>6. QED
      BY <2>3, <3>1, <3>3, <3>4, <3>5 DEF MoveJobFails, MoveTypeOK
  <2>4. CASE MoveAlreadyVerified(w)
    BY <2>4, GoesTo DEF MoveAlreadyVerified, MoveTypeOK
  <2>5. CASE MoveUnresolved(w)
    <3>1. Len(moves) \in 1..Len(moves)
      BY <2>5 DEF MoveUnresolved, LatestIs
    <3>a. moves \in Seq(MoveRows) /\ "AMBIGUOUS" \in MoveStatuses
          /\ moves' = [moves EXCEPT ![Len(moves)].status = "AMBIGUOUS"]
      BY <2>5 DEF MoveUnresolved, MoveTypeOK, MoveStatuses, LastMove
    <3>2. moves' \in Seq(MoveRows) /\ Len(moves') = Len(moves)
      BY <3>a, <3>1, MoveRowSet
    <3>3. <<"verify", Len(moves)>> \in MoveKeys
      BY <3>1, MoveKeysAre
    <3>4. mjobs' \in [MoveKeys -> MoveJobRows]
      BY <1>k, <2>5, <3>3, QueueJob DEF MoveUnresolved, LastMove
    <3>5. QED
      BY <2>5, <3>2, <3>4, GoesTo DEF MoveUnresolved, MoveTypeOK
  <2>6. CASE MoveBlocked(w)
    BY <1>7, <1>k, <2>6 DEF MoveBlocked
  <2>7. CASE MoveClears(w)
    <3>1. mw' = [mw EXCEPT ![w] = [mw[w] EXCEPT !.pc = "clear", !.at = Len(moves)]]
      BY <2>0, <2>7 DEF MoveClears, LastMove
    <3>2. [mw[w] EXCEPT !.pc = "clear", !.at = Len(moves)] \in MoverStates
      BY <2>0, MoverRowSet
    <3>3. [mw[w] EXCEPT !.pc = "clear", !.at = Len(moves)].at = Len(moves)
      BY <2>0 DEF MoverStates
    <3>4. mw' \in [Movers -> MoverStates] /\ mw'[w].at = Len(moves) /\ \A v \in Movers : v # w => mw'[v] = mw[v]
      BY <2>0, <3>1, <3>2, <3>3
    <3>5. \A v \in Movers : mw'[v].at <= Len(moves)
      BY <1>s, <3>4
    <3>6. QED
      BY <2>7, <3>4, <3>5 DEF MoveClears, MoveTypeOK
  <2>8. CASE MoveIntent(w)
    <3>0. Len(moves) + 1 \in 0..MaxMoves
      BY <2>8 DEF MoveIntent, LastMove
    <3>1. mw' = [mw EXCEPT ![w] = [mw[w] EXCEPT !.pc = "intent", !.at = Len(moves) + 1]]
      BY <2>0, <2>8 DEF MoveIntent, LastMove
    <3>2. [mw[w] EXCEPT !.pc = "intent", !.at = Len(moves) + 1] \in MoverStates
      BY <2>0, <3>0, MoverRowSet
    <3>3. [mw[w] EXCEPT !.pc = "intent", !.at = Len(moves) + 1].at = Len(moves) + 1
      BY <2>0 DEF MoverStates
    <3>4. [status |-> "STARTED", dest |-> plan.dest] \in MoveRows
      BY DEF MoveTypeOK, MoveRows, MoveStatuses
    <3>5. moves' \in Seq(MoveRows) /\ Len(moves') = Len(moves) + 1
      BY <2>8, <3>4, AppendProperties DEF MoveIntent, MoveTypeOK
    <3>6. \A v \in Movers : mw'[v].at <= Len(moves')
      BY <2>0, <3>1, <3>3, <3>5 DEF MoveTypeOK, MoverStates
    <3>7. mw' \in [Movers -> MoverStates]
      BY <2>0, <3>1, <3>2
    <3>8. QED
      BY <2>8, <3>0, <3>5, <3>6, <3>7 DEF MoveIntent, MoveTypeOK
  <2>9. CASE MoveIntentCollides(w)
    BY <1>7, <1>k, <2>9 DEF MoveIntentCollides
  <2>10. ASSUME NEW out \in MoveOutcomes, MovePost(w, out)
         PROVE  MoveTypeOK'
    <3>0. moves[mw[w].at].dest \in Folders
      BY <2>a, <2>10 DEF MovePost
    <3>1. mw' = [mw EXCEPT ![w] = [mw[w] EXCEPT !.pc = "posted", !.was = out]]
      BY <2>0, <2>10 DEF MovePost
    <3>2. [mw[w] EXCEPT !.pc = "posted", !.was = out] \in MoverStates
      BY <2>0, MoverRowSet
    <3>3. [mw[w] EXCEPT !.pc = "posted", !.was = out].at = mw[w].at
      BY <2>0 DEF MoverStates
    <3>4. folder' \in Folders \cup {"inbox"} /\ wire' \subseteq Folders
      BY <2>10, <3>0 DEF MovePost, MoveTypeOK
    <3>5. QED
      BY <2>0, <2>10, <3>1, <3>2, <3>3, <3>4 DEF MovePost, MoveTypeOK
  <2>11. CASE MoveOutcome(w)
    <3>1. mw[w].at \in 1..Len(moves) /\ mw[w].at \in 1..MaxMoves
      BY <2>a, <2>11 DEF MoveOutcome
    <3>2. PICK st \in MoveStatuses : st = OutcomeStatus(mw[w].was, mw[w].at)
      BY OutcomeIsStatus
    <3>3. moves' \in Seq(MoveRows) /\ Len(moves') = Len(moves)
      BY <2>11, <3>1, <3>2, MoveRowSet DEF MoveOutcome, MoveTypeOK
    <3>4. mjobs' \in [MoveKeys -> MoveJobRows]
      BY <2>11, <3>1, <3>2, FollowUpQueues DEF MoveOutcome
    <3>5. QED
      BY <2>11, <3>3, <3>4, GoesTo DEF MoveOutcome, MoveTypeOK
  <2>12. CASE VerifyLoads(w)
    <3>0. moves # <<>>
      <4>1. mw[w].job \in VerifyOnes
        BY <2>0, <2>12, MoveKeysAre DEF VerifyLoads, VerifyJob
      <4>2. PICK n \in 1..MaxMoves : mw[w].job = <<"verify", n>>
        BY <4>1, MoveKeysAre
      <4>3. mjobs[mw[w].job].status = "RUNNING"
        BY <2>12 DEF JobsAreHeld, VerifyLoads, VerifyJob
      <4>4. ~(n > Len(moves))
        BY <4>2, <4>3 DEF QueuedInTurn
      <4>5. QED
        BY <4>4
    <3>1. Len(moves) \in 1..Len(moves) /\ moves[Len(moves)].status \in MoveStatuses
      BY <3>0
    <3>2. CASE LatestIs({"VERIFIED"})
      <4>1. MoveGoTo(w, "done")
        BY <2>12, <3>2 DEF VerifyLoads, MoveGoTo
      <4>2. QED
        BY <2>12, <4>1, GoesTo DEF VerifyLoads, MoveTypeOK
    <3>3. CASE ~LatestIs({"VERIFIED"})
      <4> DEFINE r == [mw[w] EXCEPT !.pc = "inspect", !.at = Len(moves), !.was = moves[Len(moves)].status]
      <4>1. mw' = [mw EXCEPT ![w] = r]
        BY <2>0, <2>12, <3>3 DEF VerifyLoads, LastMove
      <4>2. r \in MoverStates
        BY <2>0, <3>1, MoverRowSet
      <4>3. r.at = Len(moves)
        BY <2>0 DEF MoverStates
      <4> HIDE DEF r
      <4>4. mw' \in [Movers -> MoverStates] /\ mw'[w].at = Len(moves) /\ \A v \in Movers : v # w => mw'[v] = mw[v]
        BY <2>0, <4>1, <4>2, <4>3
      <4>5. \A v \in Movers : mw'[v].at <= Len(moves)
        BY <1>s, <4>4
      <4>6. QED
        BY <2>12, <4>4, <4>5 DEF VerifyLoads, MoveTypeOK
    <3>4. QED
      BY <3>2, <3>3
  <2>13. CASE VerifyInspects(w)
    BY <2>13, GoesTo DEF VerifyInspects, MoveTypeOK
  <2>14. CASE VerifyFound(w)
    <3>1. mw[w].at \in 1..Len(moves) /\ mw[w].at \in 1..MaxMoves
      BY <2>a, <2>14 DEF VerifyFound
    <3>a. moves \in Seq(MoveRows) /\ "VERIFIED" \in MoveStatuses
          /\ moves' = [moves EXCEPT ![mw[w].at].status = "VERIFIED"]
      BY <2>14 DEF VerifyFound, MoveTypeOK, MoveStatuses
    <3>2. moves' \in Seq(MoveRows) /\ Len(moves') = Len(moves)
      BY <3>a, <3>1, MoveRowSet, SMTT(20)
    <3>3. <<"complete", mw[w].at>> \in MoveKeys
      BY <3>1, MoveKeysAre
    <3>4. mjobs' \in [MoveKeys -> MoveJobRows]
      BY <1>k, <2>14, <3>3, QueueJob DEF VerifyFound
    <3>5. QED
      BY <2>14, <3>2, <3>4, GoesTo DEF VerifyFound, MoveTypeOK
  <2>15. CASE VerifyMissing(w)
    <3>1. mw[w].at \in 1..Len(moves)
      BY <2>a, <2>15 DEF VerifyMissing
    <3>a. /\ moves \in Seq(MoveRows) /\ "AMBIGUOUS" \in MoveStatuses
          /\ moves' \in {moves, [moves EXCEPT ![mw[w].at].status = "AMBIGUOUS"]}
      BY <2>15 DEF VerifyMissing, MoveTypeOK, MoveStatuses
    <3>b. /\ [moves EXCEPT ![mw[w].at].status = "AMBIGUOUS"] \in Seq(MoveRows)
          /\ Len([moves EXCEPT ![mw[w].at].status = "AMBIGUOUS"]) = Len(moves)
      BY <3>a, <3>1, MoveRowSet
    <3>2. moves' \in Seq(MoveRows) /\ Len(moves') = Len(moves)
      BY <3>a, <3>b
    <3>3. QED
      BY <2>15, <3>2, GoesTo DEF VerifyMissing, MoveTypeOK
  <2>16. CASE JobCompletes(w)
    <3>1. /\ mw' \in [Movers -> MoverStates] /\ \A v \in Movers : mw'[v].at = mw[v].at
      BY <2>16, GoesTo DEF JobCompletes
    <3>2. CASE Complete
      BY <1>3, <1>k, <2>16, <3>1, <3>2 DEF JobCompletes
    <3>3. CASE ~Complete
      BY <1>k, <2>16, <3>1, <3>3 DEF JobCompletes, MoveTypeOK
    <3>4. QED
      BY <3>2, <3>3
  <2>17. CASE JobCannotComplete(w)
    BY <1>7, <1>k, <2>17 DEF JobCannotComplete
  <2>18. QED
    BY <1>9, <2>1, <2>2, <2>3, <2>4, <2>5, <2>6, <2>7, <2>8, <2>9, <2>10, <2>11, <2>12, <2>13,
       <2>14, <2>15, <2>16, <2>17 DEF MoverStep
<1>10. QED
  BY <1>1, <1>2, <1>4, <1>5, <1>6, <1>8, <1>9 DEF MoveNext

(***************************************************************************)
(* What the steps of a worker do to sessions, jobs and attempts            *)
(***************************************************************************)

\* Only the session of w changes.
OnlyMover(w) == \A v \in Movers : v # w => mw'[v] = mw[v]

\* Jobs that exist are left alone.
JobsStand == \A k \in MoveKeys : mjobs[k].status # "absent" => mjobs'[k] = mjobs[k]

LEMMA ClaimEffect ==
  ASSUME MoveTypeOK, NEW w \in Movers, NEW k \in MoveKeys, MoveClaim(w, k)
  PROVE  /\ OnlyMover(w) /\ mw[w].pc = "idle" /\ mw'[w].pc = "claimed" /\ mw'[w].job = k
         /\ mw'[w].at = 0
         /\ mjobs[k].status \in UnsettledJobs /\ ~(mjobs[k].status = "RUNNING" /\ mjobs[k].leased)
         /\ mjobs'[k].status = "RUNNING" /\ mjobs'[k].leased
         /\ \A j \in MoveKeys : j # k => mjobs'[j] = mjobs[j]
         /\ UNCHANGED <<moves, email, plan, sentCopy, record, folder, wire, upsets>>
<1>0. mw \in [Movers -> MoverStates] /\ mjobs \in [MoveKeys -> MoveJobRows]
  BY DEF MoveTypeOK
<1>1. mjobs[k].attempts + 1 \in Nat
  BY <1>0 DEF MoveJobRows
<1> DEFINE r == [IdleMover EXCEPT !.pc = "claimed", !.job = k, !.n = mjobs[k].attempts + 1]
<1>2. r.pc = "claimed" /\ r.job = k /\ r.at = 0
  BY <1>1, ClaimedMoverIs
<1>3. mw' = [mw EXCEPT ![w] = r]
  BY DEF MoveClaim
<1> HIDE DEF r
<1>4. OnlyMover(w) /\ mw'[w] = r
  BY <1>0, <1>3 DEF OnlyMover
<1>5. /\ mjobs'[k].status = "RUNNING" /\ mjobs'[k].leased
      /\ \A j \in MoveKeys : j # k => mjobs'[j] = mjobs[j]
  BY <1>0 DEF MoveClaim
<1>6. QED
  BY <1>2, <1>4, <1>5 DEF MoveClaim, UnsettledJobs

\* A job that ends, well or not.
LEMMA ReleaseEffect ==
  ASSUME MoveTypeOK, NEW w \in Movers, MoveJobDone(w) \/ MoveJobFails(w)
  PROVE  /\ OnlyMover(w) /\ mw'[w] = IdleMover /\ mw'[w].pc = "idle" /\ mw[w].job \in MoveKeys
         /\ MoveJobDone(w) => mjobs'[mw[w].job].status = "COMPLETED" /\ moves' = moves
         /\ MoveJobFails(w) =>
              mjobs'[mw[w].job].status =
                IF mw[w].n >= MoveMaxOf(mw[w].job) THEN "FAILED_REVIEW" ELSE "FAILED_RETRYABLE"
         /\ \A j \in MoveKeys : j # mw[w].job => mjobs'[j] = mjobs[j]
         /\ UNCHANGED <<email, plan, sentCopy, record, folder, wire, upsets>>
<1>0. mw \in [Movers -> MoverStates] /\ mjobs \in [MoveKeys -> MoveJobRows] /\ mw[w] \in MoverStates
  BY DEF MoveTypeOK
<1>1. mw[w].job \in MoveKeys
  BY <1>0, MoverRowSet
<1>2. OnlyMover(w) /\ mw'[w] = IdleMover
  BY <1>0 DEF OnlyMover, MoveJobDone, MoveJobFails
<1>3. mjobs[mw[w].job] \in MoveJobRows
  BY <1>0, <1>1
<1>4. /\ MoveJobDone(w) => mjobs'[mw[w].job].status = "COMPLETED"
      /\ MoveJobFails(w) =>
              mjobs'[mw[w].job].status =
                IF mw[w].n >= MoveMaxOf(mw[w].job) THEN "FAILED_REVIEW" ELSE "FAILED_RETRYABLE"
  <2>1. ASSUME NEW st, mjobs' = [mjobs EXCEPT ![mw[w].job] = [@ EXCEPT !.status = st,
                                                                       !.leased = FALSE]]
        PROVE  mjobs'[mw[w].job].status = st
    BY <1>0, <1>1, <1>3, <2>1 DEF MoveJobRows
  <2>2. MoveJobDone(w) => mjobs'[mw[w].job].status = "COMPLETED"
    BY <2>1 DEF MoveJobDone
  <2> DEFINE st == IF mw[w].n >= MoveMaxOf(mw[w].job) THEN "FAILED_REVIEW" ELSE "FAILED_RETRYABLE"
  <2>3. MoveJobFails(w) => mjobs' = [mjobs EXCEPT ![mw[w].job] = [@ EXCEPT !.status = st,
                                                                            !.leased = FALSE]]
    BY DEF MoveJobFails
  <2> HIDE DEF st
  <2>4. MoveJobFails(w) => mjobs'[mw[w].job].status = st
    BY <2>1, <2>3
  <2>5. QED
    BY <2>2, <2>4 DEF st
<1>5. \A j \in MoveKeys : j # mw[w].job => mjobs'[j] = mjobs[j]
  BY <1>0, <1>1 DEF MoveJobDone, MoveJobFails
<1>6. QED
  BY <1>1, <1>2, <1>4, <1>5, IdleMoverIs DEF MoveJobDone, MoveJobFails

\* A worker reads, finds nothing against an attempt, writes its intent or posts.
LEMMA ClearsEffect ==
  ASSUME MoveTypeOK, NEW w \in Movers, MoveClears(w)
  PROVE  /\ OnlyMover(w) /\ mw'[w].pc = "clear" /\ mw'[w].job = mw[w].job /\ mw'[w].at = Len(moves)
         /\ UNCHANGED <<moves, mjobs, email, plan, sentCopy, record, folder, wire, upsets>>
<1>0. mw \in [Movers -> MoverStates] /\ mw[w] \in MoverStates
  BY DEF MoveTypeOK
<1>1. mw' = [mw EXCEPT ![w] = [mw[w] EXCEPT !.pc = "clear", !.at = Len(moves)]]
  BY <1>0 DEF MoveClears, LastMove
<1>2. OnlyMover(w) /\ mw'[w] = [mw[w] EXCEPT !.pc = "clear", !.at = Len(moves)]
  BY <1>0, <1>1 DEF OnlyMover
<1>3. QED
  BY <1>0, <1>2 DEF MoveClears, MoverStates

LEMMA IntentEffect ==
  ASSUME MoveTypeOK, NEW w \in Movers, MoveIntent(w)
  PROVE  /\ OnlyMover(w) /\ mw'[w].pc = "intent" /\ mw'[w].job = mw[w].job
         /\ mw'[w].at = Len(moves) + 1
         /\ Len(moves') = Len(moves) + 1 /\ DOMAIN moves' = 1..(Len(moves) + 1)
         /\ \A i \in 1..Len(moves) : moves'[i] = moves[i]
         /\ moves'[Len(moves) + 1].status = "STARTED"
         /\ UNCHANGED <<mjobs, email, plan, sentCopy, record, folder, wire, upsets>>
<1>0. mw \in [Movers -> MoverStates] /\ mw[w] \in MoverStates /\ moves \in Seq(MoveRows)
  BY DEF MoveTypeOK
<1>1. mw' = [mw EXCEPT ![w] = [mw[w] EXCEPT !.pc = "intent", !.at = Len(moves) + 1]]
  BY <1>0 DEF MoveIntent, LastMove
<1>2. OnlyMover(w) /\ mw'[w] = [mw[w] EXCEPT !.pc = "intent", !.at = Len(moves) + 1]
  BY <1>0, <1>1 DEF OnlyMover
<1>3. mw'[w].pc = "intent" /\ mw'[w].job = mw[w].job /\ mw'[w].at = Len(moves) + 1
  BY <1>0, <1>2 DEF MoverStates
<1> DEFINE row == [status |-> "STARTED", dest |-> plan.dest]
<1>4. row \in MoveRows /\ row.status = "STARTED"
  BY DEF MoveTypeOK, MoveRows, MoveStatuses
<1>5. moves' = Append(moves, row)
  BY DEF MoveIntent
<1> HIDE DEF row
<1>6. /\ moves' \in Seq(MoveRows) /\ Len(moves') = Len(moves) + 1
      /\ \A i \in 1..Len(moves) : moves'[i] = moves[i]
      /\ moves'[Len(moves) + 1] = row
  BY <1>0, <1>4, <1>5, AppendProperties
<1>7. DOMAIN moves' = 1..(Len(moves) + 1)
  BY <1>6, LenProperties
<1>8. QED
  BY <1>2, <1>3, <1>4, <1>6, <1>7 DEF MoveIntent

LEMMA PostEffect ==
  ASSUME MoveTypeOK, NEW w \in Movers, NEW out \in MoveOutcomes, MovePost(w, out)
  PROVE  /\ OnlyMover(w) /\ mw'[w].pc = "posted" /\ mw'[w].job = mw[w].job
         /\ mw'[w].at = mw[w].at /\ mw'[w].was = out
         /\ UNCHANGED <<moves, mjobs, email, plan, sentCopy, record, upsets>>
<1>0. mw \in [Movers -> MoverStates] /\ mw[w] \in MoverStates
  BY DEF MoveTypeOK
<1>1. mw' = [mw EXCEPT ![w] = [mw[w] EXCEPT !.pc = "posted", !.was = out]]
  BY <1>0 DEF MovePost
<1>2. OnlyMover(w) /\ mw'[w] = [mw[w] EXCEPT !.pc = "posted", !.was = out]
  BY <1>0, <1>1 DEF OnlyMover
<1>3. QED
  BY <1>0, <1>2 DEF MovePost, MoverStates

LEMMA LoadsEffect ==
  ASSUME MoveTypeOK, NEW w \in Movers, VerifyLoads(w)
  PROVE  /\ OnlyMover(w) /\ mw'[w].job = mw[w].job
         /\ LatestIs({"VERIFIED"}) => mw'[w].pc = "done"
         /\ ~LatestIs({"VERIFIED"}) =>
              /\ mw'[w].pc = "inspect" /\ mw'[w].at = Len(moves)
         /\ UNCHANGED <<moves, mjobs, email, plan, sentCopy, record, folder, wire, upsets>>
<1>0. mw \in [Movers -> MoverStates] /\ mw[w] \in MoverStates
  BY DEF MoveTypeOK
<1>1. CASE LatestIs({"VERIFIED"})
  <2>1. MoveGoTo(w, "done")
    BY <1>1 DEF VerifyLoads, MoveGoTo
  <2>2. QED
    BY <1>1, <2>1, GoesTo DEF VerifyLoads, OnlyMover
<1>2. CASE ~LatestIs({"VERIFIED"})
  <2> DEFINE st == moves[Len(moves)].status
  <2>1. mw' = [mw EXCEPT ![w] = [mw[w] EXCEPT !.pc = "inspect", !.at = Len(moves), !.was = st]]
    BY <1>0, <1>2 DEF VerifyLoads, LastMove
  <2> HIDE DEF st
  <2>2. OnlyMover(w) /\ mw'[w] = [mw[w] EXCEPT !.pc = "inspect", !.at = Len(moves), !.was = st]
    BY <1>0, <2>1 DEF OnlyMover
  <2>3. mw'[w].pc = "inspect" /\ mw'[w].at = Len(moves) /\ mw'[w].job = mw[w].job
    BY <1>0, <2>2 DEF MoverStates
  <2>4. QED
    BY <1>2, <2>2, <2>3 DEF VerifyLoads
<1>3. QED
  BY <1>1, <1>2

\* The steps of a handler between its claim and its end: the session stays with its job, and
\* jobs are at most added.
Handles(w) ==
  \/ MoveAlreadyVerified(w) \/ MoveUnresolved(w) \/ MoveClears(w) \/ MoveIntent(w)
  \/ (\E out \in MoveOutcomes : MovePost(w, out)) \/ MoveOutcome(w)
  \/ VerifyLoads(w) \/ VerifyInspects(w) \/ VerifyFound(w) \/ VerifyMissing(w)
  \/ JobCompletes(w)

LEMMA HandlesSteadily ==
  ASSUME MoveTypeOK, SessionsKnowAttempts, NEW w \in Movers, Handles(w)
  PROVE  /\ OnlyMover(w) /\ mw'[w].job = mw[w].job /\ mw[w].pc # "idle" /\ mw'[w].pc # "idle"
         /\ JobsStand /\ \A j \in MoveKeys : mjobs'[j] \in {mjobs[j], NewMoveJob}
         /\ UNCHANGED upsets
<1>0. mjobs \in [MoveKeys -> MoveJobRows]
  BY DEF MoveTypeOK
<1>1. CASE MoveAlreadyVerified(w)
  BY <1>1, GoesTo DEF MoveAlreadyVerified, OnlyMover, JobsStand, MoveJob
<1>2. CASE MoveUnresolved(w)
  <2>1. Len(moves) \in 1..MaxMoves
    BY <1>2, LengthOfMoves DEF MoveUnresolved, LatestIs
  <2>2. <<"verify", Len(moves)>> \in MoveKeys
    BY <2>1, MoveKeysAre
  <2>3. JobsStand /\ \A j \in MoveKeys : mjobs'[j] \in {mjobs[j], NewMoveJob}
    BY <1>0, <1>2, <2>2, QueueJob DEF MoveUnresolved, LastMove, JobsStand
  <2>4. QED
    BY <1>2, <2>3, GoesTo DEF MoveUnresolved, OnlyMover, MoveJob
<1>3. CASE MoveClears(w)
  BY <1>3, ClearsEffect DEF MoveClears, JobsStand, MoveJob
<1>4. CASE MoveIntent(w)
  BY <1>4, IntentEffect DEF MoveIntent, JobsStand
<1>5. ASSUME NEW out \in MoveOutcomes, MovePost(w, out)
      PROVE  /\ OnlyMover(w) /\ mw'[w].job = mw[w].job /\ mw[w].pc # "idle" /\ mw'[w].pc # "idle"
             /\ JobsStand /\ mjobs' = mjobs /\ UNCHANGED upsets
  BY <1>5, PostEffect DEF MovePost, JobsStand
<1>6. CASE MoveOutcome(w)
  <2>1. mw[w].at \in 1..MaxMoves
    BY <1>6, LengthOfMoves DEF MoveOutcome, SessionsKnowAttempts, Posting, Verifying, MoveTypeOK, MoverStates
  <2>2. PICK st \in MoveStatuses : st = OutcomeStatus(mw[w].was, mw[w].at)
    BY OutcomeIsStatus
  <2>3. mjobs' = FollowUp(st, mw[w].at)
    BY <1>6, <2>2 DEF MoveOutcome
  <2>4. JobsStand /\ \A j \in MoveKeys : mjobs'[j] \in {mjobs[j], NewMoveJob}
    BY <2>1, <2>3, FollowUpQueues DEF JobsStand
  <2>5. QED
    BY <1>6, <2>4, GoesTo DEF MoveOutcome, OnlyMover
<1>7. CASE VerifyLoads(w)
  BY <1>7, LoadsEffect DEF VerifyLoads, VerifyJob, JobsStand
<1>8. CASE VerifyInspects(w)
  BY <1>8, GoesTo DEF VerifyInspects, OnlyMover, JobsStand
<1>9. CASE VerifyFound(w)
  <2>1. mw[w].at \in 1..MaxMoves
    BY <1>9, LengthOfMoves DEF VerifyFound, SessionsKnowAttempts, Posting, Verifying, MoveTypeOK, MoverStates
  <2>2. <<"complete", mw[w].at>> \in MoveKeys
    BY <2>1, MoveKeysAre
  <2>3. JobsStand /\ \A j \in MoveKeys : mjobs'[j] \in {mjobs[j], NewMoveJob}
    BY <1>0, <1>9, <2>2, QueueJob DEF VerifyFound, JobsStand
  <2>4. QED
    BY <1>9, <2>3, GoesTo DEF VerifyFound, OnlyMover
<1>10. CASE VerifyMissing(w)
  BY <1>10, GoesTo DEF VerifyMissing, OnlyMover, JobsStand
<1>11. CASE JobCompletes(w)
  BY <1>11, GoesTo DEF JobCompletes, CompletionJob, Complete, OnlyMover, JobsStand
<1>12. QED
  BY <1>1, <1>2, <1>3, <1>4, <1>5, <1>6, <1>7, <1>8, <1>9, <1>10, <1>11 DEF Handles

\* A death outside of MoverCrash comes from an error inside the handler's transaction.
Fails(w) == MoveBlocked(w) \/ MoveIntentCollides(w) \/ JobCannotComplete(w)

LEMMA FailsMidway ==
  ASSUME NEW w \in Movers, Fails(w)
  PROVE  mw[w].pc \in {"claimed", "clear"} /\ MoverDies(w) /\ UNCHANGED upsets
BY DEF Fails, MoveBlocked, MoveIntentCollides, JobCannotComplete, MoveJob, CompletionJob

LEMMA MoverStepKinds ==
  ASSUME NEW w \in Movers
  PROVE  MoverStep(w) <=>
           \/ \E k \in MoveKeys : MoveClaim(w, k)
           \/ MoveJobDone(w) \/ MoveJobFails(w) \/ Handles(w) \/ Fails(w)
BY DEF MoverStep, Handles, Fails

\* Requests queue at most a job and leave the sessions alone.
LEMMA OthersSteadily ==
  ASSUME MoveTypeOK, OtherMoveStep
  PROVE  UNCHANGED mw /\ JobsStand /\ \A j \in MoveKeys : mjobs'[j] \in {mjobs[j], NewMoveJob}
<1>1. <<"after-send", 0>> \in MoveKeys /\ <<"manual", 0>> \in MoveKeys /\ mjobs \in [MoveKeys -> MoveJobRows]
  BY MoveKeysAre DEF MoveTypeOK
<1>2. CASE SentCopyVerified
  BY <1>1, <1>2, QueueJob DEF SentCopyVerified, JobsStand
<1>3. CASE ManualMove
  BY <1>1, <1>3, QueueJob DEF ManualMove, JobsStand
<1>4. QED
  BY <1>2, <1>3 DEF OtherMoveStep, RequestCompletion, OverrideDestination, LateMove, JobsStand

LEMMA HoldersKeep ==
  ASSUME MoveTypeOK, SessionsKnowAttempts, JobsAreHeld, MoveNext
  PROVE  JobsAreHeld'
<1>0. \A v \in Movers : mw[v].job \in MoveKeys
  BY DEF MoveTypeOK, MoverStates
<1>1. ASSUME \A v \in Movers : mw'[v].job = mw[v].job /\ (mw'[v].pc = "idle" <=> mw[v].pc = "idle"),
             JobsStand
      PROVE  JobsAreHeld'
  BY <1>0, <1>1 DEF JobsAreHeld, JobsStand
<1>2. ASSUME NEW w \in Movers, OnlyMover(w), mw'[w].pc = "idle", mw[w].pc # "idle",
             \A j \in MoveKeys : j # mw[w].job => mjobs'[j] = mjobs[j]
      PROVE  JobsAreHeld'
  BY <1>0, <1>2 DEF JobsAreHeld, OnlyMover
<1>3. CASE OtherMoveStep
  BY <1>1, <1>3, OthersSteadily
<1>4. ASSUME NEW w \in Movers, MoverDies(w), mw[w].pc # "idle"
      PROVE  JobsAreHeld'
  BY <1>2, <1>4, DeathLeaves, IdleMoverIs DEF OnlyMover
<1>5. ASSUME NEW w \in Movers, MoverStep(w)
      PROVE  JobsAreHeld'
  <2>1. ASSUME NEW k \in MoveKeys, MoveClaim(w, k)
        PROVE  JobsAreHeld'
    <3>1. /\ OnlyMover(w) /\ mw'[w].job = k /\ mjobs'[k].status = "RUNNING" /\ mjobs'[k].leased
          /\ ~(mjobs[k].status = "RUNNING" /\ mjobs[k].leased)
          /\ \A j \in MoveKeys : j # k => mjobs'[j] = mjobs[j]
      BY <2>1, ClaimEffect
    <3>2. QED
      BY <1>0, <3>1 DEF JobsAreHeld, OnlyMover
  <2>2. CASE MoveJobDone(w) \/ MoveJobFails(w)
    <3>1. mw[w].pc # "idle"
      BY <2>2 DEF MoveJobDone, MoveJobFails
    <3>2. QED
      BY <1>2, <2>2, <3>1, ReleaseEffect
  <2>3. CASE Handles(w)
    BY <1>1, <2>3, HandlesSteadily DEF OnlyMover
  <2>4. CASE Fails(w)
    BY <1>4, <2>4, FailsMidway
  <2>5. QED
    BY <1>5, <2>1, <2>2, <2>3, <2>4, MoverStepKinds
<1>6. ASSUME NEW w \in Movers, MoverCrash(w)
      PROVE  JobsAreHeld'
  BY <1>4, <1>6 DEF MoverCrash
<1>7. QED
  BY <1>3, <1>5, <1>6 DEF MoveNext, OtherMoveStep

LEMMA SessionsKeep ==
  ASSUME MoveTypeOK, JobsAreHeld, SessionsKnowAttempts, QueuedInTurn, MoveNext
  PROVE  SessionsKnowAttempts'
<1> USE DEF Posting, Verifying
<1>0. \A v \in Movers : mw[v].job \in MoveKeys
  BY DEF MoveTypeOK, MoverStates
<1>1. ASSUME NEW w \in Movers, OnlyMover(w),
             /\ mw'[w].pc \in Posting => mw'[w].job \in MoveOnes
             /\ mw'[w].pc \in Verifying => mw'[w].job \in VerifyOnes
             /\ mw'[w].pc \in (Posting \ {"clear"}) \cup Verifying => mw'[w].at >= 1
      PROVE  SessionsKnowAttempts'
  BY <1>1 DEF SessionsKnowAttempts, OnlyMover
<1>2. CASE OtherMoveStep
  BY <1>2, OthersSteadily DEF SessionsKnowAttempts
<1>3. ASSUME NEW w \in Movers, OnlyMover(w), mw'[w].pc \in {"idle", "claimed", "done"}
      PROVE  SessionsKnowAttempts'
  BY <1>1, <1>3
<1>4. ASSUME NEW w \in Movers, MoverDies(w)
      PROVE  SessionsKnowAttempts'
  BY <1>3, <1>4, DeathLeaves, IdleMoverIs DEF OnlyMover
<1>5. ASSUME NEW w \in Movers, Handles(w)
      PROVE  SessionsKnowAttempts'
  <2>1. CASE MoveAlreadyVerified(w) \/ MoveUnresolved(w) \/ MoveOutcome(w) \/ VerifyFound(w)
               \/ JobCompletes(w)
    <3>1. MoveGoTo(w, "done")
      BY <2>1 DEF MoveAlreadyVerified, MoveUnresolved, MoveOutcome, VerifyFound, JobCompletes
    <3>2. QED
      BY <1>3, <3>1, GoesTo DEF OnlyMover
  <2>2. CASE MoveClears(w)
    <3>1. mw[w].job \in MoveOnes
      BY <1>0, <2>2, MoveKeysAre DEF MoveClears, MoveJob
    <3>2. QED
      BY <1>1, <2>2, <3>1, ClearsEffect
  <2>3. CASE MoveIntent(w)
    <3>1. mw[w].job \in MoveOnes
      BY <2>3 DEF MoveIntent, SessionsKnowAttempts
    <3>2. Len(moves) + 1 >= 1
      BY LengthOfMoves
    <3>3. QED
      BY <1>1, <2>3, <3>1, <3>2, IntentEffect
  <2>4. ASSUME NEW out \in MoveOutcomes, MovePost(w, out)
        PROVE  SessionsKnowAttempts'
    <3>1. mw[w].job \in MoveOnes /\ mw[w].at >= 1
      BY <2>4 DEF MovePost, SessionsKnowAttempts
    <3>2. QED
      BY <1>1, <2>4, <3>1, PostEffect
  <2>5. CASE VerifyLoads(w)
    <3>1. mw[w].job \in VerifyOnes
      BY <1>0, <2>5, MoveKeysAre DEF VerifyLoads, VerifyJob
    <3>2. PICK n \in 1..MaxMoves : mw[w].job = <<"verify", n>>
      BY <3>1, MoveKeysAre
    <3>3. mjobs[mw[w].job].status = "RUNNING"
      BY <2>5 DEF JobsAreHeld, VerifyLoads, VerifyJob
    <3>a. Len(moves) \in Nat
      BY LengthOfMoves, MoveAssumption
    <3>b. ~(n > Len(moves))
      BY <3>2, <3>3 DEF QueuedInTurn
    <3>4. Len(moves) >= 1
      BY <3>a, <3>b
    <3>5. QED
      BY <1>1, <2>5, <3>1, <3>4, LoadsEffect
  <2>6. CASE VerifyInspects(w)
    <3>1. MoveGoTo(w, "found") \/ MoveGoTo(w, "missing")
      BY <2>6 DEF VerifyInspects
    <3>2. mw[w].job \in VerifyOnes /\ mw[w].at >= 1
      BY <2>6 DEF VerifyInspects, SessionsKnowAttempts
    <3>3. QED
      BY <1>1, <3>1, <3>2, GoesTo DEF OnlyMover
  <2>7. CASE VerifyMissing(w)
    <3>1. MoveGoTo(w, "failed")
      BY <2>7 DEF VerifyMissing
    <3>2. mw[w].job \in VerifyOnes /\ mw[w].at >= 1
      BY <2>7 DEF VerifyMissing, SessionsKnowAttempts
    <3>3. QED
      BY <1>1, <3>1, <3>2, GoesTo DEF OnlyMover
  <2>8. QED
    BY <1>5, <2>1, <2>2, <2>3, <2>4, <2>5, <2>6, <2>7 DEF Handles
<1>6. ASSUME NEW w \in Movers, MoverStep(w)
      PROVE  SessionsKnowAttempts'
  <2>1. ASSUME NEW k \in MoveKeys, MoveClaim(w, k)
        PROVE  SessionsKnowAttempts'
    BY <1>3, <2>1, ClaimEffect
  <2>2. CASE MoveJobDone(w) \/ MoveJobFails(w)
    BY <1>3, <2>2, ReleaseEffect
  <2>3. QED
    BY <1>4, <1>5, <1>6, <2>1, <2>2, FailsMidway, MoverStepKinds
<1>7. ASSUME NEW w \in Movers, MoverCrash(w)
      PROVE  SessionsKnowAttempts'
  BY <1>4, <1>7 DEF MoverCrash
<1>8. QED
  BY <1>2, <1>6, <1>7 DEF MoveNext, OtherMoveStep

(***************************************************************************)
(* What is queued has its cause                                            *)
(***************************************************************************)

\* No step takes an attempt back, and only an intent adds one.
LEMMA AttemptsStand ==
  ASSUME MoveTypeOK, SessionsKnowAttempts, MoveNext
  PROVE  /\ Len(moves') \in Nat /\ Len(moves') >= Len(moves)
         /\ \A i \in 1..Len(moves) : i \in 1..Len(moves') /\ moves'[i].dest = moves[i].dest
         /\ (\A w \in Movers : ~MoveIntent(w)) => Len(moves') = Len(moves) /\ DOMAIN moves' = DOMAIN moves
<1>0. /\ Len(moves) \in Nat /\ DOMAIN moves = 1..Len(moves) /\ moves \in Seq(MoveRows)
      /\ \A w \in Movers : mw[w].at \in 0..Len(moves)
  BY LengthOfMoves DEF MoveTypeOK, MoverStates
<1>1. ASSUME NEW n \in 1..Len(moves), NEW st \in MoveStatuses,
             moves' \in {moves, [moves EXCEPT ![n].status = st]}
      PROVE  /\ Len(moves') = Len(moves) /\ DOMAIN moves' = DOMAIN moves
             /\ \A i \in 1..Len(moves) : moves'[i].dest = moves[i].dest
  <2>1. /\ Len([moves EXCEPT ![n].status = st]) = Len(moves)
        /\ DOMAIN [moves EXCEPT ![n].status = st] = DOMAIN moves
        /\ \A i \in 1..Len(moves) : [moves EXCEPT ![n].status = st][i].dest = moves[i].dest
    BY <1>0, MoveRowSet
  <2>2. QED
    BY <1>1, <2>1
<1>2. ASSUME moves' = moves
      PROVE  /\ Len(moves') = Len(moves) /\ DOMAIN moves' = DOMAIN moves
             /\ \A i \in 1..Len(moves) : moves'[i].dest = moves[i].dest
  BY <1>2
<1>3. ASSUME NEW w \in Movers, MoveIntent(w)
      PROVE  /\ Len(moves') = Len(moves) + 1
             /\ \A i \in 1..Len(moves) : moves'[i].dest = moves[i].dest
  BY <1>3, IntentEffect
<1>4. ASSUME NEW w \in Movers,
             mw[w].pc \in {"posted", "found", "missing"} /\ (MoveOutcome(w) \/ VerifyFound(w) \/ VerifyMissing(w))
      PROVE  \E n \in 1..Len(moves), st \in MoveStatuses :
                moves' \in {moves, [moves EXCEPT ![n].status = st]}
  <2>1. mw[w].at \in 1..Len(moves)
    BY <1>0, <1>4 DEF SessionsKnowAttempts, Posting, Verifying
  <2>2. \E st \in MoveStatuses : moves' \in {moves, [moves EXCEPT ![mw[w].at].status = st]}
    BY <1>4, OutcomeIsStatus DEF MoveOutcome, VerifyFound, VerifyMissing, MoveStatuses
  <2>3. QED
    BY <2>1, <2>2
<1>5. ASSUME NEW w \in Movers, MoveUnresolved(w) \/ MoveJobFails(w)
      PROVE  \E n \in 1..Len(moves), st \in MoveStatuses :
                moves' \in {moves, [moves EXCEPT ![n].status = st]}
  <2>1. Len(moves) \in 1..Len(moves)
    <3>1. CASE MoveUnresolved(w)
      BY <1>0, <3>1, LengthOfMoves DEF MoveUnresolved, LatestIs
    <3>2. CASE MoveJobFails(w)
      BY <1>0, <3>2 DEF MoveJobFails, SessionsKnowAttempts, Posting, Verifying
    <3>3. QED
      BY <1>5, <3>1, <3>2
  <2>2. \E st \in MoveStatuses : moves' \in {moves, [moves EXCEPT ![Len(moves)].status = st]}
    BY <1>5 DEF MoveUnresolved, MoveJobFails, MoveStatuses, LastMove
  <2>3. QED
    BY <2>1, <2>2
<1>6. CASE OtherMoveStep
  BY <1>0, <1>2, <1>6 DEF OtherMoveStep, SentCopyVerified, ManualMove, RequestCompletion, Complete, OverrideDestination, LateMove
<1>7. ASSUME NEW w \in Movers, MoverCrash(w)
      PROVE  moves' = moves
  BY <1>7 DEF MoverCrash, MoverDies
<1>8. ASSUME NEW w \in Movers, MoverStep(w)
      PROVE  \/ moves' = moves
             \/ MoveIntent(w)
             \/ \E n \in 1..Len(moves), st \in MoveStatuses : moves' \in {moves, [moves EXCEPT ![n].status = st]}
  <2>1. ASSUME \/ \E k \in MoveKeys : MoveClaim(w, k)
               \/ MoveJobDone(w) \/ Fails(w) \/ MoveAlreadyVerified(w) \/ MoveClears(w)
               \/ (\E out \in MoveOutcomes : MovePost(w, out)) \/ VerifyLoads(w) \/ VerifyInspects(w)
               \/ JobCompletes(w)
        PROVE  moves' = moves
    BY <2>1, FailsMidway DEF MoveClaim, MoveJobDone, MoverDies, MoveAlreadyVerified, MoveClears, MovePost,
       VerifyLoads, VerifyInspects, JobCompletes, Complete
  <2>2. CASE MoveOutcome(w) \/ VerifyFound(w) \/ VerifyMissing(w)
    <3>1. mw[w].pc \in {"posted", "found", "missing"}
      BY <2>2 DEF MoveOutcome, VerifyFound, VerifyMissing
    <3>2. QED
      BY <1>4, <2>2, <3>1
  <2>3. QED
    BY <1>5, <1>8, <2>1, <2>2, MoverStepKinds DEF Handles
<1>9. QED
  BY <1>0, <1>1, <1>2, <1>3, <1>6, <1>7, <1>8 DEF MoveNext, OtherMoveStep

\* A handler queues only what an attempt leads to.
LEMMA HandlesQueue ==
  ASSUME MoveTypeOK, SessionsKnowAttempts, NEW w \in Movers, Handles(w), NEW j \in MoveKeys,
         mjobs'[j] # mjobs[j]
  PROVE  \E n \in 1..Len(moves) : j \in {<<"verify", n>>, <<"retry", n>>, <<"complete", n>>}
<1>0. mjobs \in [MoveKeys -> MoveJobRows] /\ \A v \in Movers : mw[v].at \in 0..Len(moves)
  BY LengthOfMoves DEF MoveTypeOK, MoverStates
<1>1. CASE MoveUnresolved(w)
  <2>1. Len(moves) \in 1..Len(moves) /\ Len(moves) \in 1..MaxMoves
    BY <1>1, LengthOfMoves DEF MoveUnresolved, LatestIs
  <2>2. <<"verify", Len(moves)>> \in MoveKeys
    BY <2>1, MoveKeysAre
  <2>3. j = <<"verify", Len(moves)>>
    BY <1>0, <1>1, <2>2, QueueJob DEF MoveUnresolved, LastMove
  <2>4. QED
    BY <2>1, <2>3
<1>2. CASE MoveOutcome(w) \/ VerifyFound(w)
  <2>1. mw[w].at \in 1..Len(moves) /\ mw[w].at \in 1..MaxMoves
    BY <1>0, <1>2, LengthOfMoves DEF MoveOutcome, VerifyFound, SessionsKnowAttempts, Posting, Verifying
  <2>2. /\ <<"verify", mw[w].at>> \in MoveKeys /\ <<"retry", mw[w].at>> \in MoveKeys
        /\ <<"complete", mw[w].at>> \in MoveKeys
    BY <2>1, MoveKeysAre
  <2>3. mjobs' \in {mjobs, WithMoveJob(mjobs, <<"verify", mw[w].at>>),
                    WithMoveJob(mjobs, <<"retry", mw[w].at>>),
                    WithMoveJob(mjobs, <<"complete", mw[w].at>>)}
    BY <1>2 DEF MoveOutcome, VerifyFound, FollowUp
  <2>4. j \in {<<"verify", mw[w].at>>, <<"retry", mw[w].at>>, <<"complete", mw[w].at>>}
    <3>1. \A k \in MoveKeys : j # k => WithMoveJob(mjobs, k)[j] = mjobs[j]
      BY <1>0, QueueJob
    <3>2. QED
      BY <2>2, <2>3, <3>1
  <2>5. QED
    BY <2>1, <2>4
<1>3. CASE ~(MoveUnresolved(w) \/ MoveOutcome(w) \/ VerifyFound(w))
  <2>1. mjobs' = mjobs
    BY <1>3 DEF Handles, MoveAlreadyVerified, MoveClears, MoveIntent, MovePost, VerifyLoads, VerifyInspects,
       VerifyMissing, JobCompletes
  <2>2. QED
    BY <2>1
<1>4. QED
  BY <1>1, <1>2, <1>3

\* The response stays settled.
LEMMA SettledStays ==
  ASSUME MoveTypeOK, MoveNext
  PROVE  /\ plan'.required = plan.required /\ (sentCopy => sentCopy')
         /\ ResponseSettled => ResponseSettled'
<1>1. ASSUME UNCHANGED <<plan, sentCopy>>
      PROVE  plan'.required = plan.required /\ (sentCopy => sentCopy') /\ (ResponseSettled => ResponseSettled')
  BY <1>1 DEF ResponseSettled
<1>2. CASE OtherMoveStep
  BY <1>2 DEF OtherMoveStep, SentCopyVerified, ManualMove, RequestCompletion, Complete, OverrideDestination,
     LateMove, ResponseSettled, MoveTypeOK
<1>3. ASSUME NEW w \in Movers, MoverStep(w) \/ MoverCrash(w)
      PROVE  UNCHANGED <<plan, sentCopy>>
  BY <1>3 DEF MoverStep, MoverCrash, MoverDies, MoveClaim, MoveJobDone, MoveJobFails, MoveAlreadyVerified,
     MoveUnresolved, MoveBlocked, MoveClears, MoveIntent, MoveIntentCollides, MovePost, MoveOutcome, VerifyLoads,
     VerifyInspects, VerifyFound, VerifyMissing, JobCompletes, Complete, JobCannotComplete
<1>4. QED
  BY <1>1, <1>2, <1>3 DEF MoveNext, OtherMoveStep

\* A job appears only by being queued.
LEMMA NothingElseQueues ==
  ASSUME MoveTypeOK, JobsAreHeld, NEW w \in Movers,
         \/ \E k \in MoveKeys : MoveClaim(w, k)
         \/ MoveJobDone(w) \/ MoveJobFails(w) \/ Fails(w) \/ MoverCrash(w),
         NEW j \in MoveKeys
  PROVE  mjobs'[j].status = "absent" <=> mjobs[j].status = "absent"
<1>1. ASSUME NEW k \in MoveKeys, MoveClaim(w, k)
      PROVE  mjobs'[j].status = "absent" <=> mjobs[j].status = "absent"
  BY <1>1, ClaimEffect DEF UnsettledJobs
<1>2. CASE MoveJobDone(w) \/ MoveJobFails(w)
  <2>1. mjobs[mw[w].job].status = "RUNNING"
    BY <1>2 DEF JobsAreHeld, MoveJobDone, MoveJobFails
  <2>2. QED
    BY <1>2, <2>1, ReleaseEffect
<1>3. CASE MoverDies(w)
  BY <1>3, DeathLeaves
<1>4. QED
  BY <1>1, <1>2, <1>3, FailsMidway DEF MoverCrash

LEMMA TurnsKeep ==
  ASSUME MoveTypeOK, JobsAreHeld, SessionsKnowAttempts, QueuedInTurn, MoveTypeOK', MoveNext
  PROVE  QueuedInTurn'
<1>0. /\ Len(moves) \in Nat /\ Len(moves') \in Nat /\ Len(moves') >= Len(moves)
      /\ moves = <<>> <=> Len(moves) = 0
      /\ moves' = <<>> <=> Len(moves') = 0
  <2>1. moves' = <<>> <=> Len(moves') = 0
    BY EmptySeq DEF MoveTypeOK
  <2>2. QED
    BY <2>1, LengthOfMoves, AttemptsStand, MoveAssumption
<1>k. /\ <<"after-send", 0>> \in MoveKeys /\ <<"no-response", 0>> \in MoveKeys
      /\ \A n \in 1..MaxMoves : <<"retry", n>> \in MoveKeys /\ <<"verify", n>> \in MoveKeys
  BY MoveKeysAre
<1>q. \A j \in MoveKeys : mjobs'[j].status # "absent" =>
        \/ mjobs[j].status # "absent"
        \/ j = <<"after-send", 0>> /\ plan.required /\ sentCopy'
        \/ j = <<"manual", 0>>
        \/ \E n \in 1..Len(moves) : j \in {<<"verify", n>>, <<"retry", n>>, <<"complete", n>>}
  <2> SUFFICES ASSUME NEW j \in MoveKeys, mjobs'[j].status # "absent", mjobs[j].status = "absent"
               PROVE  \/ j = <<"after-send", 0>> /\ plan.required /\ sentCopy'
                      \/ j = <<"manual", 0>>
                      \/ \E n \in 1..Len(moves) : j \in {<<"verify", n>>, <<"retry", n>>, <<"complete", n>>}
    OBVIOUS
  <2>1. ASSUME NEW w \in Movers, Handles(w)
        PROVE  \E n \in 1..Len(moves) : j \in {<<"verify", n>>, <<"retry", n>>, <<"complete", n>>}
    BY <2>1, HandlesQueue
  <2>2. ASSUME NEW w \in Movers, MoverStep(w) \/ MoverCrash(w), ~Handles(w)
        PROVE  FALSE
    BY <2>2, NothingElseQueues, MoverStepKinds
  <2>3. CASE SentCopyVerified
    <3>a. \A k \in MoveKeys : j # k => WithMoveJob(mjobs, k)[j] = mjobs[j]
      BY QueueJob DEF MoveTypeOK
    <3>1. j = <<"after-send", 0>>
      BY <1>k, <2>3, <3>a DEF SentCopyVerified
    <3>2. QED
      BY <2>3, <3>1 DEF SentCopyVerified
  <2>4. CASE ManualMove
    <3>1. <<"manual", 0>> \in MoveKeys
      BY MoveKeysAre
    <3>2. QED
      BY <2>4, <3>1, QueueJob, ZenonT(40) DEF ManualMove, MoveTypeOK
  <2>5. QED
    BY <2>1, <2>2, <2>3, <2>4 DEF MoveNext, RequestCompletion, OverrideDestination, LateMove
<1>1. mjobs'[<<"after-send", 0>>].status # "absent" => plan'.required /\ sentCopy'
  BY <1>k, <1>q, SettledStays DEF QueuedInTurn
<1>2. mjobs'[<<"no-response", 0>>].status # "absent" => ~plan'.required
  BY <1>k, <1>q, SettledStays DEF QueuedInTurn
<1>3. ASSUME NEW n \in 1..MaxMoves, n > Len(moves')
      PROVE  mjobs'[<<"retry", n>>].status = "absent" /\ mjobs'[<<"verify", n>>].status = "absent"
  <2>1. n > Len(moves)
    BY <1>0, <1>3
  <2>2. mjobs[<<"retry", n>>].status = "absent" /\ mjobs[<<"verify", n>>].status = "absent"
    BY <2>1 DEF QueuedInTurn
  <2>3. \A m \in 1..Len(moves) : /\ <<"retry", n>> \notin {<<"verify", m>>, <<"retry", m>>, <<"complete", m>>}
                                 /\ <<"verify", n>> \notin {<<"verify", m>>, <<"retry", m>>, <<"complete", m>>}
    BY <1>0, <2>1
  <2>4. QED
    BY <1>k, <1>q, <2>2, <2>3
<1>4. \A w \in Movers : mw'[w].pc = "clear" => ResponseSettled'
  <2>1. ASSUME NEW w \in Movers, MoverStep(w) \/ MoverCrash(w), NEW v \in Movers, mw'[v].pc = "clear"
        PROVE  mw[v].pc = "clear" \/ ResponseSettled
    <3>1. ASSUME NEW k \in MoveKeys, MoveClaim(w, k)
          PROVE  mw[v].pc = "clear"
      BY <2>1, <3>1, ClaimEffect DEF OnlyMover
    <3>2. CASE MoveJobDone(w) \/ MoveJobFails(w)
      BY <2>1, <3>2, ReleaseEffect DEF OnlyMover
    <3>3. CASE MoverDies(w)
      BY <2>1, <3>3, DeathLeaves, IdleMoverIs
    <3>4. CASE MoveClears(w)
      BY <3>4 DEF MoveClears
    <3>5. CASE Handles(w) /\ ~MoveClears(w)
      <4>1. OnlyMover(w)
        BY <3>5, HandlesSteadily
      <4>2. mw'[w].pc # "clear"
        BY <3>5, GoesTo, IntentEffect, PostEffect, LoadsEffect DEF Handles, MoveAlreadyVerified, MoveUnresolved,
           MoveOutcome, VerifyInspects, VerifyFound, VerifyMissing, JobCompletes
      <4>3. QED
        BY <2>1, <4>1, <4>2 DEF OnlyMover
    <3>6. QED
      BY <2>1, <3>1, <3>2, <3>3, <3>4, <3>5, FailsMidway, MoverStepKinds DEF MoverCrash
  <2>2. CASE OtherMoveStep
    BY <2>2, OthersSteadily, SettledStays DEF QueuedInTurn
  <2>3. QED
    BY <2>1, <2>2, SettledStays DEF MoveNext, OtherMoveStep, QueuedInTurn
<1>5. moves' # <<>> => ResponseSettled'
  <2>1. ASSUME NEW w \in Movers, MoveIntent(w)
        PROVE  ResponseSettled
    BY <2>1 DEF MoveIntent, QueuedInTurn
  <2>2. CASE \A w \in Movers : ~MoveIntent(w)
    BY <1>0, <2>2, AttemptsStand, SettledStays DEF QueuedInTurn
  <2>3. QED
    BY <2>1, <2>2, SettledStays
<1>6. QED
  BY <1>1, <1>2, <1>3, <1>4, <1>5 DEF QueuedInTurn

(***************************************************************************)
(* The message is where the attempts say                                   *)
(***************************************************************************)

\* Graph moves the message to where an attempt sent it, and never back into the inbox.
LEMMA FolderFollows ==
  ASSUME MoveTypeOK, SessionsKnowAttempts, MailFollowsMoves, MoveNext
  PROVE  /\ folder' \in MoveDests \cup {"inbox"} /\ wire' \subseteq MoveDests
         /\ folder # "inbox" => folder' # "inbox"
         /\ \A w \in Movers, out \in MoveOutcomes :
              MovePost(w, out) /\ out = "moved" => folder' # "inbox"
<1>0. MoveDests \subseteq Folders /\ "inbox" \notin Folders
  BY LengthOfMoves, MoveAssumption DEF MoveDests
<1>1. ASSUME NEW w \in Movers, NEW out \in MoveOutcomes, MovePost(w, out)
      PROVE  /\ folder' \in MoveDests \cup {"inbox"} /\ wire' \subseteq MoveDests
             /\ folder # "inbox" => folder' # "inbox"
             /\ out = "moved" => folder' # "inbox"
  <2>1. mw[w].at \in 1..Len(moves)
    BY <1>1, LengthOfMoves DEF MovePost, SessionsKnowAttempts, Posting, Verifying, MoveTypeOK, MoverStates
  <2>2. moves[mw[w].at].dest \in MoveDests
    BY <2>1, LengthOfMoves DEF MoveDests
  <2>3. QED
    BY <1>0, <1>1, <2>2 DEF MovePost, MailFollowsMoves
<1>2. ASSUME NEW f \in Folders, LateMove(f)
      PROVE  /\ folder' \in MoveDests \cup {"inbox"} /\ wire' \subseteq MoveDests
             /\ folder' # "inbox"
  BY <1>0, <1>2 DEF LateMove, MailFollowsMoves
<1>3. CASE UNCHANGED <<folder, wire>>
  BY <1>1, <1>3 DEF MailFollowsMoves
<1>4. ASSUME NEW w \in Movers, MoverStep(w) \/ MoverCrash(w), ~\E out \in MoveOutcomes : MovePost(w, out)
      PROVE  UNCHANGED <<folder, wire>>
  BY <1>4 DEF MoverStep, MoverCrash, MoverDies, MoveClaim, MoveJobDone, MoveJobFails, MoveAlreadyVerified,
     MoveUnresolved, MoveBlocked, MoveClears, MoveIntent, MoveIntentCollides, MoveOutcome, VerifyLoads,
     VerifyInspects, VerifyFound, VerifyMissing, JobCompletes, Complete, JobCannotComplete
<1>5. CASE \/ SentCopyVerified \/ ManualMove \/ RequestCompletion
           \/ \E f \in Overrides : OverrideDestination(f)
  BY <1>3, <1>5 DEF SentCopyVerified, ManualMove, RequestCompletion, Complete, OverrideDestination
<1>6. ASSUME NEW w \in Movers, MoverStep(w) \/ MoverCrash(w)
      PROVE  /\ folder' \in MoveDests \cup {"inbox"} /\ wire' \subseteq MoveDests
             /\ folder # "inbox" => folder' # "inbox"
  BY <1>1, <1>3, <1>4, <1>6
<1>7. QED
  BY <1>1, <1>2, <1>5, <1>6 DEF MoveNext

LEMMA DestsStand ==
  ASSUME MoveTypeOK, SessionsKnowAttempts, MoveTypeOK', MoveNext
  PROVE  MoveDests \subseteq MoveDests'
<1>1. DOMAIN moves = 1..Len(moves) /\ DOMAIN moves' = 1..Len(moves')
  BY LenProperties DEF MoveTypeOK
<1>2. QED
  BY <1>1, AttemptsStand DEF MoveDests

\* An attempt becomes VERIFIED only when the message has left the inbox.
LEMMA VerifiedIsSeen ==
  ASSUME MoveTypeOK, SessionsKnowAttempts, MailFollowsMoves, MoveTypeOK', MoveNext,
         VerifiedMoves' # {}
  PROVE  folder # "inbox"
<1>0. /\ moves \in Seq(MoveRows) /\ \A v \in Movers : mw[v].at \in 0..Len(moves) /\ Len(moves) \in Nat
      /\ DOMAIN moves = 1..Len(moves) /\ DOMAIN moves' = 1..Len(moves')
  BY LengthOfMoves, LenProperties DEF MoveTypeOK, MoverStates
<1>1. PICK i \in 1..Len(moves') : moves'[i].status = "VERIFIED"
  BY <1>0 DEF VerifiedMoves
<1>2. SUFFICES ASSUME folder = "inbox"
               PROVE  FALSE
  OBVIOUS
<1>3. \A k \in 1..Len(moves) : moves[k].status # "VERIFIED"
  BY <1>0, <1>2 DEF MailFollowsMoves, VerifiedMoves
<1>4. moves' # moves
  BY <1>1, <1>3
<1>5. ASSUME NEW n \in 1..Len(moves), NEW st \in MoveStatuses, moves' = [moves EXCEPT ![n].status = st]
      PROVE  st = "VERIFIED"
  BY <1>0, <1>1, <1>3, <1>5, MoveRowSet
<1>6. ASSUME NEW w \in Movers, MoveIntent(w)
      PROVE  FALSE
  BY <1>1, <1>3, <1>6, IntentEffect
<1>7. ASSUME NEW w \in Movers, MoveOutcome(w)
      PROVE  FALSE
  <2>1. mw[w].at \in 1..Len(moves)
    BY <1>0, <1>7 DEF MoveOutcome, SessionsKnowAttempts, Posting, Verifying
  <2>2. PICK st \in MoveStatuses : st = OutcomeStatus(mw[w].was, mw[w].at)
    BY OutcomeIsStatus
  <2>3. moves' = [moves EXCEPT ![mw[w].at].status = st]
    BY <1>7, <2>2 DEF MoveOutcome
  <2>4. st = "VERIFIED"
    BY <1>5, <2>1, <2>3
  <2>5. mw[w].was = "moved"
    BY <2>2, <2>4 DEF OutcomeStatus
  <2>6. QED
    BY <1>2, <1>7, <2>5 DEF MoveOutcome, MailFollowsMoves
<1>8. ASSUME NEW w \in Movers, MoveUnresolved(w) \/ MoveJobFails(w)
      PROVE  FALSE
  <2>1. Len(moves) \in 1..Len(moves)
    <3>1. CASE MoveUnresolved(w)
      BY <1>0, <3>1, LengthOfMoves DEF MoveUnresolved, LatestIs
    <3>2. CASE MoveJobFails(w)
      BY <1>0, <3>2 DEF MoveJobFails, SessionsKnowAttempts, Posting, Verifying
    <3>3. QED
      BY <1>8, <3>1, <3>2
  <2>2. \E st \in MoveStatuses \ {"VERIFIED"} : moves' = [moves EXCEPT ![Len(moves)].status = st]
    BY <1>4, <1>8 DEF MoveUnresolved, MoveJobFails, MoveStatuses, LastMove
  <2>3. QED
    BY <1>5, <2>1, <2>2
<1>9. ASSUME NEW w \in Movers, VerifyMissing(w)
      PROVE  FALSE
  <2>1. mw[w].at \in 1..Len(moves)
    BY <1>0, <1>9 DEF VerifyMissing, SessionsKnowAttempts, Posting, Verifying
  <2>2. moves' = [moves EXCEPT ![mw[w].at].status = "AMBIGUOUS"] /\ "AMBIGUOUS" \in MoveStatuses
    BY <1>4, <1>9 DEF VerifyMissing, MoveStatuses
  <2>3. QED
    BY <1>5, <2>1, <2>2
<1>10. ASSUME NEW w \in Movers, VerifyFound(w)
       PROVE  FALSE
  BY <1>2, <1>10 DEF VerifyFound, MailFollowsMoves
<1>11. ASSUME NEW w \in Movers, MoverStep(w) \/ MoverCrash(w),
              ~(MoveIntent(w) \/ MoveOutcome(w) \/ MoveUnresolved(w) \/ MoveJobFails(w) \/ VerifyMissing(w)
                  \/ VerifyFound(w))
       PROVE  moves' = moves
  BY <1>11 DEF MoverStep, MoverCrash, MoverDies, MoveClaim, MoveJobDone, MoveAlreadyVerified, MoveBlocked,
     MoveClears, MoveIntentCollides, MovePost, VerifyLoads, VerifyInspects, JobCompletes, Complete, JobCannotComplete
<1>12. CASE OtherMoveStep
  BY <1>4, <1>12 DEF OtherMoveStep, SentCopyVerified, ManualMove, RequestCompletion, Complete, OverrideDestination, LateMove
<1>13. QED
  BY <1>4, <1>6, <1>7, <1>8, <1>9, <1>10, <1>11, <1>12 DEF MoveNext, OtherMoveStep

\* A session says "found" or "moved" only of a message that has left the inbox.
LEMMA SessionsSawIt ==
  ASSUME MoveTypeOK, SessionsKnowAttempts, MailFollowsMoves, MoveNext, NEW v \in Movers,
         mw'[v].pc = "found" \/ (mw'[v].pc = "posted" /\ mw'[v].was = "moved")
  PROVE  folder' # "inbox"
<1>1. CASE mw'[v] = mw[v]
  BY <1>1, FolderFollows DEF MailFollowsMoves
<1>2. CASE mw'[v] # mw[v]
  <2>1. ~OtherMoveStep
    BY <1>2, OthersSteadily
  <2>2. PICK w \in Movers : MoverStep(w) \/ MoverCrash(w)
    BY <2>1 DEF MoveNext, OtherMoveStep
  <2>3. ASSUME NEW k \in MoveKeys, MoveClaim(w, k)
        PROVE  FALSE
    BY <1>2, <2>3, ClaimEffect DEF OnlyMover
  <2>4. CASE MoveJobDone(w) \/ MoveJobFails(w)
    BY <1>2, <2>4, ReleaseEffect, IdleMoverIs DEF OnlyMover
  <2>5. CASE MoverDies(w)
    BY <1>2, <2>5, DeathLeaves, IdleMoverIs
  <2>6. CASE Handles(w)
    <3>1. v = w
      BY <1>2, <2>6, HandlesSteadily DEF OnlyMover
    <3>2. ASSUME NEW out \in MoveOutcomes, MovePost(w, out)
          PROVE  folder' # "inbox"
      BY <3>1, <3>2, PostEffect, FolderFollows
    <3>3. CASE VerifyInspects(w)
      <4>1. mw[w].at \in 1..Len(moves)
        BY <3>3, LengthOfMoves DEF VerifyInspects, SessionsKnowAttempts, Posting, Verifying, MoveTypeOK, MoverStates
      <4>2. moves[mw[w].at].dest \in Folders /\ "inbox" \notin Folders
        BY <4>1, LengthOfMoves, MoveAssumption
      <4>3. CASE folder = moves[mw[w].at].dest
        BY <3>3, <4>2, <4>3 DEF VerifyInspects
      <4>4. CASE folder # moves[mw[w].at].dest
        <5>1. MoveGoTo(w, "missing")
          BY <3>3, <4>4 DEF VerifyInspects
        <5>2. mw'[w].pc = "missing"
          BY <5>1, GoesTo
        <5>3. QED
          BY <3>1, <5>2
      <4>5. QED
        BY <4>3, <4>4
    <3>4. CASE Handles(w) /\ ~VerifyInspects(w) /\ ~\E out \in MoveOutcomes : MovePost(w, out)
      <4>1. mw'[w].pc \notin {"found", "posted"}
        BY <3>4, GoesTo, ClearsEffect, IntentEffect, LoadsEffect DEF Handles, MoveAlreadyVerified, MoveUnresolved,
           MoveOutcome, VerifyFound, VerifyMissing, JobCompletes
      <4>2. QED
        BY <3>1, <4>1
    <3>5. QED
      BY <2>6, <3>2, <3>3, <3>4
  <2>7. QED
    BY <2>2, <2>3, <2>4, <2>5, <2>6, FailsMidway, MoverStepKinds DEF MoverCrash
<1>3. QED
  BY <1>1, <1>2

LEMMA MailKeeps ==
  ASSUME MoveTypeOK, SessionsKnowAttempts, MailFollowsMoves, MoveTypeOK', MoveNext
  PROVE  MailFollowsMoves'
<1>1. folder' \in MoveDests' \cup {"inbox"} /\ wire' \subseteq MoveDests'
  BY FolderFollows, DestsStand
<1>2. VerifiedMoves' # {} => folder' # "inbox"
  BY VerifiedIsSeen, FolderFollows
<1>3. ASSUME Complete
      PROVE  /\ record' \in MoveDests' /\ email'.state = "COMPLETED" /\ ResponseSettled' /\ folder' # "inbox"
  <2>1. record' \in MoveDests
    BY <1>3, LastVerified DEF Complete, CanComplete, MoveTypeOK, MoveDests
  <2>2. email'.state = "COMPLETED"
    BY <1>3, CompletesTheEmail DEF Complete, MoveTypeOK
  <2>3. ResponseSettled' /\ folder' # "inbox"
    BY <1>3, SettledStays, FolderFollows DEF Complete, CanComplete, MailFollowsMoves
  <2>4. QED
    BY <2>1, <2>2, <2>3, DestsStand
<1>4. ASSUME UNCHANGED <<record, email>>, record' # "NONE"
      PROVE  /\ record' \in MoveDests' /\ email'.state = "COMPLETED" /\ ResponseSettled' /\ folder' # "inbox"
  BY <1>4, SettledStays, FolderFollows, DestsStand DEF MailFollowsMoves
<1>5. Complete \/ UNCHANGED <<record, email>>
  BY ZenonT(40) DEF MoveNext, SentCopyVerified, ManualMove, RequestCompletion, OverrideDestination, LateMove, MoverStep,
     MoverCrash, MoverDies, MoveClaim, MoveJobDone, MoveJobFails, MoveAlreadyVerified, MoveUnresolved, MoveBlocked,
     MoveClears, MoveIntent, MoveIntentCollides, MovePost, MoveOutcome, VerifyLoads, VerifyInspects, VerifyFound,
     VerifyMissing, JobCompletes, JobCannotComplete
<1>6. QED
  BY <1>1, <1>2, <1>3, <1>4, <1>5, SessionsSawIt DEF MailFollowsMoves

(***************************************************************************)
(* One attempt at a time                                                   *)
(***************************************************************************)

\* What stands for the move only grows.
LEMMA OneJobStood ==
  ASSUME MoveTypeOK, MoveTypeOK', JobsAreHeld, SessionsKnowAttempts, MoveNext
  PROVE  /\ \A j \in MoveKeys : mjobs[j].status # "absent" => mjobs'[j].status # "absent"
         /\ upsets' \in Nat /\ upsets \in Nat /\ upsets <= upsets'
         /\ OneMoveJob' => OneMoveJob
<1>1. \A j \in MoveKeys : mjobs[j].status # "absent" => mjobs'[j].status # "absent"
  <2>1. CASE OtherMoveStep
    BY <2>1, OthersSteadily DEF JobsStand
  <2>2. ASSUME NEW w \in Movers, Handles(w)
        PROVE  \A j \in MoveKeys : mjobs[j].status # "absent" => mjobs'[j].status # "absent"
    BY <2>2, HandlesSteadily DEF JobsStand
  <2>3. ASSUME NEW w \in Movers, MoverStep(w) \/ MoverCrash(w), ~Handles(w)
        PROVE  \A j \in MoveKeys : mjobs[j].status # "absent" => mjobs'[j].status # "absent"
    BY <2>3, NothingElseQueues, MoverStepKinds
  <2>4. QED
    BY <2>1, <2>2, <2>3 DEF MoveNext, OtherMoveStep
<1>2. MaxUpsets \in Nat /\ upsets \in 0..MaxUpsets /\ upsets' \in 0..MaxUpsets
  BY MoveAssumption DEF MoveTypeOK
<1>3. upsets' \in {upsets, upsets + 1}
  <2>1. ASSUME NEW w \in Movers, MoverStep(w) \/ MoverCrash(w)
        PROVE  upsets' \in {upsets, upsets + 1}
    BY <2>1 DEF MoverStep, MoverCrash, MoveClaim, MoveJobDone, MoveJobFails, MoveAlreadyVerified,
       MoveUnresolved, MoveBlocked, MoveClears, MoveIntent, MoveIntentCollides, MovePost, MoveOutcome, VerifyLoads,
       VerifyInspects, VerifyFound, VerifyMissing, JobCompletes, Complete, JobCannotComplete
  <2>2. CASE OtherMoveStep
    BY <2>2 DEF OtherMoveStep, SentCopyVerified, ManualMove, RequestCompletion, Complete, OverrideDestination, LateMove
  <2>3. QED
    BY <2>1, <2>2 DEF MoveNext, OtherMoveStep
<1>4. upsets' \in Nat /\ upsets \in Nat /\ upsets <= upsets'
  BY <1>2, <1>3
<1>5. <<"manual", 0>> \in MoveKeys /\ \A n \in 1..MaxMoves : <<"retry", n>> \in MoveKeys
  BY MoveKeysAre
<1>6. (ByHand => ByHand') /\ (MoveRetried => MoveRetried')
  BY <1>1, <1>5 DEF ByHand, MoveRetried
<1>7. QED
  BY <1>1, <1>4, <1>6 DEF OneMoveJob

\* At most one worker runs a job that stands for the move.
LEMMA OneMoverRuns ==
  ASSUME MoveTypeOK, JobsAreHeld, OneLiveMove, NEW v \in Movers, NEW w \in Movers,
         mw[v].pc \notin {"idle", "done"}, mw[w].pc \notin {"idle", "done"},
         mw[v].job \in MoveOnes, mw[w].job \in MoveOnes
  PROVE  v = w
<1>1. LiveMove(mw[v].job) /\ LiveMove(mw[w].job)
  BY DEF JobsAreHeld, LiveMove, UnsettledJobs
<1>2. mw[v].job = mw[w].job
  BY <1>1 DEF OneLiveMove
<1>3. QED
  BY <1>2 DEF JobsAreHeld

\* A step that adds no job for the move and takes no job from a finished session.
LEMMA NoneComesAlive ==
  ASSUME OneLiveMove,
         \A k \in MoveOnes : mjobs'[k].status \in UnsettledJobs =>
            /\ mjobs[k].status \in UnsettledJobs
            /\ \A v \in Movers : mw[v].job = k /\ mw[v].pc = "done" => mw'[v] = mw[v]
  PROVE  OneLiveMove'
BY DEF OneLiveMove, LiveMove

LEMMA LiveKeeps ==
  ASSUME MoveTypeOK, MoveTypeOK', JobsAreHeld, SessionsKnowAttempts, QueuedInTurn, QueuedInTurn',
         OneLiveMove, OneMoveJob', MoveNext
  PROVE  OneLiveMove'
<1>0. /\ MoveOnes \subseteq MoveKeys /\ \A v \in Movers : mw[v].job \in MoveKeys
      /\ mjobs \in [MoveKeys -> MoveJobRows]
  BY MoveKeysAre DEF MoveTypeOK, MoverStates
<1>1. CASE ~MoveRetried'
  <2>1. ~ByHand'
    BY DEF OneMoveJob
  <2>2. ASSUME NEW j \in MoveOnes, NEW k \in MoveOnes, LiveMove(j)', LiveMove(k)'
        PROVE  j = k
    <3>1. mjobs'[j].status # "absent" /\ mjobs'[k].status # "absent"
      BY <2>2 DEF LiveMove, UnsettledJobs
    <3>2. \A i \in MoveOnes : mjobs'[i].status # "absent" => i = <<"after-send", 0>> \/ i = <<"no-response", 0>>
      BY <1>1, <2>1 DEF MoveOnes, BaseKeys, ByHand, MoveRetried
    <3>3. QED
      BY <3>1, <3>2 DEF QueuedInTurn
  <2>3. QED
    BY <2>2 DEF OneLiveMove
<1>2. CASE MoveRetried' /\ upsets' = 0
  <2>0. upsets = 0 /\ upsets \in Nat
    BY <1>2, OneJobStood
  <2>1. CASE OtherMoveStep
    <3>1. CASE SentCopyVerified
      <4>1. \A n \in 1..MaxMoves : mjobs[<<"retry", n>>].status = "absent"
        <5>1. moves = <<>>
          BY <3>1 DEF SentCopyVerified, QueuedInTurn, ResponseSettled
        <5>2. Len(moves) = 0
          BY <5>1, LengthOfMoves
        <5>3. \A n \in 1..MaxMoves : n > Len(moves)
          BY <5>2, MoveAssumption
        <5>4. QED
          BY <5>3 DEF QueuedInTurn
      <4>2. \A n \in 1..MaxMoves : <<"retry", n>> \in MoveKeys /\ <<"retry", n>> # <<"after-send", 0>>
        BY MoveKeysAre
      <4>3. \A n \in 1..MaxMoves : mjobs'[<<"retry", n>>] = mjobs[<<"retry", n>>]
        <5>1. mjobs' = WithMoveJob(mjobs, <<"after-send", 0>>) /\ <<"after-send", 0>> \in MoveKeys
          BY <3>1, MoveKeysAre DEF SentCopyVerified
        <5>2. \A j \in MoveKeys : j # <<"after-send", 0>> => mjobs'[j] = mjobs[j]
          BY <1>0, <5>1, QueueJob
        <5>3. QED
          BY <4>2, <5>2
      <4>4. QED
        BY <1>2, <4>1, <4>3 DEF MoveRetried
    <3>2. CASE ManualMove \/ \E f \in Overrides : OverrideDestination(f)
      BY <1>2, <2>0, <3>2 DEF ManualMove, OverrideDestination
    <3>3. CASE RequestCompletion \/ \E f \in Folders : LateMove(f)
      BY <3>3, NoneComesAlive DEF RequestCompletion, LateMove
    <3>4. QED
      BY <2>1, <3>1, <3>2, <3>3 DEF OtherMoveStep
  <2>2. ASSUME NEW w \in Movers, MoverCrash(w)
        PROVE  FALSE
    BY <1>2, <2>0, <2>2 DEF MoverCrash
  <2>3. ASSUME NEW w \in Movers, NEW k \in MoveKeys, MoveClaim(w, k)
        PROVE  OneLiveMove'
    <3>1. /\ OnlyMover(w) /\ mw[w].pc = "idle" /\ mjobs[k].status \in UnsettledJobs
          /\ \A j \in MoveKeys : j # k => mjobs'[j] = mjobs[j]
      BY <2>3, ClaimEffect
    <3>2. QED
      BY <1>0, <3>1, NoneComesAlive DEF OnlyMover
  <2>4. ASSUME NEW w \in Movers, MoveJobDone(w) \/ MoveJobFails(w)
        PROVE  OneLiveMove'
    <3>1. OnlyMover(w) /\ \A j \in MoveKeys : j # mw[w].job => mjobs'[j] = mjobs[j]
      BY <2>4, ReleaseEffect
    <3>2. CASE MoveJobDone(w)
      <4>1. mjobs'[mw[w].job].status = "COMPLETED"
        BY <3>2, ReleaseEffect
      <4>2. QED
        BY <1>0, <3>1, <4>1, NoneComesAlive DEF OnlyMover, UnsettledJobs
    <3>3. CASE MoveJobFails(w)
      <4>1. mw[w].pc = "failed" /\ mw[w].job \notin MoveOnes
        BY <3>3, MoveKeysAre DEF MoveJobFails, SessionsKnowAttempts, Verifying
      <4>2. QED
        BY <1>0, <3>1, <4>1, NoneComesAlive DEF OnlyMover
    <3>4. QED
      BY <2>4, <3>2, <3>3
  <2>5. ASSUME NEW w \in Movers, Fails(w)
        PROVE  OneLiveMove'
    <3>1. /\ mw[w].pc \in {"claimed", "clear"} /\ OnlyMover(w)
          /\ \A j \in MoveKeys : mjobs'[j].status = mjobs[j].status
      BY <2>5, FailsMidway, DeathLeaves DEF OnlyMover
    <3>2. QED
      BY <1>0, <3>1, NoneComesAlive DEF OnlyMover
  <2>6. ASSUME NEW w \in Movers, Handles(w)
        PROVE  OneLiveMove'
    <3>1. OnlyMover(w) /\ JobsStand /\ \A j \in MoveKeys : mjobs'[j] \in {mjobs[j], NewMoveJob}
      BY <2>6, HandlesSteadily
    <3>2. mw[w].pc # "done"
      BY <2>6 DEF Handles, MoveAlreadyVerified, MoveUnresolved, MoveClears, MoveIntent, MovePost, MoveOutcome,
         VerifyLoads, VerifyInspects, VerifyFound, VerifyMissing, JobCompletes, MoveJob, VerifyJob, CompletionJob
    <3>3. CASE \A k \in MoveOnes : mjobs'[k] = mjobs[k]
      BY <3>1, <3>2, <3>3, NoneComesAlive DEF OnlyMover
    <3>4. CASE MoveOutcome(w)
      <4>1. mw[w].at \in 1..MaxMoves
        BY <3>4, LengthOfMoves DEF MoveOutcome, SessionsKnowAttempts, Posting, Verifying, MoveTypeOK, MoverStates
      <4>2. PICK st \in MoveStatuses : st = OutcomeStatus(mw[w].was, mw[w].at)
        BY OutcomeIsStatus
      <4>3. mjobs' = FollowUp(st, mw[w].at)
        BY <3>4, <4>2 DEF MoveOutcome
      <4>4. \A k \in MoveOnes : k # <<"retry", mw[w].at>> => mjobs'[k] = mjobs[k]
        BY <1>0, <4>1, <4>3, FollowUpQueues
      <4>5. mw[w].job \in MoveOnes /\ LiveMove(mw[w].job)
        BY <3>4 DEF MoveOutcome, SessionsKnowAttempts, Posting, JobsAreHeld, LiveMove, UnsettledJobs
      <4>6. mw'[w].pc = "done" /\ mw'[w].job = mw[w].job
        BY <3>4, GoesTo DEF MoveOutcome
      <4>7. ASSUME NEW k \in MoveOnes, LiveMove(k)', k # <<"retry", mw[w].at>>
            PROVE  FALSE
        <5>1. mjobs[k].status \in UnsettledJobs
          BY <4>4, <4>7 DEF LiveMove
        <5>2. LiveMove(k)
          BY <3>1, <3>2, <4>7, <5>1 DEF LiveMove, OnlyMover
        <5>3. k = mw[w].job
          BY <4>5, <5>2 DEF OneLiveMove
        <5>4. QED
          BY <4>6, <4>7, <5>3 DEF LiveMove
      <4>8. QED
        BY <4>7 DEF OneLiveMove
    <3>5. CASE ~MoveOutcome(w)
      <4>1. ASSUME NEW k \in MoveOnes
            PROVE  mjobs'[k] = mjobs[k]
        <5>1. CASE MoveUnresolved(w)
          <6>1. Len(moves) \in 1..MaxMoves
            BY <5>1, LengthOfMoves DEF MoveUnresolved, LatestIs
          <6>2. <<"verify", Len(moves)>> \in MoveKeys /\ <<"verify", Len(moves)>> \notin MoveOnes
            BY <6>1, MoveKeysAre
          <6>3. QED
            BY <1>0, <5>1, <6>2, QueueJob DEF MoveUnresolved, LastMove
        <5>2. CASE VerifyFound(w)
          <6>1. mw[w].at \in 1..MaxMoves
            BY <5>2, LengthOfMoves DEF VerifyFound, SessionsKnowAttempts, Posting, Verifying, MoveTypeOK, MoverStates
          <6>2. <<"complete", mw[w].at>> \in MoveKeys /\ <<"complete", mw[w].at>> \notin MoveOnes
            BY <6>1, MoveKeysAre
          <6>3. QED
            BY <1>0, <5>2, <6>2, QueueJob DEF VerifyFound
        <5>3. CASE ~(MoveUnresolved(w) \/ VerifyFound(w))
          BY <2>6, <3>5, <5>3 DEF Handles, MoveAlreadyVerified, MoveClears, MoveIntent, MovePost, VerifyLoads,
             VerifyInspects, VerifyMissing, JobCompletes
        <5>4. QED
          BY <5>1, <5>2, <5>3
      <4>2. QED
        BY <3>3, <4>1
    <3>6. QED
      BY <3>4, <3>5
  <2>7. QED
    BY <2>1, <2>2, <2>3, <2>4, <2>5, <2>6, MoverStepKinds DEF MoveNext, OtherMoveStep
<1>3. QED
  BY <1>1, <1>2, OneJobStood DEF OneMoveJob

\* Attempts and verifications left alone, every session still or again at the last attempt.
LEMMA QuietKeeps ==
  ASSUME PastIsClosed, LastIsVerified, \A v \in Movers : AtLast(v),
         moves' = moves,
         \A n \in 1..MaxMoves : mjobs'[<<"verify", n>>].status \in UnsettledJobs
                                  => mjobs[<<"verify", n>>].status \in UnsettledJobs,
         \A v \in Movers : mw'[v] = mw[v] \/ AtLast(v)'
  PROVE  PastIsClosed' /\ LastIsVerified' /\ \A v \in Movers : AtLast(v)'
<1>1. PastIsClosed' /\ LastIsVerified'
  BY DEF PastIsClosed, LastIsVerified
<1>2. ASSUME NEW v \in Movers
      PROVE  AtLast(v)'
  BY <1>2 DEF AtLast
<1>3. QED
  BY <1>1, <1>2

LEMMA ElsewhereIsFine ==
  ASSUME NEW v \in Movers, mw'[v].pc \in {"idle", "claimed", "done"}
  PROVE  AtLast(v)'
BY DEF AtLast, Verifying

LEMMA QuietSteps ==
  ASSUME MoveTypeOK, JobsAreHeld, SessionsKnowAttempts,
         PastIsClosed, LastIsVerified, \A v \in Movers : AtLast(v),
         \/ OtherMoveStep
         \/ \E w \in Movers :
              \/ MoverCrash(w) \/ (\E k \in MoveKeys : MoveClaim(w, k)) \/ MoveJobDone(w) \/ Fails(w)
              \/ MoveAlreadyVerified(w) \/ MoveClears(w) \/ (\E out \in MoveOutcomes : MovePost(w, out))
              \/ VerifyLoads(w) \/ VerifyInspects(w) \/ JobCompletes(w)
  PROVE  PastIsClosed' /\ LastIsVerified' /\ \A v \in Movers : AtLast(v)'
<1>0. /\ \A n \in 1..MaxMoves : <<"verify", n>> \in MoveKeys
      /\ mjobs \in [MoveKeys -> MoveJobRows] /\ \A v \in Movers : mw[v].job \in MoveKeys
  BY MoveKeysAre DEF MoveTypeOK, MoverStates
<1>1. CASE OtherMoveStep
  <2>1. mw' = mw /\ moves' = moves
    BY <1>1, OthersSteadily DEF OtherMoveStep, SentCopyVerified, ManualMove, RequestCompletion, Complete,
       OverrideDestination, LateMove
  <2>2. \A n \in 1..MaxMoves : mjobs'[<<"verify", n>>] = mjobs[<<"verify", n>>]
    <3>1. /\ \A n \in 1..MaxMoves : <<"verify", n>> # <<"after-send", 0>> /\ <<"verify", n>> # <<"manual", 0>>
          /\ <<"after-send", 0>> \in MoveKeys /\ <<"manual", 0>> \in MoveKeys
      BY MoveKeysAre
    <3>2. \A k, j \in MoveKeys : j # k => WithMoveJob(mjobs, k)[j] = mjobs[j]
      BY <1>0, QueueJob
    <3>3. mjobs' \in {mjobs, WithMoveJob(mjobs, <<"after-send", 0>>), WithMoveJob(mjobs, <<"manual", 0>>)}
      BY <1>1 DEF OtherMoveStep, SentCopyVerified, ManualMove, RequestCompletion, OverrideDestination, LateMove
    <3>4. QED
      BY <1>0, <3>1, <3>2, <3>3
  <2>3. QED
    BY <2>1, <2>2, QuietKeeps
<1>2. ASSUME NEW w \in Movers, MoverDies(w)
      PROVE  PastIsClosed' /\ LastIsVerified' /\ \A v \in Movers : AtLast(v)'
  <2>1. /\ moves' = moves /\ OnlyMover(w) /\ mw'[w].pc = "idle"
        /\ \A j \in MoveKeys : mjobs'[j].status = mjobs[j].status
    BY <1>2, DeathLeaves, IdleMoverIs DEF OnlyMover
  <2>2. AtLast(w)'
    BY <2>1, ElsewhereIsFine
  <2>3. QED
    BY <1>0, <2>1, <2>2, QuietKeeps DEF OnlyMover
<1>3. ASSUME NEW w \in Movers, NEW k \in MoveKeys, MoveClaim(w, k)
      PROVE  PastIsClosed' /\ LastIsVerified' /\ \A v \in Movers : AtLast(v)'
  <2>1. /\ moves' = moves /\ OnlyMover(w) /\ mw'[w].pc = "claimed" /\ mjobs[k].status \in UnsettledJobs
        /\ \A j \in MoveKeys : j # k => mjobs'[j] = mjobs[j]
    BY <1>3, ClaimEffect
  <2>2. AtLast(w)'
    BY <2>1, ElsewhereIsFine
  <2>3. QED
    BY <1>0, <2>1, <2>2, QuietKeeps DEF OnlyMover
<1>4. ASSUME NEW w \in Movers, MoveJobDone(w)
      PROVE  PastIsClosed' /\ LastIsVerified' /\ \A v \in Movers : AtLast(v)'
  <2>1. /\ moves' = moves /\ OnlyMover(w) /\ mw'[w].pc = "idle" /\ mjobs'[mw[w].job].status = "COMPLETED"
        /\ \A j \in MoveKeys : j # mw[w].job => mjobs'[j] = mjobs[j]
    BY <1>4, ReleaseEffect
  <2>2. AtLast(w)'
    BY <2>1, ElsewhereIsFine
  <2>3. QED
    BY <1>0, <2>1, <2>2, QuietKeeps DEF OnlyMover, UnsettledJobs
<1>5. ASSUME NEW w \in Movers,
             \/ MoveAlreadyVerified(w) \/ MoveClears(w) \/ (\E out \in MoveOutcomes : MovePost(w, out))
             \/ VerifyLoads(w) \/ VerifyInspects(w) \/ JobCompletes(w)
      PROVE  PastIsClosed' /\ LastIsVerified' /\ \A v \in Movers : AtLast(v)'
  <2>1. moves' = moves /\ mjobs' = mjobs /\ OnlyMover(w)
    <3>1. Handles(w)
      BY <1>5 DEF Handles
    <3>2. OnlyMover(w)
      BY <3>1, HandlesSteadily
    <3>3. moves' = moves /\ mjobs' = mjobs
      BY <1>5 DEF MoveAlreadyVerified, MoveClears, MovePost, VerifyLoads, VerifyInspects, JobCompletes, Complete
    <3>4. QED
      BY <3>2, <3>3
  <2>2. AtLast(w)'
    <3>1. CASE MoveAlreadyVerified(w) \/ JobCompletes(w)
      BY <3>1, GoesTo, ElsewhereIsFine DEF MoveAlreadyVerified, JobCompletes
    <3>2. CASE MoveClears(w)
      <4>1. mw'[w].pc = "clear" /\ mw'[w].at = Len(moves)
        BY <3>2, ClearsEffect
      <4>2. moves # <<>> => moves[Len(moves)].status \in Failures
        <5>1. moves # <<>> => moves[Len(moves)].status \in MoveStatuses
          BY LengthOfMoves
        <5>2. QED
          BY <3>2, <5>1 DEF MoveClears, LatestIs, LastMove, MoveStatuses, Failures
      <4>3. QED
        BY <2>1, <4>1, <4>2 DEF AtLast, Verifying
    <3>3. ASSUME NEW out \in MoveOutcomes, MovePost(w, out)
          PROVE  AtLast(w)'
      <4>1. mw'[w].pc = "posted" /\ mw'[w].at = mw[w].at /\ mw[w].pc = "intent"
        BY <3>3, PostEffect DEF MovePost
      <4>2. QED
        BY <2>1, <4>1 DEF AtLast, Verifying
    <3>4. CASE VerifyLoads(w)
      <4>1. CASE LatestIs({"VERIFIED"})
        BY <3>4, <4>1, LoadsEffect, ElsewhereIsFine
      <4>2. CASE ~LatestIs({"VERIFIED"})
        <5>1. mw'[w].pc = "inspect" /\ mw'[w].at = Len(moves) /\ mw'[w].job = mw[w].job
          BY <3>4, <4>2, LoadsEffect
        <5>2. PICK n \in 1..MaxMoves : mw[w].job = <<"verify", n>>
          BY <1>0, <3>4, MoveKeysAre DEF VerifyLoads, VerifyJob
        <5>3. mjobs[<<"verify", n>>].status \in UnsettledJobs
          BY <3>4, <5>2 DEF VerifyLoads, VerifyJob, JobsAreHeld, UnsettledJobs
        <5>4. n = Len(moves) /\ moves[n].status \in {"AMBIGUOUS", "VERIFIED"}
          BY <5>3 DEF LastIsVerified
        <5>5. moves # <<>>
          BY <5>4, LengthOfMoves, MoveAssumption
        <5>6. moves[Len(moves)].status = "AMBIGUOUS"
          BY <4>2, <5>4, <5>5 DEF LatestIs, LastMove
        <5>7. QED
          BY <2>1, <5>1, <5>2, <5>4, <5>6 DEF AtLast, Verifying
      <4>3. QED
        BY <4>1, <4>2
    <3>5. CASE VerifyInspects(w)
      <4>1. mw[w].pc = "inspect" /\ mw'[w].pc \in {"found", "missing"} /\ mw'[w].at = mw[w].at /\ mw'[w].job = mw[w].job
        <5>1. PICK pc \in {"found", "missing"} : MoveGoTo(w, pc)
          BY <3>5 DEF VerifyInspects
        <5>2. QED
          BY <3>5, <5>1, GoesTo DEF VerifyInspects
      <4>2. QED
        BY <2>1, <4>1 DEF AtLast, Verifying
    <3>6. QED
      BY <1>5, <3>1, <3>2, <3>3, <3>4, <3>5
  <2>3. QED
    BY <2>1, <2>2, QuietKeeps DEF OnlyMover
<1>6. QED
  BY <1>1, <1>2, <1>3, <1>4, <1>5, FailsMidway DEF MoverCrash

\* The last attempt is given a status, every session but those at rest is w's.
LEMMA LastIsWritten ==
  ASSUME MoveTypeOK, PastIsClosed, NEW w \in Movers, NEW st \in MoveStatuses,
         Len(moves) \in 1..Len(moves), moves' = [moves EXCEPT ![Len(moves)].status = st]
  PROVE  /\ Len(moves') = Len(moves) /\ moves'[Len(moves)].status = st /\ PastIsClosed'
         /\ Len(moves) \in 1..MaxMoves /\ Len(moves') \in 1..MaxMoves
         /\ moves # <<>> /\ moves' # <<>>
<1>0. moves \in Seq(MoveRows) /\ Len(moves) \in 0..MaxMoves /\ MaxMoves \in Nat
  BY LengthOfMoves, MoveAssumption DEF MoveTypeOK
<1>1. /\ moves' \in Seq(MoveRows) /\ Len(moves') = Len(moves)
      /\ \A i \in 1..Len(moves) : moves'[i].status = IF i = Len(moves) THEN st ELSE moves[i].status
  BY <1>0, MoveRowSet
<1>2. PastIsClosed'
  <2>1. \A i \in 1..(Len(moves) - 1) : i \in 1..Len(moves) /\ i # Len(moves)
    BY <1>0
  <2>2. QED
    BY <1>1, <2>1 DEF PastIsClosed
<1>3. moves # <<>> /\ moves' # <<>>
  BY <1>0, <1>1, EmptySeq
<1>4. QED
  BY <1>0, <1>1, <1>2, <1>3

LEMMA LoudSteps ==
  ASSUME MoveTypeOK, JobsAreHeld, SessionsKnowAttempts, OneLiveMove, PastIsClosed, LastIsVerified,
         \A v \in Movers : AtLast(v), NEW w \in Movers,
         \/ MoveUnresolved(w) \/ MoveIntent(w) \/ MoveOutcome(w) \/ VerifyFound(w) \/ VerifyMissing(w)
         \/ MoveJobFails(w)
  PROVE  PastIsClosed' /\ LastIsVerified' /\ \A v \in Movers : AtLast(v)'
<1>0. /\ \A n \in 1..MaxMoves : <<"verify", n>> \in MoveKeys
      /\ mjobs \in [MoveKeys -> MoveJobRows] /\ \A v \in Movers : mw[v].job \in MoveKeys
      /\ Len(moves) \in 0..MaxMoves /\ MaxMoves \in Nat /\ (moves = <<>> <=> Len(moves) = 0)
      /\ \A v \in Movers : mw[v].pc \in {"idle", "claimed", "clear", "intent", "posted", "inspect", "found",
                                           "missing", "done", "failed"}
  <2>1. \A v \in Movers : mw[v] \in MoverStates
    BY DEF MoveTypeOK
  <2>2. QED
    BY <2>1, MoveKeysAre, MoverRowSet, LengthOfMoves, MoveAssumption DEF MoveTypeOK
<1>a. ASSUME NEW v \in Movers, v # w, mw[v].pc \in Posting, mw[w].job \in MoveOnes,
             mw[w].pc \notin {"idle", "done"}
      PROVE  FALSE
  <2>1. mw[v].pc \notin {"idle", "done"} /\ mw[v].job \in MoveOnes
    BY <1>a DEF Posting, SessionsKnowAttempts
  <2>2. QED
    BY <1>a, <2>1, OneMoverRuns
<1>b. ASSUME NEW v \in Movers, mw'[v] = mw[v], mw[v].pc \notin Posting \cup Verifying
      PROVE  AtLast(v)'
  BY <1>b DEF AtLast, Posting, Verifying
<1>c. ASSUME NEW v \in Movers, mw[v].pc \in Verifying
      PROVE  /\ Len(moves) \in 1..MaxMoves /\ moves # <<>> /\ moves[Len(moves)].status = "AMBIGUOUS"
             /\ mw[v].at = Len(moves) /\ mw[v].job = <<"verify", Len(moves)>>
             /\ mjobs[<<"verify", Len(moves)>>].status \in UnsettledJobs
  <2>1. mw[v].at >= 1 /\ mw[v].at = Len(moves) /\ mw[v].job = <<"verify", Len(moves)>>
        /\ moves[Len(moves)].status = "AMBIGUOUS"
    BY <1>c DEF AtLast, SessionsKnowAttempts
  <2>2. mjobs[mw[v].job].status = "RUNNING"
    BY <1>c DEF JobsAreHeld, Verifying
  <2>3. QED
    BY <1>0, <2>1, <2>2 DEF UnsettledJobs
<1>d. \* While an attempt waits for its reconciliation nobody posts, and one worker reconciles.
      ASSUME mw[w].pc \in Verifying
      PROVE  \A v \in Movers : v # w => mw[v].pc \notin Posting \cup Verifying
  <2> SUFFICES ASSUME NEW v \in Movers, v # w
               PROVE  mw[v].pc \notin Posting \cup Verifying
    OBVIOUS
  <2>1. moves # <<>> /\ moves[Len(moves)].status = "AMBIGUOUS" /\ mw[w].job = <<"verify", Len(moves)>>
    BY <1>c, <1>d
  <2>2. mw[v].pc \notin Posting
    BY <2>1 DEF AtLast, Posting, Failures
  <2>3. mw[v].pc \notin Verifying
    <3>1. ASSUME mw[v].pc \in Verifying
          PROVE  FALSE
      <4>1. mw[v].job = mw[w].job
        BY <1>c, <2>1, <3>1
      <4>2. QED
        BY <1>d, <3>1, <4>1 DEF JobsAreHeld, Verifying
    <3>2. QED
      BY <3>1
  <2>4. QED
    BY <2>2, <2>3
<1>1. CASE MoveUnresolved(w)
  <2>1. /\ Len(moves) \in 1..MaxMoves /\ Len(moves) \in 1..Len(moves) /\ "AMBIGUOUS" \in MoveStatuses
        /\ mw[w].pc = "claimed" /\ mw[w].job \in MoveOnes
    BY <1>0, <1>1, MoveKeysAre DEF MoveUnresolved, LatestIs, MoveJob, MoveStatuses
  <2>2. moves' = [moves EXCEPT ![Len(moves)].status = "AMBIGUOUS"]
    BY <1>1 DEF MoveUnresolved, LastMove
  <2>3. Len(moves') = Len(moves) /\ moves'[Len(moves)].status = "AMBIGUOUS" /\ PastIsClosed'
    BY <2>1, <2>2, LastIsWritten
  <2>4. \A j \in MoveKeys : j # <<"verify", Len(moves)>> => mjobs'[j] = mjobs[j]
    BY <1>0, <1>1, <2>1, QueueJob DEF MoveUnresolved, LastMove
  <2>5. LastIsVerified'
    <3>1. ASSUME NEW n \in 1..MaxMoves, mjobs'[<<"verify", n>>].status \in UnsettledJobs
          PROVE  n = Len(moves)
      BY <1>0, <2>4, <3>1 DEF LastIsVerified
    <3>2. QED
      BY <2>3, <3>1 DEF LastIsVerified
  <2>6. mw'[w].pc = "done" /\ OnlyMover(w)
    BY <1>1, GoesTo DEF MoveUnresolved, OnlyMover
  <2>7. ASSUME NEW v \in Movers
        PROVE  AtLast(v)'
    <3>1. CASE v = w
      BY <2>6, <3>1, ElsewhereIsFine
    <3>2. CASE v # w
      <4>1. mw'[v] = mw[v] /\ mw[v].pc \notin Posting
        BY <1>a, <2>1, <2>6, <3>2 DEF OnlyMover
      <4>2. CASE mw[v].pc \in Verifying
        BY <1>c, <2>3, <4>1, <4>2 DEF AtLast, Posting
      <4>3. QED
        BY <1>b, <4>1, <4>2
    <3>3. QED
      BY <3>1, <3>2
  <2>8. QED
    BY <2>3, <2>5, <2>7
<1>2. CASE MoveIntent(w)
  <2>1. /\ OnlyMover(w) /\ mw'[w].pc = "intent" /\ mw'[w].at = Len(moves) + 1
        /\ Len(moves') = Len(moves) + 1 /\ \A i \in 1..Len(moves) : moves'[i] = moves[i]
        /\ moves'[Len(moves) + 1].status = "STARTED" /\ mjobs' = mjobs /\ mw[w].pc = "clear"
    BY <1>2, IntentEffect DEF MoveIntent
  <2>2. moves # <<>> => moves[Len(moves)].status \in Failures
    BY <2>1 DEF AtLast
  <2>3. PastIsClosed'
    <3>1. ASSUME NEW i \in 1..Len(moves)
          PROVE  moves[i].status \in Failures
      <4>1. CASE i = Len(moves)
        BY <1>0, <2>2, <4>1
      <4>2. CASE i # Len(moves)
        <5>1. i \in 1..(Len(moves) - 1)
          BY <1>0, <4>2
        <5>2. QED
          BY <5>1 DEF PastIsClosed
      <4>3. QED
        BY <4>1, <4>2
    <3>2. Len(moves') - 1 = Len(moves)
      BY <1>0, <2>1
    <3>3. QED
      BY <2>1, <3>1, <3>2 DEF PastIsClosed
  <2>4. \A n \in 1..MaxMoves : mjobs[<<"verify", n>>].status \notin UnsettledJobs
    <3>1. ASSUME NEW n \in 1..MaxMoves, mjobs[<<"verify", n>>].status \in UnsettledJobs
          PROVE  FALSE
      <4>1. n = Len(moves) /\ moves[n].status \in {"AMBIGUOUS", "VERIFIED"}
        BY <3>1 DEF LastIsVerified
      <4>2. QED
        BY <1>0, <2>2, <4>1 DEF Failures
    <3>2. QED
      BY <3>1
  <2>5. LastIsVerified'
    BY <2>1, <2>4 DEF LastIsVerified
  <2>6. mw[w].job \in MoveOnes
    BY <2>1 DEF SessionsKnowAttempts, Posting
  <2>7. ASSUME NEW v \in Movers
        PROVE  AtLast(v)'
    <3>1. CASE v = w
      BY <2>1, <3>1 DEF AtLast, Verifying
    <3>2. CASE v # w
      <4>1. mw'[v] = mw[v] /\ mw[v].pc \notin Posting
        BY <1>a, <2>1, <2>6, <3>2 DEF OnlyMover
      <4>2. mw[v].pc \notin Verifying
        BY <1>c, <2>4
      <4>3. QED
        BY <1>b, <4>1, <4>2
    <3>3. QED
      BY <3>1, <3>2
  <2>8. QED
    BY <2>3, <2>5, <2>7
<1>3. CASE MoveOutcome(w)
  <2>1. /\ mw[w].pc = "posted" /\ mw[w].at = Len(moves) /\ mw[w].at >= 1 /\ moves[Len(moves)].status = "STARTED"
        /\ mw[w].job \in MoveOnes
    BY <1>3 DEF MoveOutcome, AtLast, SessionsKnowAttempts, Posting
  <2>2. Len(moves) \in 1..MaxMoves /\ Len(moves) \in 1..Len(moves)
    BY <1>0, <2>1
  <2>3. PICK st \in MoveStatuses : st = OutcomeStatus(mw[w].was, mw[w].at)
    BY OutcomeIsStatus
  <2>4. moves' = [moves EXCEPT ![Len(moves)].status = st] /\ mjobs' = FollowUp(st, Len(moves))
    BY <1>3, <2>1, <2>3 DEF MoveOutcome
  <2>5. Len(moves') = Len(moves) /\ moves'[Len(moves)].status = st /\ PastIsClosed'
    BY <2>2, <2>4, LastIsWritten
  <2>6. \A n \in 1..MaxMoves : mjobs[<<"verify", n>>].status \notin UnsettledJobs
    BY <2>1 DEF LastIsVerified
  <2>7. LastIsVerified'
    <3>1. ASSUME NEW n \in 1..MaxMoves, mjobs'[<<"verify", n>>].status \in UnsettledJobs
          PROVE  n = Len(moves) /\ st = "AMBIGUOUS"
      <4>1. <<"verify", n>> \in VerifyOnes /\ <<"verify", n>> \in MoveKeys
        BY MoveKeysAre
      <4>2. mjobs'[<<"verify", n>>] # mjobs[<<"verify", n>>]
        BY <2>6, <3>1
      <4>3. <<"verify", n>> = <<"verify", Len(moves)>> /\ st = "AMBIGUOUS"
        BY <2>2, <2>4, <4>1, <4>2, FollowUpQueues
      <4>4. QED
        BY <4>3
    <3>2. QED
      BY <2>5, <3>1 DEF LastIsVerified
  <2>8. mw'[w].pc = "done" /\ OnlyMover(w)
    BY <1>3, GoesTo DEF MoveOutcome, OnlyMover
  <2>9. ASSUME NEW v \in Movers
        PROVE  AtLast(v)'
    <3>1. CASE v = w
      BY <2>8, <3>1, ElsewhereIsFine
    <3>2. CASE v # w
      <4>1. mw'[v] = mw[v] /\ mw[v].pc \notin Posting
        BY <1>a, <2>1, <2>8, <3>2 DEF OnlyMover
      <4>2. mw[v].pc \notin Verifying
        BY <1>c, <2>1
      <4>3. QED
        BY <1>b, <4>1, <4>2
    <3>3. QED
      BY <3>1, <3>2
  <2>10. QED
    BY <2>5, <2>7, <2>9
<1>4. CASE VerifyFound(w)
  <2>1. mw[w].pc = "found" /\ mw[w].pc \in Verifying
    BY <1>4 DEF VerifyFound, Verifying
  <2>2. /\ Len(moves) \in 1..MaxMoves /\ mw[w].at = Len(moves) /\ mw[w].job = <<"verify", Len(moves)>>
        /\ Len(moves) \in 1..Len(moves) /\ "VERIFIED" \in MoveStatuses
    BY <1>0, <1>c, <2>1 DEF MoveStatuses
  <2>3. moves' = [moves EXCEPT ![Len(moves)].status = "VERIFIED"]
    BY <1>4, <2>2 DEF VerifyFound
  <2>4. Len(moves') = Len(moves) /\ moves'[Len(moves)].status = "VERIFIED" /\ PastIsClosed'
    BY <2>2, <2>3, LastIsWritten
  <2>5. \A n \in 1..MaxMoves : mjobs'[<<"verify", n>>] = mjobs[<<"verify", n>>]
    <3>1. /\ <<"complete", Len(moves)>> \in MoveKeys
          /\ \A n \in 1..MaxMoves : <<"verify", n>> # <<"complete", Len(moves)>>
      BY <2>2, MoveKeysAre
    <3>2. mjobs' = WithMoveJob(mjobs, <<"complete", Len(moves)>>)
      BY <1>4, <2>2 DEF VerifyFound
    <3>3. \A j \in MoveKeys : j # <<"complete", Len(moves)>> => mjobs'[j] = mjobs[j]
      BY <1>0, <3>1, <3>2, QueueJob
    <3>4. QED
      BY <1>0, <3>1, <3>3
  <2>6. LastIsVerified'
    BY <2>4, <2>5 DEF LastIsVerified
  <2>7. mw'[w].pc = "done" /\ OnlyMover(w)
    BY <1>4, GoesTo DEF VerifyFound, OnlyMover
  <2>8. ASSUME NEW v \in Movers
        PROVE  AtLast(v)'
    BY <1>b, <1>d, <2>1, <2>7, ElsewhereIsFine DEF OnlyMover
  <2>9. QED
    BY <2>4, <2>6, <2>8
<1>5. CASE VerifyMissing(w)
  <2>1. mw[w].pc = "missing" /\ mw[w].pc \in Verifying
    BY <1>5 DEF VerifyMissing, Verifying
  <2>2. /\ Len(moves) \in 1..MaxMoves /\ mw[w].at = Len(moves) /\ mw[w].job = <<"verify", Len(moves)>>
        /\ Len(moves) \in 1..Len(moves) /\ "AMBIGUOUS" \in MoveStatuses /\ moves[Len(moves)].status = "AMBIGUOUS"
    BY <1>0, <1>c, <2>1 DEF MoveStatuses
  <2>3. moves' = moves \/ moves' = [moves EXCEPT ![Len(moves)].status = "AMBIGUOUS"]
    BY <1>5, <2>2 DEF VerifyMissing
  <2>4. Len(moves') = Len(moves) /\ moves'[Len(moves)].status = "AMBIGUOUS" /\ PastIsClosed'
    <3>1. CASE moves' = moves
      BY <2>2, <3>1 DEF PastIsClosed
    <3>2. CASE moves' = [moves EXCEPT ![Len(moves)].status = "AMBIGUOUS"]
      BY <2>2, <3>2, LastIsWritten
    <3>3. QED
      BY <2>3, <3>1, <3>2
  <2>5. mjobs' = mjobs
    BY <1>5 DEF VerifyMissing
  <2>6. LastIsVerified'
    BY <2>4, <2>5 DEF LastIsVerified
  <2>7. mw'[w].pc = "failed" /\ mw'[w].at = mw[w].at /\ mw'[w].job = mw[w].job /\ OnlyMover(w)
    BY <1>5, GoesTo DEF VerifyMissing, OnlyMover
  <2>8. AtLast(w)'
    BY <2>2, <2>4, <2>7 DEF AtLast
  <2>9. ASSUME NEW v \in Movers
        PROVE  AtLast(v)'
    BY <1>b, <1>d, <2>1, <2>7, <2>8 DEF OnlyMover
  <2>10. QED
    BY <2>4, <2>6, <2>9
<1>6. CASE MoveJobFails(w)
  <2>1. mw[w].pc = "failed" /\ mw[w].pc \in Verifying
    BY <1>6 DEF MoveJobFails, Verifying
  <2>2. /\ Len(moves) \in 1..MaxMoves /\ mw[w].at = Len(moves) /\ mw[w].job = <<"verify", Len(moves)>>
        /\ Len(moves) \in 1..Len(moves) /\ "FAILED_REVIEW" \in MoveStatuses /\ moves[Len(moves)].status = "AMBIGUOUS"
        /\ mjobs[<<"verify", Len(moves)>>].status \in UnsettledJobs
    BY <1>0, <1>c, <2>1 DEF MoveStatuses
  <2>3. /\ OnlyMover(w) /\ mw'[w].pc = "idle" /\ \A j \in MoveKeys : j # mw[w].job => mjobs'[j] = mjobs[j]
        /\ mw[w].n >= MoveMaxOf(mw[w].job) => mjobs'[mw[w].job].status = "FAILED_REVIEW"
    BY <1>6, ReleaseEffect
  <2>4. CASE mw[w].n >= MoveMaxOf(mw[w].job)
    <3>1. moves' = [moves EXCEPT ![Len(moves)].status = "FAILED_REVIEW"]
      BY <1>6, <2>2, <2>4 DEF MoveJobFails, SeenLatest, LastMove
    <3>2. Len(moves') = Len(moves) /\ PastIsClosed'
      BY <2>2, <3>1, LastIsWritten
    <3>3. \A n \in 1..MaxMoves : mjobs'[<<"verify", n>>].status \notin UnsettledJobs
      <4>1. ASSUME NEW n \in 1..MaxMoves, mjobs'[<<"verify", n>>].status \in UnsettledJobs
            PROVE  FALSE
        <5>1. <<"verify", n>> # mw[w].job
          BY <2>3, <2>4, <4>1 DEF UnsettledJobs
        <5>2. mjobs[<<"verify", n>>].status \in UnsettledJobs
          BY <1>0, <2>3, <4>1, <5>1
        <5>3. n = Len(moves)
          BY <5>2 DEF LastIsVerified
        <5>4. QED
          BY <2>2, <5>1, <5>3
      <4>2. QED
        BY <4>1
    <3>4. LastIsVerified'
      BY <3>3 DEF LastIsVerified
    <3>5. QED
      BY <1>b, <1>d, <2>1, <2>3, <3>2, <3>4, ElsewhereIsFine DEF OnlyMover
  <2>5. CASE ~(mw[w].n >= MoveMaxOf(mw[w].job))
    <3>1. moves' = moves
      BY <1>6, <2>5 DEF MoveJobFails
    <3>2. \A n \in 1..MaxMoves : mjobs'[<<"verify", n>>].status \in UnsettledJobs
                                   => mjobs[<<"verify", n>>].status \in UnsettledJobs
      BY <1>0, <2>2, <2>3
    <3>3. AtLast(w)'
      BY <2>3, ElsewhereIsFine
    <3>4. QED
      BY <2>3, <3>1, <3>2, <3>3, QuietKeeps DEF OnlyMover
  <2>6. QED
    BY <2>4, <2>5
<1>7. QED
  BY <1>1, <1>2, <1>3, <1>4, <1>5, <1>6

LEMMA TurnByTurn ==
  ASSUME MoveIInv, MoveTypeOK', QueuedInTurn', MoveNext
  PROVE  OneAtATime'
<1> SUFFICES ASSUME OneMoveJob'
             PROVE  OneLiveMove' /\ PastIsClosed' /\ LastIsVerified' /\ \A v \in Movers : AtLast(v)'
  BY DEF OneAtATime
<1>0. MoveTypeOK /\ JobsAreHeld /\ SessionsKnowAttempts /\ QueuedInTurn
  BY DEF MoveIInv
<1>1. OneLiveMove /\ PastIsClosed /\ LastIsVerified /\ \A v \in Movers : AtLast(v)
  BY <1>0, OneJobStood DEF MoveIInv, OneAtATime
<1>2. OneLiveMove'
  BY <1>0, <1>1, LiveKeeps
<1>3. CASE OtherMoveStep \/ \E w \in Movers : MoverCrash(w)
  BY <1>0, <1>1, <1>2, <1>3, QuietSteps
<1>4. ASSUME NEW w \in Movers, MoverStep(w)
      PROVE  PastIsClosed' /\ LastIsVerified' /\ \A v \in Movers : AtLast(v)'
  <2>1. CASE \/ MoveUnresolved(w) \/ MoveIntent(w) \/ MoveOutcome(w) \/ VerifyFound(w) \/ VerifyMissing(w)
             \/ MoveJobFails(w)
    BY <1>0, <1>1, <2>1, LoudSteps
  <2>2. CASE ~(\/ MoveUnresolved(w) \/ MoveIntent(w) \/ MoveOutcome(w) \/ VerifyFound(w) \/ VerifyMissing(w)
               \/ MoveJobFails(w))
    <3>1. \/ (\E k \in MoveKeys : MoveClaim(w, k)) \/ MoveJobDone(w) \/ Fails(w)
          \/ MoveAlreadyVerified(w) \/ MoveClears(w) \/ (\E out \in MoveOutcomes : MovePost(w, out))
          \/ VerifyLoads(w) \/ VerifyInspects(w) \/ JobCompletes(w)
      BY <1>4, <2>2, MoverStepKinds DEF Handles
    <3>2. QED
      BY <1>0, <1>1, <3>1, QuietSteps
  <2>3. QED
    BY <2>1, <2>2
<1>5. QED
  BY <1>2, <1>3, <1>4 DEF MoveNext, OtherMoveStep

LEMMA MoveStarts == MoveInit => MoveIInv
<1> SUFFICES ASSUME MoveInit PROVE MoveIInv
  OBVIOUS
<1> USE DEF MoveInit
<1>1. NoMoveJob \in MoveJobRows /\ NewMoveJob \in MoveJobRows /\ NoMoveJob.status = "absent"
      /\ NewMoveJob.status # "absent"
  BY DEF NoMoveJob, NewMoveJob, MoveJobRows
<1>2. mjobs \in [MoveKeys -> MoveJobRows]
  BY <1>1
<1>3. /\ moves \in Seq(MoveRows) /\ Len(moves) = 0 /\ DOMAIN moves = {} /\ MaxMoves \in Nat
      /\ 0 \in 0..MaxUpsets
  BY MoveAssumption, EmptySeq
<1>4. email \in EmailRows
  BY DEF EmailRows, EmailStates, PipelineStates, Pipeline
<1>5. mw \in [Movers -> MoverStates] /\ \A w \in Movers : mw[w].pc = "idle" /\ mw[w].at = 0
  BY IdleMoverIs
<1>6. MoveTypeOK
  <2>1. plan \in [required : BOOLEAN, dest : Folders]
    OBVIOUS
  <2>2. /\ sentCopy \in BOOLEAN /\ record \in CompletionRecords /\ folder \in Folders \cup {"inbox"}
        /\ wire \subseteq Folders /\ upsets \in 0..MaxUpsets
    BY <1>3 DEF CompletionRecords
  <2>3. Len(moves) <= MaxMoves /\ \A w \in Movers : mw[w].at <= Len(moves)
    BY <1>3, <1>5
  <2>4. QED
    BY <1>2, <1>3, <1>4, <1>5, <2>1, <2>2, <2>3 DEF MoveTypeOK
<1>7. JobsAreHeld /\ SessionsKnowAttempts
  BY <1>5 DEF JobsAreHeld, SessionsKnowAttempts, Posting, Verifying
<1>8. /\ \A k \in MoveKeys : mjobs[k].status # "absent" => k = <<"no-response", 0>> /\ ~plan.required
      /\ \A k \in MoveOnes \cup VerifyOnes : k \in MoveKeys
  BY <1>1, MoveKeysAre
<1>9. QueuedInTurn
  <2>1. \A n \in 1..MaxMoves : /\ <<"retry", n>> \in MoveKeys /\ <<"verify", n>> \in MoveKeys
                               /\ <<"retry", n>> # <<"no-response", 0>> /\ <<"verify", n>> # <<"no-response", 0>>
    BY MoveKeysAre
  <2>2. <<"after-send", 0>> \in MoveKeys /\ <<"no-response", 0>> \in MoveKeys
    BY MoveKeysAre
  <2>3. QED
    BY <1>5, <1>8, <2>1, <2>2 DEF QueuedInTurn
<1>10. MailFollowsMoves
  BY <1>3, <1>5 DEF MailFollowsMoves, VerifiedMoves
<1>11. OneAtATime
  <2>1. OneLiveMove
    BY <1>8 DEF OneLiveMove, LiveMove, UnsettledJobs
  <2>2. \A n \in 1..MaxMoves : <<"verify", n>> \in MoveKeys /\ <<"verify", n>> # <<"no-response", 0>>
    BY MoveKeysAre
  <2>3. PastIsClosed /\ LastIsVerified
    BY <1>3, <1>8, <2>2 DEF PastIsClosed, LastIsVerified, UnsettledJobs
  <2>4. \A w \in Movers : AtLast(w)
    BY <1>5 DEF AtLast, Verifying
  <2>5. QED
    BY <2>1, <2>3, <2>4 DEF OneAtATime
<1>12. QED
  BY <1>6, <1>7, <1>9, <1>10, <1>11 DEF MoveIInv

LEMMA MoveStays == MoveIInv /\ [MoveNext]_moveVars => MoveIInv'
<1>1. ASSUME MoveIInv, MoveNext
      PROVE  MoveIInv'
  <2>0. MoveTypeOK /\ JobsAreHeld /\ SessionsKnowAttempts /\ QueuedInTurn /\ MailFollowsMoves
    BY <1>1 DEF MoveIInv
  <2>1. MoveTypeOK'
    BY <1>1, <2>0, MoveTypes
  <2>2. JobsAreHeld' /\ SessionsKnowAttempts'
    BY <1>1, <2>0, HoldersKeep, SessionsKeep
  <2>3. QueuedInTurn' /\ MailFollowsMoves'
    BY <1>1, <2>0, <2>1, TurnsKeep, MailKeeps
  <2>4. OneAtATime'
    BY <1>1, <2>1, <2>3, TurnByTurn
  <2>5. QED
    BY <2>1, <2>2, <2>3, <2>4 DEF MoveIInv
<1>2. ASSUME MoveIInv, UNCHANGED moveVars
      PROVE  MoveIInv'
  BY <1>2 DEF moveVars, MoveIInv, MoveTypeOK, JobsAreHeld, SessionsKnowAttempts, QueuedInTurn, ResponseSettled,
     MailFollowsMoves, MoveDests, VerifiedMoves, OneAtATime, OneMoveJob, ByHand, MoveRetried, OneLiveMove, LiveMove,
     PastIsClosed, LastIsVerified, AtLast
<1>3. QED
  BY <1>1, <1>2

LEMMA MoveMeans == MoveIInv => MoveInv
<1> SUFFICES ASSUME MoveIInv PROVE MoveInv
  OBVIOUS
<1>1. MoveTypeOK /\ MailFollowsMoves
  BY DEF MoveIInv
<1>2. ASSUME record # "NONE", Cardinality(MoveDests) = 1
      PROVE  folder = record
  <2>1. folder \in MoveDests /\ record \in MoveDests
    BY <1>1, <1>2 DEF MailFollowsMoves
  <2>2. IsFiniteSet(1..Len(moves)) /\ DOMAIN moves = 1..Len(moves)
    BY <1>1, LengthOfMoves, FS_Interval
  <2>3. IsFiniteSet(MoveDests)
    <3>1. IsFiniteSet(DOMAIN moves)
      BY <2>2
    <3>2. [i \in DOMAIN moves |-> moves[i].dest] \in Surjection(DOMAIN moves, MoveDests)
      BY DEF Surjection, MoveDests
    <3>3. QED
      BY <3>1, <3>2, FS_Surjection DEF ExistsSurjection
  <2>4. QED
    BY <1>2, <2>1, <2>3, FS_Singleton
<1>3. CompletionIsTrue
  BY <1>1, <1>2 DEF CompletionIsTrue, MailFollowsMoves, MoveDests
<1>4. QED
  BY <1>1, <1>3 DEF MoveInv

(***************************************************************************)
(* Theorems about the source move                                          *)
(***************************************************************************)

\* A completed workflow is true of the mailbox, however many workers run, die around their
\* requests or are overtaken by a Manager's override: the response it needed was verified, the
\* message has left the inbox, and where every attempt had one destination it is in that folder.
THEOREM MoveIsSafe == MailboxSpec => []MoveInv
<1>1. MailboxInit => MoveIInv
  BY MoveStarts DEF MailboxInit
<1>2. [MailboxNext]_<<focus, syncVars, subVars, moveVars>> => [MoveNext]_moveVars
  BY DEF MailboxNext
<1>3. MoveIInv /\ [MailboxNext]_<<focus, syncVars, subVars, moveVars>> => MoveIInv'
  BY <1>2, MoveStays
<1>4. QED
  BY <1>1, <1>3, MoveMeans, PTL DEF MailboxSpec

\* SourceMoveService.execute: as long as one job stands for the move, an attempt is started only
\* when every attempt before it is known to have failed, whatever the interleaving of the workers
\* between the check, the committed intent and the request.
THEOREM MovesAreNotRepeated == MailboxSpec => NoBlindRepeat
<1>1. MailboxInit => MoveIInv
  BY MoveStarts DEF MailboxInit
<1>2. [MailboxNext]_<<focus, syncVars, subVars, moveVars>> => [MoveNext]_moveVars
  BY DEF MailboxNext
<1>3. MoveIInv /\ [MailboxNext]_<<focus, syncVars, subVars, moveVars>> => MoveIInv'
  BY <1>2, MoveStays
<1>4. ASSUME MoveIInv, MoveNext, Len(moves') > Len(moves), OneMoveJob
      PROVE  \A i \in DOMAIN moves : moves[i].status \in Failures
  <2>0. /\ MoveTypeOK /\ SessionsKnowAttempts /\ PastIsClosed /\ \A v \in Movers : AtLast(v)
        /\ Len(moves) \in Nat /\ DOMAIN moves = 1..Len(moves) /\ (moves = <<>> <=> Len(moves) = 0)
    BY <1>4, LengthOfMoves, MoveAssumption DEF MoveIInv, OneAtATime
  <2>a. Len(moves) \in Nat
    BY <2>0
  <2>1. PICK w \in Movers : MoveIntent(w)
    BY <1>4, <2>0, AttemptsStand
  <2>2. moves # <<>> => moves[Len(moves)].status \in Failures
    BY <2>0, <2>1 DEF MoveIntent, AtLast
  <2>3. ASSUME NEW i \in 1..Len(moves)
        PROVE  moves[i].status \in Failures
    <3>1. CASE i = Len(moves)
      BY <2>0, <2>2, <3>1
    <3>2. CASE i # Len(moves)
      <4>1. i \in 1..(Len(moves) - 1)
        BY <2>a, <3>2
      <4>2. QED
        BY <2>0, <4>1 DEF PastIsClosed
    <3>3. QED
      BY <3>1, <3>2
  <2>4. QED
    BY <2>0, <2>3
<1>5. MoveIInv /\ [MailboxNext]_<<focus, syncVars, subVars, moveVars>>
        => [(Len(moves') > Len(moves) /\ OneMoveJob)
              => \A i \in DOMAIN moves : moves[i].status \in Failures]_moveVars
  BY <1>2, <1>4
<1>6. QED
  BY <1>1, <1>3, <1>5, PTL DEF MailboxSpec, NoBlindRepeat

(***************************************************************************)
(* The subscriptions: their inductive invariant                            *)
(***************************************************************************)

\* Rows name remote subscriptions that exist, one row at most each; one row is active.
RowsNameRemotes ==
  /\ \A i \in DOMAIN subs : subs[i].gid <= Len(remote)
  /\ \A i, j \in ActiveRows(subs) : i = j
  /\ \A g \in DOMAIN remote : remote[g].row \in DOMAIN subs

\* A keeper is at a row that exists, and what it has to record is that row's.
KeepersKnowRows ==
  \A w \in Keepers :
    /\ kw[w].pc \in {"post", "record", "renew"} => kw[w].row \in DOMAIN subs
    /\ kw[w].pc \in {"record", "renew"} => kw[w].gid \in DOMAIN remote
    /\ kw[w].pc = "record" => remote[kw[w].gid].row = kw[w].row

\* A job that can be claimed has an attempt left.
EnsureHasAttempts == \A k \in EnsureKinds : ejob[k].status = "PENDING" => ejob[k].attempts < SubMax

SubIInv == SubTypeOK /\ RowsNameRemotes /\ KeepersKnowRows /\ EnsureHasAttempts /\ OwnClientState

\* What the tables hold of it.
SubRowsOK ==
  /\ subs \in Seq(SubRows) /\ Len(subs) <= MaxSubs
  /\ remote \in Seq(RemoteSubs) /\ Len(remote) <= MaxSubs
  /\ \A i, j \in DOMAIN subs : (subs[i].gid = subs[j].gid /\ subs[i].gid # 0) => i = j
  /\ RowsNameRemotes /\ OwnClientState

LEMMA SubLengths ==
  ASSUME SubRowsOK
  PROVE  /\ MaxSubs \in Nat /\ Len(subs) \in 0..MaxSubs /\ Len(remote) \in 0..MaxSubs
         /\ DOMAIN subs = 1..Len(subs) /\ DOMAIN remote = 1..Len(remote)
         /\ \A i \in 1..Len(subs) : /\ subs[i] \in SubRows /\ subs[i].gid \in 0..Len(remote)
                                    /\ subs[i].status \in SubStatuses /\ i \in 1..MaxSubs
                                    /\ subs[i].gid # 0 => subs[i].gid \in DOMAIN remote
         /\ \A g \in 1..Len(remote) : remote[g] \in RemoteSubs /\ g \in 0..MaxSubs
<1>1. /\ Len(subs) \in Nat /\ DOMAIN subs = 1..Len(subs) /\ Len(remote) \in Nat
      /\ DOMAIN remote = 1..Len(remote) /\ MaxSubs \in Nat /\ Len(subs) <= MaxSubs /\ Len(remote) <= MaxSubs
  BY LenProperties, SubAssumption DEF SubRowsOK
<1>2. /\ \A i \in 1..Len(subs) : subs[i] \in SubRows
      /\ \A g \in 1..Len(remote) : remote[g] \in RemoteSubs
  BY ElementOfSeq DEF SubRowsOK
<1>3. \A i \in 1..Len(subs) : subs[i].gid <= Len(remote)
  BY <1>1 DEF SubRowsOK, RowsNameRemotes
<1>4. \A i \in 1..Len(subs) : subs[i].gid \in 0..MaxSubs /\ subs[i].status \in SubStatuses
  BY <1>2 DEF SubRows
<1>5. QED
  BY <1>1, <1>2, <1>3, <1>4

\* One active row is a set of at most one element.
LEMMA OneActiveRow ==
  ASSUME NEW T, \A i, j \in T : i = j
  PROVE  IsFiniteSet(T) /\ Cardinality(T) <= 1
<1>1. CASE T = {}
  BY <1>1, FS_EmptySet
<1>2. CASE T # {}
  <2>1. PICK x : T = {x}
    BY <1>2
  <2>2. IsFiniteSet({x}) /\ Cardinality({x}) = 1
    BY FS_Singleton
  <2>3. QED
    BY <2>1, <2>2
<1>3. QED
  BY <1>1, <1>2

\* Graph's side: subscriptions are added and die, and keep their client state.
RemoteGrows ==
  /\ remote' \in Seq(RemoteSubs) /\ Len(remote') <= MaxSubs /\ Len(remote) <= Len(remote')
  /\ \A g \in 1..Len(remote) : remote'[g].row = remote[g].row
  /\ \A g \in DOMAIN remote' : remote'[g].row \in DOMAIN subs

\* A row is written that the indexes accept.
SubWritten(i, r) ==
  /\ i \in DOMAIN subs /\ r \in SubRows /\ subs' = [subs EXCEPT ![i] = r]
  /\ FitsSlot(i, r.status)
  /\ \/ r.gid = subs[i].gid
     \/ /\ r.gid \in DOMAIN remote /\ FitsId(i, r.gid)
        /\ adopted' \/ remote[r.gid].row = i

\* A row is added.
SubAdded ==
  /\ Len(subs) < MaxSubs /\ ActiveRows(subs) = {}
  /\ subs' = Append(subs, [status |-> "CREATING", gid |-> 0, life |-> TRUE])

LEMMA SubRowsKeep ==
  ASSUME SubRowsOK, RemoteGrows, adopted => adopted',
         subs' = subs \/ SubAdded \/ \E i \in DOMAIN subs, r \in SubRows : SubWritten(i, r)
  PROVE  SubRowsOK' /\ DOMAIN subs \subseteq DOMAIN subs' /\ DOMAIN remote \subseteq DOMAIN remote'
<1>0. /\ Len(remote) \in Nat /\ Len(remote') \in Nat /\ Len(subs) \in Nat /\ MaxSubs \in Nat
      /\ DOMAIN remote = 1..Len(remote) /\ DOMAIN remote' = 1..Len(remote')
      /\ DOMAIN subs = 1..Len(subs) /\ Len(subs) <= MaxSubs
  BY SubLengths, LenProperties DEF RemoteGrows
<1>1. DOMAIN remote \subseteq DOMAIN remote'
  BY <1>0 DEF RemoteGrows
<1>2. \A i \in DOMAIN subs : /\ subs[i] \in SubRows /\ subs[i].gid \in 0..Len(remote)
                             /\ subs[i].gid # 0 => subs[i].gid \in DOMAIN remote
  BY <1>0, SubLengths
<1>3. CASE subs' = subs
  <2>1. RowsNameRemotes'
    <3>1. \A i \in DOMAIN subs' : subs'[i].gid <= Len(remote')
      BY <1>0, <1>2, <1>3 DEF RemoteGrows
    <3>2. QED
      BY <1>3, <3>1 DEF RowsNameRemotes, SubRowsOK, RemoteGrows, ActiveRows
  <2>2. OwnClientState'
    <3>1. ASSUME ~adopted', NEW i \in DOMAIN subs, subs[i].gid # 0
          PROVE  remote'[subs[i].gid].row = i
      BY <1>0, <1>2, <3>1 DEF SubRowsOK, OwnClientState, RemoteGrows
    <3>2. QED
      BY <1>3, <3>1 DEF OwnClientState
  <2>3. QED
    BY <1>1, <1>3, <2>1, <2>2 DEF SubRowsOK, RemoteGrows
<1>4. CASE SubAdded
  <2> DEFINE r == [status |-> "CREATING", gid |-> 0, life |-> TRUE]
  <2>1. r \in SubRows /\ r.gid = 0 /\ r.status = "CREATING"
    BY <1>0 DEF SubRows, SubStatuses, ActiveSub
  <2>2. subs' = Append(subs, r)
    BY <1>4 DEF SubAdded
  <2> HIDE DEF r
  <2>3. /\ subs' \in Seq(SubRows) /\ Len(subs') = Len(subs) + 1
        /\ \A i \in 1..Len(subs) : subs'[i] = subs[i]
        /\ subs'[Len(subs) + 1] = r
    BY <2>1, <2>2, AppendProperties DEF SubRowsOK
  <2>4. DOMAIN subs' = 1..(Len(subs) + 1) /\ Len(subs') <= MaxSubs
    <3>1. DOMAIN subs' = 1..Len(subs')
      BY <2>3, LenProperties
    <3>2. Len(subs) < MaxSubs
      BY <1>4 DEF SubAdded
    <3>3. Len(subs) + 1 <= MaxSubs
      BY <1>0, <3>2
    <3>4. QED
      BY <2>3, <3>1, <3>3
  <2>5. \A i \in DOMAIN subs' : (i \in DOMAIN subs /\ subs'[i] = subs[i]) \/ (i = Len(subs) + 1 /\ subs'[i] = r)
    BY <1>0, <2>3, <2>4
  <2>6. RowsNameRemotes'
    <3>1. \A i \in DOMAIN subs' : subs'[i].gid <= Len(remote')
      BY <1>0, <1>2, <2>1, <2>5 DEF RemoteGrows
    <3>2. \A i \in DOMAIN subs : subs[i].status \notin ActiveSub
      BY <1>4 DEF SubAdded, ActiveRows
    <3>3. \A i, j \in ActiveRows(subs') : i = j
      BY <2>5, <3>2 DEF ActiveRows
    <3>4. \A g \in DOMAIN remote' : remote'[g].row \in DOMAIN subs'
      BY <1>0, <2>4 DEF RemoteGrows
    <3>5. QED
      BY <3>1, <3>3, <3>4 DEF RowsNameRemotes, ActiveRows
  <2>7. OwnClientState'
    <3>1. ASSUME ~adopted', NEW i \in DOMAIN subs', subs'[i].gid # 0
          PROVE  remote'[subs'[i].gid].row = i
      <4>1. i \in DOMAIN subs /\ subs'[i] = subs[i]
        BY <2>1, <2>5, <3>1
      <4>2. QED
        BY <1>0, <1>2, <3>1, <4>1 DEF SubRowsOK, OwnClientState, RemoteGrows
    <3>2. QED
      BY <3>1 DEF OwnClientState
  <2>8. \A i, j \in DOMAIN subs' : (subs'[i].gid = subs'[j].gid /\ subs'[i].gid # 0) => i = j
    BY <2>1, <2>5 DEF SubRowsOK
  <2>9. DOMAIN subs \subseteq DOMAIN subs'
    BY <1>0, <2>4
  <2>10. QED
    BY <1>1, <2>3, <2>4, <2>6, <2>7, <2>8, <2>9 DEF SubRowsOK, RemoteGrows
<1>5. ASSUME NEW i \in DOMAIN subs, NEW r \in SubRows, SubWritten(i, r)
      PROVE  SubRowsOK' /\ DOMAIN subs \subseteq DOMAIN subs'
  <2>1. /\ subs' \in Seq(SubRows) /\ Len(subs') = Len(subs)
        /\ \A j \in 1..Len(subs) : subs'[j] = IF j = i THEN r ELSE subs[j]
    BY <1>0, <1>5, ExceptSeq DEF SubWritten, SubRowsOK
  <2>2. DOMAIN subs' = DOMAIN subs
    BY <1>0, <2>1, LenProperties
  <2>3. \A j \in DOMAIN subs : (j # i /\ subs'[j] = subs[j]) \/ (j = i /\ subs'[j] = r)
    BY <1>0, <2>1
  <2>4. r.gid \in 0..Len(remote) /\ (r.gid # 0 => r.gid \in DOMAIN remote)
    BY <1>0, <1>2, <1>5 DEF SubWritten
  <2>5. \A j \in DOMAIN subs : subs[j].gid = r.gid /\ r.gid # 0 => j = i
    BY <1>5 DEF SubWritten, FitsId, SubRowsOK
  <2>6. RowsNameRemotes'
    <3>1. \A j \in DOMAIN subs' : subs'[j].gid <= Len(remote')
      BY <1>0, <1>2, <2>2, <2>3, <2>4 DEF RemoteGrows
    <3>2. \A j \in DOMAIN subs : r.status \in ActiveSub /\ subs[j].status \in ActiveSub => j = i
      BY <1>5 DEF SubWritten, FitsSlot, ActiveRows
    <3>a. \A j, k \in DOMAIN subs : subs[j].status \in ActiveSub /\ subs[k].status \in ActiveSub => j = k
      BY DEF ActiveRows, SubRowsOK, RowsNameRemotes
    <3>b. \A j \in ActiveRows(subs') :
            j \in DOMAIN subs /\ ((j # i /\ subs[j].status \in ActiveSub) \/ (j = i /\ r.status \in ActiveSub))
      BY <2>2, <2>3 DEF ActiveRows
    <3>3. \A j, k \in ActiveRows(subs') : j = k
      BY <3>2, <3>a, <3>b
    <3>4. \A g \in DOMAIN remote' : remote'[g].row \in DOMAIN subs'
      BY <2>2 DEF RemoteGrows
    <3>5. QED
      BY <3>1, <3>3, <3>4 DEF RowsNameRemotes, ActiveRows
  <2>7. OwnClientState'
    <3>1. ASSUME ~adopted', NEW j \in DOMAIN subs', subs'[j].gid # 0
          PROVE  remote'[subs'[j].gid].row = j
      <4>1. \A k \in DOMAIN subs : subs[k].gid # 0 => remote[subs[k].gid].row = k
        BY <3>1 DEF SubRowsOK, OwnClientState
      <4>2. CASE j # i
        <5>1. j \in DOMAIN subs /\ subs'[j] = subs[j]
          BY <2>2, <2>3, <4>2
        <5>2. QED
          BY <1>0, <1>2, <3>1, <4>1, <5>1 DEF RemoteGrows
      <4>3. CASE j = i
        <5>1. subs'[j] = r /\ r.gid # 0
          BY <2>2, <2>3, <3>1, <4>3
        <5>2. remote[r.gid].row = i
          BY <1>5, <3>1, <4>1, <5>1 DEF SubWritten
        <5>3. QED
          BY <1>0, <2>4, <4>3, <5>1, <5>2 DEF RemoteGrows
      <4>4. QED
        BY <4>2, <4>3
    <3>2. QED
      BY <3>1 DEF OwnClientState
  <2>8. \A j, k \in DOMAIN subs' : (subs'[j].gid = subs'[k].gid /\ subs'[j].gid # 0) => j = k
    BY <2>2, <2>3, <2>5 DEF SubRowsOK
  <2>9. QED
    BY <1>0, <2>1, <2>2, <2>6, <2>7, <2>8 DEF SubRowsOK, RemoteGrows
<1>6. QED
  BY <1>1, <1>3, <1>4, <1>5

\* A status is written that fits the slot.
LEMMA StatusWritten ==
  ASSUME SubRowsOK, NEW i \in DOMAIN subs, NEW st \in SubStatuses, subs' = SetSub(i, st), FitsSlot(i, st)
  PROVE  \E r \in SubRows : SubWritten(i, r)
<1>1. subs[i] \in SubRows
  BY SubLengths
<1>2. /\ [subs[i] EXCEPT !.status = st] \in SubRows
      /\ [subs[i] EXCEPT !.status = st].gid = subs[i].gid
      /\ [subs[i] EXCEPT !.status = st].status = st
  BY <1>1 DEF SubRows
<1>3. PICK r \in SubRows : r = [subs[i] EXCEPT !.status = st]
  BY <1>2
<1>4. r.gid = subs[i].gid /\ r.status = st
  BY <1>2, <1>3
<1>5. subs' = [subs EXCEPT ![i] = r]
  BY <1>3 DEF SetSub
<1>6. QED
  BY <1>4, <1>5 DEF SubWritten

LEMMA RemoteStays ==
  ASSUME SubRowsOK, remote' = remote
  PROVE  RemoteGrows
BY SubLengths DEF SubRowsOK, RemoteGrows, RowsNameRemotes

LEMMA RemoteAdded ==
  ASSUME SubRowsOK, NEW i \in DOMAIN subs, Len(remote) < MaxSubs,
         remote' = Append(remote, [row |-> i, alive |-> TRUE])
  PROVE  /\ RemoteGrows /\ Len(remote') = Len(remote) + 1 /\ remote'[Len(remote) + 1].row = i
         /\ Len(remote) + 1 \in DOMAIN remote'
<1>0. /\ remote \in Seq(RemoteSubs) /\ Len(remote) \in Nat /\ MaxSubs \in Nat /\ i \in 1..MaxSubs
      /\ DOMAIN remote = 1..Len(remote)
  BY SubLengths DEF SubRowsOK
<1> DEFINE r == [row |-> i, alive |-> TRUE]
<1>1. r \in RemoteSubs /\ r.row = i
  BY <1>0 DEF RemoteSubs
<1> HIDE DEF r
<1>2. /\ remote' \in Seq(RemoteSubs) /\ Len(remote') = Len(remote) + 1
      /\ \A g \in 1..Len(remote) : remote'[g] = remote[g]
      /\ remote'[Len(remote) + 1] = r
  BY <1>0, <1>1, AppendProperties DEF r
<1>3. DOMAIN remote' = 1..Len(remote')
  BY <1>2, LenProperties
<1>4. \A g \in DOMAIN remote' : remote'[g].row \in DOMAIN subs
  BY <1>0, <1>1, <1>2, <1>3 DEF SubRowsOK, RowsNameRemotes
<1>5. QED
  BY <1>0, <1>1, <1>2, <1>3, <1>4 DEF RemoteGrows

LEMMA RemoteDropped ==
  ASSUME SubRowsOK, NEW g \in DOMAIN remote, remote' = [remote EXCEPT ![g].alive = FALSE]
  PROVE  RemoteGrows
<1>0. /\ remote \in Seq(RemoteSubs) /\ Len(remote) \in Nat /\ Len(remote) <= MaxSubs /\ remote[g] \in RemoteSubs
      /\ DOMAIN remote = 1..Len(remote)
  BY SubLengths DEF SubRowsOK
<1>a. \A q \in RemoteSubs : [q EXCEPT !.alive = FALSE] \in RemoteSubs /\ [q EXCEPT !.alive = FALSE].row = q.row
  BY DEF RemoteSubs
<1>1. PICK r \in RemoteSubs : r = [remote[g] EXCEPT !.alive = FALSE] /\ r.row = remote[g].row
  BY <1>0, <1>a
<1>2. remote' = [remote EXCEPT ![g] = r] /\ g \in 1..Len(remote)
  BY <1>0, <1>1
<1>b. remote \in Seq(RemoteSubs) /\ g \in 1..Len(remote)
  BY <1>0, <1>2
<1>c. /\ [remote EXCEPT ![g] = r] \in Seq(RemoteSubs) /\ Len([remote EXCEPT ![g] = r]) = Len(remote)
      /\ \A h \in 1..Len(remote) : [remote EXCEPT ![g] = r][h] = IF h = g THEN r ELSE remote[h]
  BY <1>b, ExceptSeq
<1>3. /\ remote' \in Seq(RemoteSubs) /\ Len(remote') = Len(remote)
      /\ \A h \in 1..Len(remote) : remote'[h] = IF h = g THEN r ELSE remote[h]
  BY <1>2, <1>c
<1>4. DOMAIN remote' = DOMAIN remote
  BY <1>2
<1>5. QED
  BY <1>0, <1>1, <1>3, <1>4 DEF RemoteGrows, SubRowsOK, RowsNameRemotes

LEMMA SubStatusKinds ==
  /\ ActiveSub \subseteq SubStatuses /\ {"ERROR", "REMOVED", "EXPIRED"} \subseteq SubStatuses
  /\ {"ERROR", "REMOVED", "EXPIRED"} \cap ActiveSub = {}
  /\ {"ACTIVE", "CREATING", "RENEWAL_REQUIRED", "REAUTHORIZATION_REQUIRED"} \subseteq ActiveSub
BY DEF SubStatuses, ActiveSub

\* What each step does to the tables.
LEMMA SubRowsStep ==
  ASSUME SubRowsOK, KeepersKnowRows, SubNext
  PROVE  /\ RemoteGrows /\ (adopted => adopted')
         /\ subs' = subs \/ SubAdded \/ \E i \in DOMAIN subs, r \in SubRows : SubWritten(i, r)
<1> DEFINE Write == subs' = subs \/ SubAdded \/ \E i \in DOMAIN subs, r \in SubRows : SubWritten(i, r)
<1>0. /\ \A i \in DOMAIN subs : /\ subs[i] \in SubRows /\ subs[i].status \in SubStatuses
                                /\ subs[i].status \in ActiveSub => FitsSlot(i, "ACTIVE")
      /\ \A g \in DOMAIN remote : g \in 0..MaxSubs /\ remote[g].row \in DOMAIN subs
  BY SubLengths DEF SubRowsOK, RowsNameRemotes, FitsSlot, ActiveRows
<1>1. ASSUME NEW i \in DOMAIN subs, NEW st \in {"ERROR", "REMOVED", "EXPIRED"}, subs' = SetSub(i, st)
      PROVE  Write
  <2>1. FitsSlot(i, st) /\ st \in SubStatuses
    BY SubStatusKinds DEF FitsSlot
  <2>2. QED
    BY <1>1, <2>1, StatusWritten
<1>2. ASSUME NEW i \in DOMAIN subs, NEW r, r \in SubRows, subs' = [subs EXCEPT ![i] = r], r.gid = subs[i].gid,
             FitsSlot(i, r.status)
      PROVE  Write
  BY <1>2 DEF SubWritten
<1>3. ASSUME NEW w \in Keepers, KeeperStep(w)
      PROVE  RemoteGrows /\ (adopted => adopted') /\ Write
  <2>1. CASE (\E k \in EnsureKinds : EnsureClaim(w, k)) \/ EnsureEnds(w) \/ EnsureFails(w)
    BY <2>1, RemoteStays DEF EnsureClaim, EnsureEnds, EnsureFails
  <2>2. CASE EnsureReads(w)
    <3>1. RemoteGrows /\ (adopted => adopted')
      BY <2>2, RemoteStays DEF EnsureReads
    <3>2. subs' = subs \/ \E i \in DOMAIN subs, st \in {"ERROR", "REMOVED"} : subs' = SetSub(i, st)
      BY <2>2 DEF EnsureReads, ActiveRows
    <3>3. QED
      BY <1>1, <3>1, <3>2
  <2>3. CASE CreateRow(w)
    BY <2>3, RemoteStays DEF CreateRow, SubAdded
  <2>4. CASE PostSubscription(w)
    <3>1. kw[w].row \in DOMAIN subs /\ Len(remote) < MaxSubs
      BY <2>4 DEF PostSubscription, KeepersKnowRows
    <3>2. RemoteGrows
      BY <2>4, <3>1, RemoteStays, RemoteAdded DEF PostSubscription
    <3>3. Write
      BY <1>1, <2>4, <3>1 DEF PostSubscription
    <3>4. QED
      BY <2>4, <3>2, <3>3 DEF PostSubscription
  <2>5. CASE RecordSubscription(w)
    <3>1. RemoteGrows /\ (adopted => adopted')
      BY <2>5, RemoteStays DEF RecordSubscription
    <3>2. kw[w].row \in DOMAIN subs /\ kw[w].gid \in DOMAIN remote /\ remote[kw[w].gid].row = kw[w].row
      BY <2>5 DEF RecordSubscription, KeepersKnowRows
    <3>3. CASE FitsSlot(kw[w].row, "ACTIVE") /\ FitsId(kw[w].row, kw[w].gid)
      <4>1. kw[w].gid \in 0..MaxSubs /\ "ACTIVE" \in SubStatuses
        BY <1>0, <3>2, SubStatusKinds
      <4>a. PICK r : r = [status |-> "ACTIVE", gid |-> kw[w].gid, life |-> TRUE]
        OBVIOUS
      <4>2. r \in SubRows /\ r.gid = kw[w].gid /\ r.status = "ACTIVE"
        BY <4>1, <4>a DEF SubRows
      <4>3. subs' = [subs EXCEPT ![kw[w].row] = r]
        BY <2>5, <3>3, <4>a DEF RecordSubscription
      <4>4. SubWritten(kw[w].row, r)
        BY <3>2, <3>3, <4>2, <4>3 DEF SubWritten
      <4>5. QED
        BY <3>1, <3>2, <4>2, <4>4
    <3>4. CASE ~(FitsSlot(kw[w].row, "ACTIVE") /\ FitsId(kw[w].row, kw[w].gid))
      BY <2>5, <3>1, <3>4 DEF RecordSubscription
    <3>5. QED
      BY <3>3, <3>4
  <2>6. CASE Renew(w)
    <3>1. RemoteGrows /\ (adopted => adopted')
      BY <2>6, RemoteStays DEF Renew
    <3>2. kw[w].row \in DOMAIN subs
      BY <2>6 DEF Renew, KeepersKnowRows
    <3>3. CASE subs' = [subs EXCEPT ![kw[w].row].status = "ACTIVE", ![kw[w].row].life = TRUE]
                 /\ FitsSlot(kw[w].row, "ACTIVE")
      <4>1. subs[kw[w].row] \in SubRows /\ "ACTIVE" \in SubStatuses
        BY <1>0, <3>2, SubStatusKinds
      <4>2. PICK r : r = [subs[kw[w].row] EXCEPT !.status = "ACTIVE", !.life = TRUE]
        OBVIOUS
      <4>3. r \in SubRows /\ r.gid = subs[kw[w].row].gid /\ r.status = "ACTIVE"
        BY <4>1, <4>2 DEF SubRows
      <4>4. subs' = [subs EXCEPT ![kw[w].row] = r]
        BY <3>3, <4>2
      <4>5. FitsSlot(kw[w].row, r.status)
        BY <3>3, <4>3
      <4>6. Write
        BY <1>2, <3>2, <4>3, <4>4, <4>5
      <4>7. QED
        BY <3>1, <4>6
    <3>4. CASE subs' = SetSub(kw[w].row, "REMOVED")
      BY <1>1, <3>1, <3>2, <3>4
    <3>5. CASE subs' = SetSub(kw[w].row, "RENEWAL_REQUIRED") /\ FitsSlot(kw[w].row, "RENEWAL_REQUIRED")
      BY <3>1, <3>2, <3>5, StatusWritten, SubStatusKinds
    <3>6. QED
      BY <2>6, <3>1, <3>3, <3>4, <3>5 DEF Renew
  <2>7. QED
    BY <1>3, <2>1, <2>2, <2>3, <2>4, <2>5, <2>6 DEF KeeperStep
<1>4. ASSUME NEW w \in Keepers, KeeperDies(w)
      PROVE  RemoteGrows /\ (adopted => adopted') /\ Write
  BY <1>4, RemoteStays DEF KeeperDies
<1>5. ASSUME NEW i \in DOMAIN subs, SubAges(i)
      PROVE  RemoteGrows /\ (adopted => adopted') /\ Write
  <2>1. PICK r : r = [subs[i] EXCEPT !.life = FALSE]
    OBVIOUS
  <2>2. r \in SubRows /\ r.gid = subs[i].gid /\ r.status = subs[i].status
    BY <1>0, <2>1 DEF SubRows
  <2>3. subs' = [subs EXCEPT ![i] = r]
    BY <1>5, <2>1 DEF SubAges
  <2>4. FitsSlot(i, r.status)
    BY <1>0, <2>2 DEF FitsSlot, ActiveSub
  <2>5. QED
    BY <1>2, <1>5, <2>2, <2>3, <2>4, RemoteStays DEF SubAges
<1>6. ASSUME NEW i \in DOMAIN subs, Reauthorize(i)
      PROVE  RemoteGrows /\ (adopted => adopted') /\ Write
  BY <1>6, RemoteStays, StatusWritten, SubStatusKinds DEF Reauthorize
<1>7. ASSUME NEW g \in DOMAIN remote, GraphDrops(g)
      PROVE  RemoteGrows /\ (adopted => adopted') /\ Write
  BY <1>1, <1>7, RemoteDropped DEF GraphDrops
<1>8. ASSUME NEW g \in DOMAIN remote, Locate(g)
      PROVE  RemoteGrows /\ (adopted => adopted') /\ Write
  <2>1. PICK i \in DOMAIN subs : /\ i = remote[g].row /\ subs[i].status = "CREATING"
                                 /\ subs' = [subs EXCEPT ![i].gid = g]
    BY <1>0, <1>8 DEF Locate
  <2>2. PICK r : r = [subs[i] EXCEPT !.gid = g]
    OBVIOUS
  <2>3. r \in SubRows /\ r.gid = g /\ r.status = "CREATING"
    BY <1>0, <2>1, <2>2 DEF SubRows
  <2>4. subs' = [subs EXCEPT ![i] = r]
    BY <2>1, <2>2
  <2>5. FitsSlot(i, r.status) /\ FitsId(i, g)
    BY <1>0, <1>8, <2>1, <2>3 DEF FitsSlot, FitsId, ActiveSub, Locate
  <2>6. SubWritten(i, r)
    BY <2>1, <2>3, <2>4, <2>5 DEF SubWritten
  <2>7. QED
    BY <1>8, <2>3, <2>6, RemoteStays DEF Locate
<1>9. CASE EnsureMailboxSubscriptions \/ ScheduleEnsure
  BY <1>9, RemoteStays DEF EnsureMailboxSubscriptions, ScheduleEnsure
<1>10. CASE ReconcileSubscriptions
  <2>1. RemoteGrows /\ adopted'
    BY <1>10, RemoteStays DEF ReconcileSubscriptions
  <2>2. ASSUME NEW g \in DOMAIN remote, NEW i \in ActiveRows(subs), \A j \in DOMAIN subs : subs[j].gid # g,
               subs' = [subs EXCEPT ![i].gid = g, ![i].status = "ACTIVE"]
        PROVE  Write
    <3>0. i \in DOMAIN subs /\ subs[i] \in SubRows /\ g \in 0..MaxSubs /\ "ACTIVE" \in SubStatuses
          /\ FitsSlot(i, "ACTIVE")
      BY <1>0, SubStatusKinds DEF ActiveRows
    <3>1. PICK r : r = [subs[i] EXCEPT !.gid = g, !.status = "ACTIVE"]
      OBVIOUS
    <3>2. r \in SubRows /\ r.gid = g /\ r.status = "ACTIVE"
      BY <3>0, <3>1 DEF SubRows
    <3>3. subs' = [subs EXCEPT ![i] = r]
      BY <2>2, <3>1
    <3>4. SubWritten(i, r)
      BY <2>1, <2>2, <3>0, <3>2, <3>3 DEF SubWritten, FitsId
    <3>5. QED
      BY <3>0, <3>2, <3>4
  <2>3. ASSUME NEW i \in ActiveRows(subs), subs' = SetSub(i, "EXPIRED")
        PROVE  Write
    BY <1>1, <2>3 DEF ActiveRows
  <2>4. QED
    BY <1>10, <2>1, <2>2, <2>3 DEF ReconcileSubscriptions
<1>11. QED
  BY <1>3, <1>4, <1>5, <1>6, <1>7, <1>8, <1>9, <1>10 DEF SubNext

KeeperStates ==
  [pc : {"idle", "read", "insert", "post", "record", "renew", "done", "failed"},
   job : EnsureKinds, row : 0..MaxSubs, gid : 0..MaxSubs]

\* What the sessions of the keepers are.
KeeperIs(w, r) ==
  /\ r \in KeeperStates
  /\ r.pc \in {"post", "record", "renew"} => r.row \in DOMAIN subs'
  /\ r.pc \in {"record", "renew"} => r.gid \in DOMAIN remote'
  /\ r.pc = "record" => remote'[r.gid].row = r.row

LEMMA KeepersKeep ==
  ASSUME SubRowsOK, kw \in [Keepers -> KeeperStates], KeepersKnowRows, SubRowsOK',
         DOMAIN subs \subseteq DOMAIN subs', RemoteGrows, DOMAIN remote \subseteq DOMAIN remote', SubNext
  PROVE  kw' \in [Keepers -> KeeperStates] /\ KeepersKnowRows'
<1>0. /\ DOMAIN subs = 1..Len(subs) /\ DOMAIN remote = 1..Len(remote)
      /\ Len(subs) \in 0..MaxSubs /\ Len(remote) \in 0..MaxSubs /\ MaxSubs \in Nat
      /\ \A v \in Keepers : kw[v] \in KeeperStates
  BY SubLengths
<1>a. \A g \in DOMAIN remote : remote'[g].row = remote[g].row
  BY <1>0 DEF RemoteGrows
<1>1. ASSUME NEW v \in Keepers
      PROVE  KeeperIs(v, kw[v])
  BY <1>0, <1>a DEF KeeperIs, KeepersKnowRows
<1>2. ASSUME kw' = kw
      PROVE  kw' \in [Keepers -> KeeperStates] /\ KeepersKnowRows'
  BY <1>1, <1>2 DEF KeeperIs, KeepersKnowRows
<1>3. ASSUME NEW w \in Keepers, NEW r, kw' = [kw EXCEPT ![w] = r], KeeperIs(w, r)
      PROVE  kw' \in [Keepers -> KeeperStates] /\ KeepersKnowRows'
  <2>1. r \in KeeperStates
    BY <1>3 DEF KeeperIs
  <2>2. kw' \in [Keepers -> KeeperStates] /\ \A v \in Keepers : kw'[v] = IF v = w THEN r ELSE kw[v]
    BY <1>3, <2>1
  <2>3. \A v \in Keepers : KeeperIs(v, kw'[v])
    BY <1>1, <1>3, <2>2 DEF KeeperIs
  <2>4. QED
    BY <2>2, <2>3 DEF KeeperIs, KeepersKnowRows
<1>4. ASSUME NEW w \in Keepers, NEW pc \in {"insert", "done", "failed"}, kw' = [kw EXCEPT ![w].pc = pc]
      PROVE  kw' \in [Keepers -> KeeperStates] /\ KeepersKnowRows'
  <2>1. [kw[w] EXCEPT !.pc = pc] \in KeeperStates /\ [kw[w] EXCEPT !.pc = pc].pc = pc
    BY <1>0 DEF KeeperStates
  <2>2. kw' = [kw EXCEPT ![w] = [kw[w] EXCEPT !.pc = pc]]
    BY <1>4
  <2>3. KeeperIs(w, [kw[w] EXCEPT !.pc = pc])
    BY <2>1 DEF KeeperIs
  <2>4. QED
    BY <1>3, <2>2, <2>3
<1>5. ASSUME NEW w \in Keepers, kw' = [kw EXCEPT ![w] = IdleKeeper]
      PROVE  kw' \in [Keepers -> KeeperStates] /\ KeepersKnowRows'
  <2>1. IdleKeeper \in KeeperStates /\ IdleKeeper.pc = "idle"
    BY <1>0 DEF IdleKeeper, KeeperStates, EnsureKinds
  <2>2. KeeperIs(w, IdleKeeper)
    BY <2>1 DEF KeeperIs
  <2>3. QED
    BY <1>3, <1>5, <2>2
<1>6. ASSUME NEW w \in Keepers, KeeperStep(w)
      PROVE  kw' \in [Keepers -> KeeperStates] /\ KeepersKnowRows'
  <2>1. ASSUME NEW k \in EnsureKinds, EnsureClaim(w, k)
        PROVE  kw' \in [Keepers -> KeeperStates] /\ KeepersKnowRows'
    <3>1. PICK r : r = [kw[w] EXCEPT !.pc = "read", !.job = k]
      OBVIOUS
    <3>2. r \in KeeperStates /\ r.pc = "read"
      BY <1>0, <3>1 DEF KeeperStates
    <3>3. kw' = [kw EXCEPT ![w] = r]
      BY <2>1, <3>1 DEF EnsureClaim
    <3>4. KeeperIs(w, r)
      BY <3>2 DEF KeeperIs
    <3>5. QED
      BY <1>3, <3>3, <3>4
  <2>2. CASE EnsureReads(w)
    <3>1. ASSUME NEW i \in ActiveRows(subs), subs[i].gid # 0,
                 kw' = [kw EXCEPT ![w].pc = "renew", ![w].row = i, ![w].gid = subs[i].gid]
          PROVE  kw' \in [Keepers -> KeeperStates] /\ KeepersKnowRows'
      <4>1. i \in DOMAIN subs /\ i \in 0..MaxSubs /\ subs[i].gid \in DOMAIN remote /\ subs[i].gid \in 0..MaxSubs
        <5>1. i \in DOMAIN subs /\ i \in 1..Len(subs)
          BY <1>0, <3>1 DEF ActiveRows
        <5>2. subs[i].gid \in DOMAIN remote
          BY <3>1, <5>1, SubLengths
        <5>3. QED
          BY <1>0, <5>1, <5>2
      <4>2. PICK r : r = [kw[w] EXCEPT !.pc = "renew", !.row = i, !.gid = subs[i].gid]
        OBVIOUS
      <4>3. r \in KeeperStates /\ r.pc = "renew" /\ r.row = i /\ r.gid = subs[i].gid
        BY <1>0, <4>1, <4>2 DEF KeeperStates
      <4>4. kw' = [kw EXCEPT ![w] = r]
        BY <3>1, <4>2
      <4>5. KeeperIs(w, r)
        BY <4>1, <4>3 DEF KeeperIs
      <4>6. QED
        BY <1>3, <4>4, <4>5
    <3>2. QED
      BY <1>4, <2>2, <3>1 DEF EnsureReads
  <2>3. CASE EnsureEnds(w) \/ EnsureFails(w)
    BY <1>5, <2>3 DEF EnsureEnds, EnsureFails
  <2>4. CASE CreateRow(w)
    <3>1. CASE ActiveRows(subs) = {}
      <4>1. PICK r : r = [kw[w] EXCEPT !.pc = "post", !.row = Len(subs) + 1]
        OBVIOUS
      <4>2. Len(subs) + 1 \in 0..MaxSubs
        BY <1>0, <2>4 DEF CreateRow
      <4>3. r \in KeeperStates /\ r.pc = "post" /\ r.row = Len(subs) + 1
        BY <1>0, <4>1, <4>2 DEF KeeperStates
      <4>4. kw' = [kw EXCEPT ![w] = r]
        BY <2>4, <3>1, <4>1 DEF CreateRow
      <4>5. Len(subs) + 1 \in DOMAIN subs'
        <5>1. subs' = Append(subs, [status |-> "CREATING", gid |-> 0, life |-> TRUE])
          BY <2>4, <3>1 DEF CreateRow
        <5>2. [status |-> "CREATING", gid |-> 0, life |-> TRUE] \in SubRows /\ subs \in Seq(SubRows)
          BY <1>0 DEF SubRows, SubStatuses, ActiveSub, SubRowsOK
        <5>3. Len(subs') = Len(subs) + 1 /\ subs' \in Seq(SubRows)
          BY <5>1, <5>2, AppendProperties
        <5>4. DOMAIN subs' = 1..Len(subs')
          BY <5>3, LenProperties
        <5>5. QED
          BY <1>0, <5>3, <5>4
      <4>6. KeeperIs(w, r)
        BY <4>3, <4>5 DEF KeeperIs
      <4>7. QED
        BY <1>3, <4>4, <4>6
    <3>2. CASE ActiveRows(subs) # {}
      BY <1>4, <2>4, <3>2 DEF CreateRow
    <3>3. QED
      BY <3>1, <3>2
  <2>5. CASE PostSubscription(w)
    <3>0. kw[w].pc = "post" /\ kw[w].row \in DOMAIN subs /\ Len(remote) < MaxSubs
      BY <2>5 DEF PostSubscription, KeepersKnowRows
    <3>1. ASSUME remote' = Append(remote, [row |-> kw[w].row, alive |-> TRUE]),
                 kw' = [kw EXCEPT ![w].pc = "record", ![w].gid = Len(remote) + 1]
          PROVE  kw' \in [Keepers -> KeeperStates] /\ KeepersKnowRows'
      <4>1. PICK r : r = [kw[w] EXCEPT !.pc = "record", !.gid = Len(remote) + 1]
        OBVIOUS
      <4>2. Len(remote) + 1 \in 0..MaxSubs
        BY <1>0, <3>0
      <4>3. r \in KeeperStates /\ r.pc = "record" /\ r.gid = Len(remote) + 1 /\ r.row = kw[w].row
        BY <1>0, <4>1, <4>2 DEF KeeperStates
      <4>4. kw' = [kw EXCEPT ![w] = r]
        BY <3>1, <4>1
      <4>5. Len(remote) + 1 \in DOMAIN remote' /\ remote'[Len(remote) + 1].row = kw[w].row
        BY <3>0, <3>1, RemoteAdded
      <4>6. KeeperIs(w, r)
        BY <3>0, <4>3, <4>5 DEF KeeperIs
      <4>7. QED
        BY <1>3, <4>4, <4>6
    <3>2. QED
      BY <1>4, <2>5, <3>1 DEF PostSubscription
  <2>6. CASE RecordSubscription(w) \/ Renew(w)
    BY <1>4, <2>6 DEF RecordSubscription, Renew
  <2>7. QED
    BY <1>6, <2>1, <2>2, <2>3, <2>4, <2>5, <2>6 DEF KeeperStep
<1>7. ASSUME NEW w \in Keepers, KeeperDies(w)
      PROVE  kw' \in [Keepers -> KeeperStates] /\ KeepersKnowRows'
  BY <1>4, <1>7 DEF KeeperDies
<1>8. CASE ~\E w \in Keepers : KeeperStep(w) \/ KeeperDies(w)
  BY <1>2, <1>8 DEF SubNext, SubAges, Reauthorize, GraphDrops, Locate, EnsureMailboxSubscriptions, ScheduleEnsure,
     ReconcileSubscriptions
<1>9. QED
  BY <1>6, <1>7, <1>8

LEMMA EnsureJobsKeep ==
  ASSUME ejob \in [EnsureKinds -> EnsureJobs], EnsureHasAttempts, kw \in [Keepers -> KeeperStates], SubNext
  PROVE  ejob' \in [EnsureKinds -> EnsureJobs] /\ EnsureHasAttempts'
<1>0. /\ NoEnsureJob \in EnsureJobs /\ NewEnsureJob \in EnsureJobs /\ SubMax \in Nat \ {0}
      /\ NoEnsureJob.status = "NONE" /\ NewEnsureJob.attempts = 0
      /\ \A w \in Keepers : kw[w].job \in EnsureKinds
      /\ \A k \in EnsureKinds : ejob[k] \in EnsureJobs
  BY SubAssumption DEF NoEnsureJob, NewEnsureJob, EnsureJobs, KeeperStates
<1>1. ASSUME NEW k \in EnsureKinds, NEW r \in EnsureJobs, ejob' = [ejob EXCEPT ![k] = r],
             r.status = "PENDING" => r.attempts < SubMax
      PROVE  ejob' \in [EnsureKinds -> EnsureJobs] /\ EnsureHasAttempts'
  BY <1>1 DEF EnsureHasAttempts
<1>2. CASE ejob' = ejob
  BY <1>2 DEF EnsureHasAttempts
<1>3. ASSUME NEW k \in EnsureKinds, ejob' = WithEnsureJob(k)
      PROVE  ejob' \in [EnsureKinds -> EnsureJobs] /\ EnsureHasAttempts'
  <2>1. ejob' = [ejob EXCEPT ![k] = IF ejob[k].status = "NONE" THEN NewEnsureJob ELSE ejob[k]]
    BY <1>3 DEF WithEnsureJob
  <2>2. QED
    BY <1>0, <1>1, <2>1 DEF EnsureHasAttempts
<1>4. ASSUME NEW w \in Keepers, NEW k \in EnsureKinds, EnsureClaim(w, k)
      PROVE  ejob' \in [EnsureKinds -> EnsureJobs] /\ EnsureHasAttempts'
  <2>1. PICK r : r = [status |-> "RUNNING", attempts |-> ejob[k].attempts + 1]
    OBVIOUS
  <2>2. ejob[k].attempts + 1 \in 0..SubMax
    BY <1>0, <1>4 DEF EnsureHasAttempts, EnsureClaim, EnsureJobs
  <2>3. r \in EnsureJobs /\ r.status = "RUNNING"
    BY <2>1, <2>2 DEF EnsureJobs
  <2>4. ejob' = [ejob EXCEPT ![k] = r]
    BY <1>4, <2>1 DEF EnsureClaim
  <2>5. QED
    BY <1>1, <2>3, <2>4
<1>5. ASSUME NEW w \in Keepers, EnsureEnds(w)
      PROVE  ejob' \in [EnsureKinds -> EnsureJobs] /\ EnsureHasAttempts'
  BY <1>0, <1>1, <1>5 DEF EnsureEnds
<1>6. ASSUME NEW w \in Keepers, EnsureFails(w)
      PROVE  ejob' \in [EnsureKinds -> EnsureJobs] /\ EnsureHasAttempts'
  <2>1. PICK k \in EnsureKinds : k = kw[w].job
    BY <1>0
  <2>2. PICK r : r = IF ejob[k].attempts < SubMax THEN [ejob[k] EXCEPT !.status = "PENDING"] ELSE NoEnsureJob
    OBVIOUS
  <2>3. r \in EnsureJobs /\ (r.status = "PENDING" => r.attempts < SubMax)
    <3>1. CASE ejob[k].attempts < SubMax
      BY <1>0, <2>2, <3>1 DEF EnsureJobs
    <3>2. CASE ~(ejob[k].attempts < SubMax)
      BY <1>0, <2>2, <3>2
    <3>3. QED
      BY <3>1, <3>2
  <2>4. ejob' = [ejob EXCEPT ![k] = r]
    BY <1>6, <2>1, <2>2 DEF EnsureFails
  <2>5. QED
    BY <1>1, <2>3, <2>4
<1>7. "scheduled" \in EnsureKinds /\ "lifecycle" \in EnsureKinds
  BY DEF EnsureKinds
<1>8. ASSUME NEW w \in Keepers, KeeperStep(w) \/ KeeperDies(w)
      PROVE  \/ ejob' = ejob \/ (\E k \in EnsureKinds : EnsureClaim(w, k)) \/ EnsureEnds(w) \/ EnsureFails(w)
  BY <1>8 DEF KeeperStep, KeeperDies, EnsureReads, CreateRow, PostSubscription, RecordSubscription, Renew
<1>9. ASSUME ~\E w \in Keepers : KeeperStep(w) \/ KeeperDies(w)
      PROVE  ejob' = ejob \/ \E k \in {"scheduled", "lifecycle"} : ejob' = WithEnsureJob(k)
  BY <1>9 DEF SubNext, SubAges, Reauthorize, GraphDrops, Locate, EnsureMailboxSubscriptions, ScheduleEnsure,
     ReconcileSubscriptions
<1>10. QED
  BY <1>2, <1>3, <1>4, <1>5, <1>6, <1>7, <1>8, <1>9

LEMMA SubStarts == SubInit => SubIInv
<1> SUFFICES ASSUME SubInit PROVE SubIInv
  OBVIOUS
<1> USE DEF SubInit
<1>1. /\ subs \in Seq(SubRows) /\ Len(subs) = 0 /\ DOMAIN subs = {} /\ remote \in Seq(RemoteSubs)
      /\ Len(remote) = 0 /\ DOMAIN remote = {} /\ MaxSubs \in Nat /\ 0 \in 0..MaxSubFaults /\ 0 \in 0..MaxSubs
      /\ SubMax \in Nat \ {0}
  BY SubAssumption, EmptySeq
<1>2. ejob \in [EnsureKinds -> EnsureJobs] /\ EnsureHasAttempts
  BY <1>1 DEF NoEnsureJob, EnsureJobs, EnsureHasAttempts
<1>3. kw \in [Keepers -> KeeperStates] /\ \A w \in Keepers : kw[w].pc = "idle"
  BY <1>1 DEF IdleKeeper, KeeperStates, EnsureKinds
<1>4. ActiveRows(subs) = {}
  BY <1>1 DEF ActiveRows
<1>5. Cardinality(ActiveRows(subs)) <= 1
  BY <1>4, OneActiveRow
<1>a. Len(subs) <= MaxSubs /\ Len(remote) <= MaxSubs
  BY <1>1
<1>b. adopted \in BOOLEAN /\ subFaults \in 0..MaxSubFaults
  BY <1>1
<1>c. \A i, j \in DOMAIN subs : (subs[i].gid = subs[j].gid /\ subs[i].gid # 0) => i = j
  BY <1>1
<1>d. subs \in Seq(SubRows) /\ remote \in Seq(RemoteSubs)
  BY <1>1
<1> HIDE DEF SubInit
<1>6. SubTypeOK
  BY <1>2, <1>3, <1>5, <1>a, <1>b, <1>c, <1>d DEF SubTypeOK, KeeperStates
<1>7. RowsNameRemotes /\ KeepersKnowRows /\ OwnClientState
  BY <1>1, <1>3, <1>4 DEF RowsNameRemotes, KeepersKnowRows, OwnClientState
<1>8. QED
  BY <1>2, <1>6, <1>7 DEF SubIInv

LEMMA SubStays == SubIInv /\ [SubNext]_subVars => SubIInv'
<1>1. ASSUME SubIInv, SubNext
      PROVE  SubIInv'
  <2>1. SubRowsOK /\ kw \in [Keepers -> KeeperStates] /\ KeepersKnowRows
    BY <1>1 DEF SubIInv, SubTypeOK, SubRowsOK, KeeperStates
  <2>2. /\ RemoteGrows /\ (adopted => adopted')
        /\ subs' = subs \/ SubAdded \/ \E i \in DOMAIN subs, r \in SubRows : SubWritten(i, r)
    BY <1>1, <2>1, SubRowsStep
  <2>3. SubRowsOK' /\ DOMAIN subs \subseteq DOMAIN subs' /\ DOMAIN remote \subseteq DOMAIN remote'
    BY <2>1, <2>2, SubRowsKeep
  <2>4. kw' \in [Keepers -> KeeperStates] /\ KeepersKnowRows'
    BY <1>1, <2>1, <2>2, <2>3, KeepersKeep
  <2>5. ejob' \in [EnsureKinds -> EnsureJobs] /\ EnsureHasAttempts'
    BY <1>1, <2>1, EnsureJobsKeep DEF SubIInv, SubTypeOK
  <2>6. adopted' \in BOOLEAN /\ subFaults' \in 0..MaxSubFaults
    <3>1. adopted' \in {adopted, TRUE}
      BY <1>1 DEF SubNext, KeeperStep, KeeperDies, EnsureClaim, EnsureReads, EnsureEnds, CreateRow, PostSubscription,
         RecordSubscription, Renew, EnsureFails, SubAges, Reauthorize, GraphDrops, Locate, EnsureMailboxSubscriptions,
         ScheduleEnsure, ReconcileSubscriptions
    <3>2. subFaults' = subFaults \/ SubFault
      BY <1>1 DEF SubNext, KeeperStep, KeeperDies, EnsureClaim, EnsureReads, EnsureEnds, CreateRow, PostSubscription,
         RecordSubscription, Renew, EnsureFails, SubAges, Reauthorize, GraphDrops, Locate, EnsureMailboxSubscriptions,
         ScheduleEnsure, ReconcileSubscriptions
    <3>3. MaxSubFaults \in Nat /\ subFaults \in 0..MaxSubFaults /\ adopted \in BOOLEAN
      BY <1>1, SubAssumption DEF SubIInv, SubTypeOK
    <3>4. subFaults' \in 0..MaxSubFaults
      BY <3>2, <3>3 DEF SubFault
    <3>5. QED
      BY <3>1, <3>3, <3>4
  <2>7. Cardinality(ActiveRows(subs))' <= 1
    <3>1. \A i, j \in ActiveRows(subs') : i = j
      BY <2>3 DEF SubRowsOK, RowsNameRemotes, ActiveRows
    <3>2. QED
      BY <3>1, OneActiveRow DEF ActiveRows
  <2>8. QED
    BY <2>3, <2>4, <2>5, <2>6, <2>7 DEF SubIInv, SubTypeOK, SubRowsOK, KeeperStates
<1>2. ASSUME SubIInv, UNCHANGED subVars
      PROVE  SubIInv'
  BY <1>2 DEF subVars, SubIInv, SubTypeOK, RowsNameRemotes, KeepersKnowRows, EnsureHasAttempts, OwnClientState,
     ActiveRows
<1>3. QED
  BY <1>1, <1>2

(***************************************************************************)
(* The synchronisation: its inductive invariant                            *)
(***************************************************************************)

\* A round that has not fetched yet, and one that has; what it has still to apply.
Unfetched(w) == sw[w].upto = 0 /\ sw[w].todo = {} /\ sw[w].item = {}
Early(w) == sw[w].pc = "loaded" \/ (sw[w].pc = "fetch" /\ Unfetched(w))
Midway(w) == sw[w].pc \in {"page", "store"} \/ (sw[w].pc = "fetch" /\ ~Unfetched(w))
InPage(w, m) == sw[w].pc = "page" /\ \E b \in BOOLEAN : <<m, b>> \in sw[w].item
ToApply(w, m) == m \in sw[w].todo \/ InPage(w, m)

\* An email has a row exactly when it got its ingestion job; the checkpoint lies in the past.
RowsHaveJobs ==
  /\ \A m \in Msgs : rows[m] # "NONE" <=> m \in ingests
  /\ \A m \in inbox : changed[m] >= 1
  /\ sync.known => ~sync.rebase
  /\ sync.link <= Now
  /\ job.status = "PENDING" => job.attempts < SyncMax

\* The shape of a session, and what its page says of a message that has not changed since.
RoundShape(w) ==
  /\ sw[w].from <= Now /\ sw[w].upto <= Now
  /\ sw[w].pc \in {"idle", "loaded"} => Unfetched(w)
  /\ sw[w].pc = "store" => sw[w].todo = {}
  /\ sw[w].pc = "page" =>
       \E m \in Msgs, b \in BOOLEAN :
         sw[w].item = {<<m, b>>} /\ (changed[m] <= sw[w].upto => (b <=> m \in inbox))

\* What a round will have passed is known, or is still on one of its pages.
RoundCovers(w) ==
  /\ Early(w) /\ ~sw[w].base => \A m \in inbox : changed[m] <= sw[w].from => m \in ingests
  /\ Midway(w) => \A m \in inbox : changed[m] <= sw[w].upto => m \in ingests \/ ToApply(w, m)

\* The row of m says of the folder what the mailbox does.
RowIsTrue(m) ==
  /\ m \in inbox => rows[m] = "PRESENT"
  /\ m \notin inbox /\ ~rebased => rows[m] # "PRESENT"

\* Without a stall every row is true up to the checkpoint.
LinkIsTrue ==
  ~stalled /\ sync.known => \A m \in Msgs : changed[m] <= sync.link => RowIsTrue(m)

\* Without a stall one session works, from the checkpoint that is stored, and every row is true up
\* to where its round began unless the round has still to apply it.
RoundTells(w) ==
  ~stalled =>
    /\ sw[w].pc # "idle" => job.by = w
    /\ Early(w) \/ Midway(w) => IF sw[w].base THEN ~sync.known ELSE sync.known /\ sw[w].from = sync.link
    /\ Midway(w) =>
         \A m \in Msgs :
           /\ ~sw[w].base /\ ToApply(w, m) => changed[m] > sw[w].from
           /\ sw[w].base /\ ToApply(w, m) /\ changed[m] <= sw[w].upto => m \in inbox
           /\ ~ToApply(w, m) /\ changed[m] <= sw[w].upto => RowIsTrue(m)

SyncIInv ==
  /\ SyncTypeOK /\ RowsHaveJobs /\ CheckpointCoversMail /\ LinkIsTrue
  /\ \A w \in Syncers : RoundShape(w) /\ RoundCovers(w) /\ RoundTells(w)

SyncerStates ==
  [pc : {"idle", "loaded", "fetch", "page", "store", "invalid", "release", "failed"},
   base : BOOLEAN, from : 0..MaxChanges, upto : 0..MaxChanges,
   todo : SUBSET Msgs, item : SUBSET (Msgs \X BOOLEAN)]

(***************************************************************************)
(* Versions                                                                *)
(***************************************************************************)

LatestOf(f) == IF \E m \in Msgs : f[m] > 0
               THEN CHOOSE v \in {f[m] : m \in Msgs} : \A m \in Msgs : f[m] <= v ELSE 0

LEMMA LatestIsGreatest ==
  ASSUME NEW f \in [Msgs -> 0..MaxChanges]
  PROVE  /\ LatestOf(f) \in 0..MaxChanges /\ \A m \in Msgs : f[m] <= LatestOf(f)
         /\ LatestOf(f) = 0 \/ \E m \in Msgs : f[m] = LatestOf(f)
<1>0. MaxChanges \in Nat
  BY SyncAssumption
<1>1. CASE \E m \in Msgs : f[m] > 0
  <2>1. {f[m] : m \in Msgs} \subseteq 0..MaxChanges /\ {f[m] : m \in Msgs} # {}
    BY <1>1
  <2>2. \E v \in {f[m] : m \in Msgs} : \A u \in {f[m] : m \in Msgs} : u <= v
    BY <1>0, <2>1, GreatestNat
  <2>3. \E v \in {f[m] : m \in Msgs} : \A m \in Msgs : f[m] <= v
    BY <2>2
  <2>4. LatestOf(f) \in {f[m] : m \in Msgs} /\ \A m \in Msgs : f[m] <= LatestOf(f)
    BY <1>1, <2>3 DEF LatestOf
  <2>5. QED
    BY <2>1, <2>4
<1>2. CASE ~\E m \in Msgs : f[m] > 0
  <2>1. LatestOf(f) = 0
    BY <1>2 DEF LatestOf
  <2>2. \A m \in Msgs : f[m] <= 0
    BY <1>0, <1>2
  <2>3. QED
    BY <1>0, <2>1, <2>2
<1>3. QED
  BY <1>1, <1>2

\* Every change is at or before the last one, and the last one only gets later.
LEMMA NowIs ==
  ASSUME changed \in [Msgs -> 0..MaxChanges]
  PROVE  /\ Now \in 0..MaxChanges /\ Now \in Nat /\ \A m \in Msgs : changed[m] <= Now /\ changed[m] \in Nat
<1>1. Now = LatestOf(changed)
  BY DEF Now, LatestOf
<1>2. QED
  BY <1>1, LatestIsGreatest, SyncAssumption

LEMMA NowGrows ==
  ASSUME changed \in [Msgs -> 0..MaxChanges], changed' \in [Msgs -> 0..MaxChanges],
         \A m \in Msgs : changed[m] <= changed'[m]
  PROVE  /\ Now' \in 0..MaxChanges /\ Now <= Now' /\ \A m \in Msgs : changed'[m] <= Now'
<1>1. Now = LatestOf(changed) /\ Now' = LatestOf(changed')
  BY DEF Now, LatestOf
<1>2. MaxChanges \in Nat /\ \A m \in Msgs : changed[m] \in Nat /\ changed'[m] \in Nat
  BY SyncAssumption
<1>3. LatestOf(changed') \in 0..MaxChanges /\ \A m \in Msgs : changed'[m] <= LatestOf(changed')
  BY LatestIsGreatest
<1>4. LatestOf(changed) \in 0..MaxChanges /\ (LatestOf(changed) = 0 \/ \E m \in Msgs : changed[m] = LatestOf(changed))
  BY LatestIsGreatest
<1>5. LatestOf(changed) <= LatestOf(changed')
  BY <1>2, <1>3, <1>4
<1>6. QED
  BY <1>1, <1>3, <1>5

(***************************************************************************)
(* What the steps of a synchronisation do                                  *)
(***************************************************************************)

LEMMA SyncTypesAre ==
  SyncTypeOK <=>
    /\ inbox \subseteq Msgs /\ changed \in [Msgs -> 0..MaxChanges]
    /\ sync \in SyncStateRows
    /\ job \in SyncJobRows /\ (job.status = "RUNNING" <=> job.by # Nobody)
    /\ rows \in [Msgs -> MailboxRows] /\ ingests \subseteq Msgs
    /\ receipts \subseteq 1..MaxChanges
    /\ sw \in [Syncers -> SyncerStates]
    /\ rebased \in BOOLEAN /\ stalled \in BOOLEAN /\ syncFaults \in 0..MaxSyncFaults
BY DEF SyncTypeOK, SyncerStates

LEMMA SyncNumbers ==
  ASSUME SyncTypeOK, RowsHaveJobs, \A w \in Syncers : RoundShape(w)
  PROVE  /\ MaxChanges \in Nat /\ SyncMax \in Nat \ {0} /\ MaxSyncFaults \in Nat /\ Now \in Nat /\ Now \in 0..MaxChanges
         /\ \A m \in Msgs : changed[m] \in Nat /\ changed[m] <= Now
         /\ sync.link \in Nat /\ sync.link <= Now
         /\ \A w \in Syncers : /\ sw[w] \in SyncerStates /\ sw[w].from \in Nat /\ sw[w].upto \in Nat
                               /\ sw[w].from <= Now /\ sw[w].upto <= Now
<1>1. Now \in Nat /\ Now \in 0..MaxChanges /\ \A m \in Msgs : changed[m] \in Nat /\ changed[m] <= Now
  BY NowIs DEF SyncTypeOK
<1>2. \A w \in Syncers : sw[w] \in SyncerStates /\ sw[w].from <= Now /\ sw[w].upto <= Now
  BY SyncTypesAre DEF RoundShape
<1>3. \A w \in Syncers : sw[w].from \in Nat /\ sw[w].upto \in Nat
  BY <1>2, SyncAssumption DEF SyncerStates
<1>4. sync.link \in Nat /\ sync.link <= Now
  BY SyncAssumption DEF SyncTypeOK, SyncStateRows, RowsHaveJobs
<1>5. QED
  BY <1>1, <1>2, <1>3, <1>4, SyncAssumption

\* A change is later than all that sessions and the checkpoint know of.
LEMMA ChangeKeeps ==
  ASSUME SyncIInv, NEW m \in Msgs, NEW in \in BOOLEAN, MailboxChange(m, in)
  PROVE  SyncIInv'
<1>0. /\ SyncTypeOK /\ RowsHaveJobs /\ CheckpointCoversMail /\ LinkIsTrue
      /\ \A w \in Syncers : RoundShape(w) /\ RoundCovers(w) /\ RoundTells(w)
  BY DEF SyncIInv
<1>1. /\ MaxChanges \in Nat /\ Now \in Nat /\ \A x \in Msgs : changed[x] \in Nat /\ changed[x] <= Now
      /\ sync.link \in Nat /\ sync.link <= Now
      /\ \A w \in Syncers : sw[w].from \in Nat /\ sw[w].upto \in Nat /\ sw[w].from <= Now /\ sw[w].upto <= Now
  BY <1>0, SyncNumbers
<1>2. /\ changed' \in [Msgs -> 0..MaxChanges] /\ changed'[m] = Now + 1
      /\ \A x \in Msgs : x # m => changed'[x] = changed[x]
  BY <1>0, <1>1 DEF MailboxChange, SyncTypeOK
<1>3. \A x \in Msgs : changed'[x] \in Nat /\ changed[x] <= changed'[x]
  BY <1>1, <1>2
<1>4. Now' \in Nat /\ Now <= Now'
  BY <1>0, <1>1, <1>2, <1>3, NowGrows DEF SyncTypeOK
<1>5. inbox' \subseteq Msgs /\ \A x \in Msgs : x # m => (x \in inbox' <=> x \in inbox)
  BY <1>0 DEF MailboxChange, SyncTypeOK
<1>6. UNCHANGED <<sync, job, rows, ingests, receipts, sw, rebased, stalled, syncFaults>>
  BY DEF MailboxChange
<1>7. \A v : v \in Nat /\ v <= Now => v <= Now' /\ ~(changed'[m] <= v)
  BY <1>1, <1>2, <1>4
<1>8. \A x \in Msgs : x # m => (RowIsTrue(x)' <=> RowIsTrue(x))
  BY <1>5, <1>6 DEF RowIsTrue
<1>9. SyncTypeOK' /\ RowsHaveJobs'
  <2>1. SyncTypeOK'
    BY <1>0, <1>2, <1>5, <1>6 DEF SyncTypeOK
  <2>2. \A x \in inbox' : changed'[x] >= 1
    BY <1>0, <1>1, <1>2, <1>5 DEF RowsHaveJobs
  <2>3. QED
    BY <1>0, <1>1, <1>6, <1>7, <2>1, <2>2 DEF RowsHaveJobs
<1>10. CheckpointCoversMail'
  <2>1. ASSUME sync.known, NEW x \in inbox', changed'[x] \in 1..sync.link
        PROVE  x \in ingests
    <3>1. x # m
      BY <1>1, <1>7, <2>1
    <3>2. QED
      BY <1>0, <1>2, <1>5, <2>1, <3>1 DEF CheckpointCoversMail
  <2>2. QED
    BY <1>6, <2>1 DEF CheckpointCoversMail
<1>11. LinkIsTrue'
  <2>1. ASSUME ~stalled, sync.known, NEW x \in Msgs, changed'[x] <= sync.link
        PROVE  RowIsTrue(x)'
    <3>1. x # m
      BY <1>1, <1>7, <2>1
    <3>2. QED
      BY <1>0, <1>2, <1>8, <2>1, <3>1 DEF LinkIsTrue
  <2>2. QED
    BY <1>6, <2>1 DEF LinkIsTrue
<1>12. ASSUME NEW w \in Syncers
       PROVE  RoundShape(w)' /\ RoundCovers(w)' /\ RoundTells(w)'
  <2>0. RoundShape(w) /\ RoundCovers(w) /\ RoundTells(w)
    BY <1>0
  <2>1. /\ ~(changed'[m] <= sw[w].from) /\ ~(changed'[m] <= sw[w].upto)
        /\ sw[w].from <= Now' /\ sw[w].upto <= Now'
    BY <1>1, <1>7
  <2>a. /\ Unfetched(w)' <=> Unfetched(w)
        /\ Early(w)' <=> Early(w)
        /\ Midway(w)' <=> Midway(w)
        /\ \A x \in Msgs : ToApply(w, x)' <=> ToApply(w, x)
    BY <1>6 DEF Unfetched, Early, Midway, ToApply, InPage
  <2>2. RoundShape(w)'
    <3>1. ASSUME sw[w].pc = "page"
          PROVE  \E x \in Msgs, b \in BOOLEAN :
                    sw[w].item = {<<x, b>>} /\ (changed'[x] <= sw[w].upto => (b <=> x \in inbox'))
      <4>1. PICK x \in Msgs, b \in BOOLEAN :
                    sw[w].item = {<<x, b>>} /\ (changed[x] <= sw[w].upto => (b <=> x \in inbox))
        BY <2>0, <3>1 DEF RoundShape
      <4>2. changed'[x] <= sw[w].upto => (b <=> x \in inbox')
        BY <1>2, <1>5, <2>1, <4>1
      <4>3. QED
        BY <4>1, <4>2
    <3>2. QED
      BY <1>6, <2>0, <2>1, <2>a, <3>1 DEF RoundShape
  <2>3. RoundCovers(w)'
    <3>1. ASSUME Early(w), ~sw[w].base, NEW x \in inbox', changed'[x] <= sw[w].from
          PROVE  x \in ingests
      BY <1>2, <1>5, <2>0, <2>1, <3>1 DEF RoundCovers
    <3>2. ASSUME Midway(w), NEW x \in inbox', changed'[x] <= sw[w].upto
          PROVE  x \in ingests \/ ToApply(w, x)
      BY <1>2, <1>5, <2>0, <2>1, <3>2 DEF RoundCovers
    <3>3. QED
      BY <1>5, <1>6, <2>a, <3>1, <3>2 DEF RoundCovers
  <2>4. RoundTells(w)'
    <3> SUFFICES ASSUME ~stalled'
                 PROVE  RoundTells(w)'
      BY DEF RoundTells
    <3>0. ~stalled
      BY <1>6
    <3>1. ASSUME Midway(w), NEW x \in Msgs
          PROVE  /\ ~sw[w].base /\ ToApply(w, x) => changed'[x] > sw[w].from
                 /\ sw[w].base /\ ToApply(w, x) /\ changed'[x] <= sw[w].upto => x \in inbox'
                 /\ ~ToApply(w, x) /\ changed'[x] <= sw[w].upto => RowIsTrue(x)'
      <4>1. CASE x = m
        BY <1>1, <1>2, <2>1, <4>1
      <4>2. CASE x # m
        BY <1>2, <1>5, <1>8, <2>0, <3>0, <3>1, <4>2 DEF RoundTells
      <4>3. QED
        BY <4>1, <4>2
    <3>2. QED
      BY <1>6, <2>0, <2>a, <3>1 DEF RoundTells
  <2>5. QED
    BY <2>2, <2>3, <2>4
<1>13. QED
  BY <1>9, <1>10, <1>11, <1>12 DEF SyncIInv

\* Without a stall there is one session, so a step of w leaves the others where they are.
LEMMA SessionKeeps ==
  ASSUME SyncIInv, NEW w \in Syncers,
         inbox' = inbox, changed' = changed, ingests \subseteq ingests', stalled' = stalled,
         sw[w].pc # "idle" \/ job.by = Nobody,
         \A v \in Syncers : v # w => sw'[v] = sw[v],
         SyncTypeOK', RowsHaveJobs', CheckpointCoversMail', LinkIsTrue',
         RoundShape(w)', RoundCovers(w)', RoundTells(w)'
  PROVE  SyncIInv'
<1>0. Now' = Now
  <2>1. Now = LatestOf(changed) /\ Now' = LatestOf(changed')
    BY DEF Now, LatestOf
  <2>2. QED
    BY <2>1
<1>1. ASSUME NEW v \in Syncers, v # w
      PROVE  RoundShape(v)' /\ RoundCovers(v)' /\ RoundTells(v)'
  <2>0. RoundShape(v) /\ RoundCovers(v) /\ RoundTells(v) /\ RoundTells(w) /\ sw'[v] = sw[v]
    BY <1>1 DEF SyncIInv
  <2>1. /\ Unfetched(v)' <=> Unfetched(v)
        /\ Early(v)' <=> Early(v)
        /\ Midway(v)' <=> Midway(v)
        /\ \A x \in Msgs : ToApply(v, x)' <=> ToApply(v, x)
    BY <2>0 DEF Unfetched, Early, Midway, ToApply, InPage
  <2>2. RoundShape(v)'
    BY <1>0, <2>0, <2>1 DEF RoundShape
  <2>3. RoundCovers(v)'
    <3>1. inbox \subseteq Msgs
      BY DEF SyncIInv, SyncTypeOK
    <3>2. QED
      BY <2>0, <2>1, <3>1 DEF RoundCovers
  <2>4. ASSUME ~stalled
        PROVE  sw[v].pc = "idle"
    <3>1. Nobody # v
      BY SyncAssumption DEF Nobody
    <3>2. QED
      BY <1>1, <2>0, <2>4, <3>1 DEF RoundTells
  <2>5. RoundTells(v)'
    BY <2>0, <2>4 DEF RoundTells, Early, Midway
  <2>6. QED
    BY <2>2, <2>3, <2>5
<1>2. QED
  BY <1>1 DEF SyncIInv

\* A step that touches no row and leaves the checkpoint.
LEMMA QuietStep ==
  ASSUME SyncIInv, inbox' = inbox, changed' = changed, rows' = rows, ingests' = ingests, stalled' = stalled,
         rebased => rebased', sync'.known = sync.known, sync'.link = sync.link, sync'.rebase = sync.rebase,
         job'.status = "PENDING" => job'.attempts < SyncMax
  PROVE  RowsHaveJobs' /\ CheckpointCoversMail' /\ LinkIsTrue' /\ Now' = Now
<1>0. Now' = Now
  <2>1. Now = LatestOf(changed) /\ Now' = LatestOf(changed')
    BY DEF Now, LatestOf
  <2>2. QED
    BY <2>1
<1>1. RowsHaveJobs /\ CheckpointCoversMail /\ LinkIsTrue
  BY DEF SyncIInv
<1>2. \A m \in Msgs : RowIsTrue(m) => RowIsTrue(m)'
  BY DEF RowIsTrue
<1>3. RowsHaveJobs' /\ CheckpointCoversMail'
  BY <1>0, <1>1 DEF RowsHaveJobs, CheckpointCoversMail
<1>4. LinkIsTrue'
  BY <1>1, <1>2 DEF LinkIsTrue
<1>5. QED
  BY <1>0, <1>3, <1>4

\* A session that is over claims nothing.
LEMMA SessionEnds ==
  ASSUME SyncIInv, NEW w \in Syncers, changed' = changed,
         \/ sw'[w] = IdleSyncer
         \/ /\ sw'[w] = [sw[w] EXCEPT !.pc = "release"] \/ sw'[w] = [sw[w] EXCEPT !.pc = "failed"]
               \/ sw'[w] = [sw[w] EXCEPT !.pc = "invalid"]
            /\ sw[w].pc # "idle" /\ job'.by = job.by /\ stalled' = stalled
  PROVE  RoundShape(w)' /\ RoundCovers(w)' /\ RoundTells(w)'
<1>0. Now' = Now
  <2>1. Now = LatestOf(changed) /\ Now' = LatestOf(changed')
    BY DEF Now, LatestOf
  <2>2. QED
    BY <2>1
<1>1. RoundShape(w) /\ RoundTells(w) /\ sw[w] \in SyncerStates /\ Now \in Nat
  BY SyncNumbers DEF SyncIInv
<1>2. CASE sw'[w] = IdleSyncer
  BY <1>0, <1>1, <1>2 DEF IdleSyncer, RoundShape, RoundCovers, RoundTells, Unfetched, Early, Midway
<1>3. CASE sw'[w] # IdleSyncer
  <2>1. /\ sw'[w].pc \in {"release", "failed", "invalid"} /\ sw'[w].from = sw[w].from /\ sw'[w].upto = sw[w].upto
        /\ sw[w].pc # "idle" /\ job'.by = job.by /\ stalled' = stalled
    BY <1>1, <1>3 DEF SyncerStates
  <2>2. QED
    BY <1>0, <1>1, <2>1 DEF RoundShape, RoundCovers, RoundTells, Early, Midway
<1>4. QED
  BY <1>2, <1>3

\* The queue: a request is coalesced into the active job, a failed one is retried within its limit.
LEMMA SyncJobsAre ==
  ASSUME NEW j \in SyncJobRows
  PROVE  /\ WithSyncJob(j) \in SyncJobRows
         /\ j.status # "NONE" => WithSyncJob(j) = j
         /\ j.status = "NONE" => WithSyncJob(j).status = "PENDING" /\ WithSyncJob(j).attempts = 0
                                 /\ WithSyncJob(j).by = Nobody
         /\ Retried(j) \in SyncJobRows /\ Retried(j).by = Nobody /\ Retried(j).status # "RUNNING"
         /\ Retried(j).status = "PENDING" => Retried(j).attempts < SyncMax
         /\ NoSyncJob \in SyncJobRows /\ NoSyncJob.by = Nobody /\ NoSyncJob.status = "NONE"
<1>1. 0 \in 0..SyncMax
  BY SyncAssumption
<1>2. NoSyncJob \in SyncJobRows /\ NoSyncJob.by = Nobody /\ NoSyncJob.status = "NONE"
  BY <1>1 DEF NoSyncJob, SyncJobRows
<1>3. PICK r : r = [NoSyncJob EXCEPT !.status = "PENDING"]
  OBVIOUS
<1>4. r \in SyncJobRows /\ r.status = "PENDING" /\ r.attempts = 0 /\ r.by = Nobody
  BY <1>1, <1>3 DEF NoSyncJob, SyncJobRows
<1>5. PICK q : q = [j EXCEPT !.status = "PENDING", !.by = Nobody]
  OBVIOUS
<1>6. q \in SyncJobRows /\ q.status = "PENDING" /\ q.attempts = j.attempts /\ q.by = Nobody
  BY <1>5 DEF SyncJobRows
<1>7. QED
  BY <1>2, <1>3, <1>4, <1>5, <1>6 DEF WithSyncJob, Retried

\* A notification or the reconciliation asks for a round.
LEMMA RequestKeeps ==
  ASSUME SyncIInv, (\E n \in 1..MaxChanges : Notify(n)) \/ ScheduleSync
  PROVE  SyncIInv'
<1>0. /\ inbox' = inbox /\ changed' = changed /\ rows' = rows /\ ingests' = ingests /\ stalled' = stalled
      /\ rebased' = rebased /\ sync' = sync /\ sw' = sw /\ job' = WithSyncJob(job) /\ syncFaults' = syncFaults
      /\ receipts \subseteq 1..MaxChanges => receipts' \subseteq 1..MaxChanges
  BY DEF Notify, ScheduleSync
<1>1. /\ SyncTypeOK /\ RowsHaveJobs /\ job \in SyncJobRows /\ (job.status = "RUNNING" <=> job.by # Nobody)
      /\ receipts \subseteq 1..MaxChanges
  BY DEF SyncIInv, SyncTypeOK
<1>2. /\ job' \in SyncJobRows /\ job'.by = job.by /\ (job'.status = "RUNNING" <=> job'.by # Nobody)
      /\ job'.status = "PENDING" => job'.attempts < SyncMax
  BY <1>0, <1>1, SyncJobsAre, SyncAssumption DEF RowsHaveJobs
<1>3. SyncTypeOK'
  BY <1>0, <1>1, <1>2 DEF SyncTypeOK
<1>4. RowsHaveJobs' /\ CheckpointCoversMail' /\ LinkIsTrue' /\ Now' = Now
  BY <1>0, <1>2, QuietStep
<1>5. ASSUME NEW w \in Syncers
      PROVE  RoundShape(w)' /\ RoundCovers(w)' /\ RoundTells(w)'
  <2>1. RoundShape(w) /\ RoundCovers(w) /\ RoundTells(w)
    BY DEF SyncIInv
  <2>2. /\ Unfetched(w)' <=> Unfetched(w)
        /\ Early(w)' <=> Early(w)
        /\ Midway(w)' <=> Midway(w)
        /\ \A x \in Msgs : (ToApply(w, x)' <=> ToApply(w, x)) /\ (RowIsTrue(x)' <=> RowIsTrue(x))
    BY <1>0 DEF Unfetched, Early, Midway, ToApply, InPage, RowIsTrue
  <2>3. RoundShape(w)'
    BY <1>0, <1>4, <2>1, <2>2 DEF RoundShape
  <2>4. RoundCovers(w)'
    <3>1. inbox \subseteq Msgs
      BY <1>1 DEF SyncTypeOK
    <3>2. QED
      BY <1>0, <2>1, <2>2, <3>1 DEF RoundCovers
  <2>5. RoundTells(w)'
    BY <1>0, <1>2, <2>1, <2>2 DEF RoundTells
  <2>6. QED
    BY <2>3, <2>4, <2>5
<1>6. QED
  BY <1>3, <1>4, <1>5 DEF SyncIInv

\* A session ends or gives up: nothing it did not store counts.
LEMMA EndKeeps ==
  ASSUME SyncIInv, NEW w \in Syncers,
         \/ SyncLeaseHeld(w) \/ RejectToken(w) \/ RoundFails(w) \/ RoundEnds(w) \/ RoundFailed(w) \/ SyncerDies(w)
  PROVE  SyncIInv'
<1>0. /\ inbox' = inbox /\ changed' = changed /\ rows' = rows /\ ingests' = ingests /\ stalled' = stalled
      /\ rebased' = rebased /\ receipts' = receipts /\ sw[w].pc # "idle"
      /\ sync' \in {sync, Released(w)}
      /\ job' \in {job, NoSyncJob, Retried(job)}
      /\ syncFaults' \in {syncFaults, syncFaults + 1} /\ (syncFaults' # syncFaults => syncFaults < MaxSyncFaults)
  BY DEF SyncLeaseHeld, RejectToken, RoundFails, RoundEnds, RoundFailed, SyncerDies, SyncFault
<1>1. /\ SyncTypeOK /\ RowsHaveJobs /\ job \in SyncJobRows /\ (job.status = "RUNNING" <=> job.by # Nobody)
      /\ sync \in SyncStateRows /\ sw \in [Syncers -> SyncerStates] /\ syncFaults \in 0..MaxSyncFaults
  BY SyncTypesAre DEF SyncIInv
<1>2. /\ \A v \in Syncers : v # w => sw'[v] = sw[v]
      /\ sw' \in [Syncers -> SyncerStates]
      /\ \/ sw'[w] = IdleSyncer
         \/ /\ sw'[w] = [sw[w] EXCEPT !.pc = "release"] \/ sw'[w] = [sw[w] EXCEPT !.pc = "failed"]
               \/ sw'[w] = [sw[w] EXCEPT !.pc = "invalid"]
            /\ job' = job
  <2>1. CASE sw' = [sw EXCEPT ![w] = IdleSyncer]
    <3>1. IdleSyncer \in SyncerStates
      <4>1. 0 \in 0..MaxChanges
        BY SyncAssumption
      <4>2. QED
        BY <4>1 DEF IdleSyncer, SyncerStates
    <3>2. QED
      BY <1>1, <2>1, <3>1
  <2>2. CASE SyncLeaseHeld(w) \/ RejectToken(w) \/ RoundFails(w)
    <3>1. PICK pc \in {"failed", "invalid"} : sw' = [sw EXCEPT ![w].pc = pc] /\ job' = job
      BY <2>2 DEF SyncLeaseHeld, RejectToken, RoundFails, SyncGoTo
    <3>2. [sw[w] EXCEPT !.pc = pc] \in SyncerStates
      BY <1>1 DEF SyncerStates
    <3>3. sw'[w] = [sw[w] EXCEPT !.pc = pc]
      BY <1>1, <3>1
    <3>4. QED
      BY <1>1, <3>1, <3>2, <3>3
  <2>3. QED
    BY <2>1, <2>2 DEF RoundEnds, RoundFailed, SyncerDies
<1>3. /\ sync' \in SyncStateRows /\ sync'.known = sync.known /\ sync'.link = sync.link /\ sync'.rebase = sync.rebase
  <2>1. PICK r : r = Released(w)
    OBVIOUS
  <2>2. r \in SyncStateRows /\ r.known = sync.known /\ r.link = sync.link /\ r.rebase = sync.rebase
    BY <1>1, <2>1 DEF Released, SyncStateRows
  <2>3. QED
    BY <1>0, <1>1, <2>1, <2>2
<1>4. /\ job' \in SyncJobRows /\ (job'.status = "RUNNING" <=> job'.by # Nobody)
      /\ job'.status = "PENDING" => job'.attempts < SyncMax
  BY <1>0, <1>1, SyncJobsAre DEF RowsHaveJobs
<1>5. SyncTypeOK'
  <2>1. syncFaults' \in 0..MaxSyncFaults
    BY <1>0, <1>1, SyncAssumption
  <2>2. QED
    BY <1>0, <1>1, <1>2, <1>3, <1>4, <2>1, SyncTypesAre DEF SyncTypeOK, SyncerStates
<1>6. RowsHaveJobs' /\ CheckpointCoversMail' /\ LinkIsTrue'
  BY <1>0, <1>3, <1>4, QuietStep
<1>7. RoundShape(w)' /\ RoundCovers(w)' /\ RoundTells(w)'
  BY <1>0, <1>2, SessionEnds
<1>8. QED
  BY <1>0, <1>2, <1>5, <1>6, <1>7, SessionKeeps

\* A session outlives its leases: from here on only what does not depend on one session is claimed.
LEMMA StallKeeps ==
  ASSUME SyncIInv, NEW w \in Syncers, SyncerStalls(w)
  PROVE  SyncIInv'
<1>0. /\ inbox' = inbox /\ changed' = changed /\ rows' = rows /\ ingests' = ingests /\ stalled' = TRUE
      /\ rebased' = rebased /\ receipts' = receipts /\ sw' = sw /\ sync' = Released(w) /\ job' = Retried(job)
      /\ syncFaults' = syncFaults + 1 /\ syncFaults < MaxSyncFaults
  BY DEF SyncerStalls, SyncFault
<1>1. /\ SyncTypeOK /\ RowsHaveJobs /\ CheckpointCoversMail /\ job \in SyncJobRows /\ sync \in SyncStateRows
      /\ syncFaults \in 0..MaxSyncFaults
  BY DEF SyncIInv, SyncTypeOK
<1>2. sync' \in SyncStateRows /\ sync'.known = sync.known /\ sync'.link = sync.link /\ sync'.rebase = sync.rebase
  BY <1>0, <1>1 DEF Released, SyncStateRows
<1>3. /\ job' \in SyncJobRows /\ (job'.status = "RUNNING" <=> job'.by # Nobody)
      /\ job'.status = "PENDING" => job'.attempts < SyncMax
  BY <1>0, <1>1, SyncJobsAre
<1>4. SyncTypeOK'
  <2>1. syncFaults' \in 0..MaxSyncFaults
    BY <1>0, <1>1, SyncAssumption
  <2>2. QED
    BY <1>0, <1>1, <1>2, <1>3, <2>1 DEF SyncTypeOK
<1>5. Now' = Now
  <2>1. Now = LatestOf(changed) /\ Now' = LatestOf(changed')
    BY DEF Now, LatestOf
  <2>2. QED
    BY <1>0, <2>1
<1>6. RowsHaveJobs' /\ CheckpointCoversMail' /\ LinkIsTrue'
  BY <1>0, <1>1, <1>2, <1>3, <1>5 DEF RowsHaveJobs, CheckpointCoversMail, LinkIsTrue
<1>7. ASSUME NEW v \in Syncers
      PROVE  RoundShape(v)' /\ RoundCovers(v)' /\ RoundTells(v)'
  <2>1. RoundShape(v) /\ RoundCovers(v) /\ inbox \subseteq Msgs
    BY DEF SyncIInv, SyncTypeOK
  <2>2. /\ Unfetched(v)' <=> Unfetched(v)
        /\ Early(v)' <=> Early(v)
        /\ Midway(v)' <=> Midway(v)
        /\ \A x \in Msgs : ToApply(v, x)' <=> ToApply(v, x)
    BY <1>0 DEF Unfetched, Early, Midway, ToApply, InPage
  <2>3. RoundShape(v)'
    BY <1>0, <1>5, <2>1, <2>2 DEF RoundShape
  <2>4. RoundCovers(v)'
    BY <1>0, <2>1, <2>2 DEF RoundCovers
  <2>5. RoundTells(v)'
    BY <1>0 DEF RoundTells
  <2>6. QED
    BY <2>3, <2>4, <2>5
<1>8. QED
  BY <1>4, <1>6, <1>7 DEF SyncIInv

\* A round begins from the checkpoint the session loads, and takes the folder lease later.
LEMMA BeginKeeps ==
  ASSUME SyncIInv, NEW w \in Syncers, SyncClaim(w) \/ AcquireSyncLease(w)
  PROVE  SyncIInv'
<1>0. /\ inbox' = inbox /\ changed' = changed /\ rows' = rows /\ ingests' = ingests /\ stalled' = stalled
      /\ rebased' = rebased /\ receipts' = receipts /\ syncFaults' = syncFaults
  BY DEF SyncClaim, AcquireSyncLease
<1>1. /\ SyncTypeOK /\ RowsHaveJobs /\ CheckpointCoversMail /\ job \in SyncJobRows
      /\ (job.status = "RUNNING" <=> job.by # Nobody)
      /\ sync \in SyncStateRows /\ sw \in [Syncers -> SyncerStates] /\ sw[w] \in SyncerStates
      /\ RoundShape(w) /\ RoundCovers(w) /\ RoundTells(w) /\ inbox \subseteq Msgs
  BY SyncTypesAre DEF SyncIInv
<1>2. /\ MaxChanges \in Nat /\ SyncMax \in Nat /\ Now \in Nat
      /\ sync.link \in Nat /\ sync.link <= Now /\ \A m \in Msgs : changed[m] \in Nat
  BY SyncNumbers DEF SyncIInv
<1>3. CASE SyncClaim(w)
  <2>1. PICK r : r = [sw[w] EXCEPT !.pc = "loaded", !.base = ~sync.known \/ sync.rebase, !.from = sync.link]
    OBVIOUS
  <2>2. sw'[w] = r /\ sw' = [sw EXCEPT ![w] = r]
    BY <1>1, <1>3, <2>1 DEF SyncClaim
  <2>3. /\ r \in SyncerStates /\ r.pc = "loaded" /\ (r.base <=> ~sync.known \/ sync.rebase) /\ r.from = sync.link
        /\ r.upto = sw[w].upto /\ r.todo = sw[w].todo /\ r.item = sw[w].item
    BY <1>1, <2>1 DEF SyncerStates, SyncStateRows
  <2>4. job' \in SyncJobRows /\ job'.status = "RUNNING" /\ job'.by = w
    <3>1. job.attempts + 1 \in 0..SyncMax
      BY <1>1, <1>2, <1>3 DEF SyncClaim, RowsHaveJobs, SyncJobRows
    <3>2. QED
      BY <1>3, <3>1 DEF SyncClaim, SyncJobRows
  <2>5. sync' = sync /\ w # Nobody /\ job.by = Nobody /\ sw[w].pc = "idle"
    BY <1>1, <1>3, SyncAssumption DEF SyncClaim, Nobody
  <2>6. \A v \in Syncers : v # w => sw'[v] = sw[v]
    BY <1>1, <2>2
  <2>7. SyncTypeOK'
    BY <1>0, <1>1, <2>2, <2>3, <2>4, <2>5 DEF SyncTypeOK, SyncerStates
  <2>8. RowsHaveJobs' /\ CheckpointCoversMail' /\ LinkIsTrue' /\ Now' = Now
    BY <1>0, <2>4, <2>5, QuietStep
  <2>9. RoundShape(w)' /\ Early(w)' /\ ~Midway(w)'
    BY <1>1, <1>2, <2>2, <2>3, <2>5, <2>8 DEF RoundShape, Unfetched, Early, Midway
  <2>10. RoundCovers(w)'
    <3>1. ASSUME ~r.base, NEW m \in inbox, changed[m] <= sync.link
          PROVE  m \in ingests
      <4>1. sync.known /\ changed[m] \in 1..sync.link
        BY <1>1, <1>2, <2>3, <3>1 DEF RowsHaveJobs
      <4>2. QED
        BY <1>1, <4>1 DEF CheckpointCoversMail
    <3>2. QED
      BY <1>0, <2>2, <2>3, <2>9, <3>1 DEF RoundCovers
  <2>11. RoundTells(w)'
    <3>1. r.base <=> ~sync.known
      BY <1>1, <2>3 DEF RowsHaveJobs
    <3>2. QED
      BY <2>2, <2>3, <2>4, <2>5, <2>9, <3>1 DEF RoundTells
  <2>12. QED
    BY <1>0, <2>5, <2>6, <2>7, <2>8, <2>9, <2>10, <2>11, SessionKeeps
<1>4. CASE AcquireSyncLease(w)
  <2>1. PICK r : r = [sw[w] EXCEPT !.pc = "fetch"]
    OBVIOUS
  <2>2. sw'[w] = r /\ sw' = [sw EXCEPT ![w] = r] /\ sw[w].pc = "loaded" /\ job' = job
    BY <1>1, <1>4, <2>1 DEF AcquireSyncLease, SyncGoTo
  <2>3. /\ r \in SyncerStates /\ r.pc = "fetch" /\ r.base = sw[w].base /\ r.from = sw[w].from
        /\ r.upto = sw[w].upto /\ r.todo = sw[w].todo /\ r.item = sw[w].item
    BY <1>1, <2>1 DEF SyncerStates
  <2>4. sync' \in SyncStateRows /\ sync'.known = sync.known /\ sync'.link = sync.link /\ sync'.rebase = sync.rebase
    BY <1>1, <1>4 DEF AcquireSyncLease, SyncStateRows
  <2>5. \A v \in Syncers : v # w => sw'[v] = sw[v]
    BY <1>1, <2>2
  <2>6. SyncTypeOK'
    BY <1>0, <1>1, <2>2, <2>3, <2>4 DEF SyncTypeOK, SyncerStates
  <2>7. RowsHaveJobs' /\ CheckpointCoversMail' /\ LinkIsTrue' /\ Now' = Now
    BY <1>0, <1>1, <2>2, <2>4, QuietStep DEF RowsHaveJobs
  <2>8. RoundShape(w)' /\ Early(w) /\ Early(w)' /\ ~Midway(w)'
    BY <1>1, <1>2, <2>2, <2>3, <2>7 DEF RoundShape, Unfetched, Early, Midway
  <2>9. RoundCovers(w)'
    BY <1>0, <1>1, <2>2, <2>3, <2>8 DEF RoundCovers
  <2>10. RoundTells(w)'
    BY <1>0, <1>1, <2>2, <2>3, <2>4, <2>8 DEF RoundTells
  <2>11. QED
    BY <1>0, <2>2, <2>5, <2>6, <2>7, <2>8, <2>9, <2>10, SessionKeeps
<1>5. QED
  BY <1>3, <1>4

\* A page is fetched: the first fixes what the round will report and up to which version.
LEMMA FetchKeeps ==
  ASSUME SyncIInv, NEW w \in Syncers, FetchPage(w)
  PROVE  SyncIInv'
<1>0. /\ inbox' = inbox /\ changed' = changed /\ rows' = rows /\ ingests' = ingests /\ stalled' = stalled
      /\ receipts' = receipts /\ syncFaults' = syncFaults /\ sync' = sync /\ job' = job /\ sw[w].pc = "fetch"
      /\ rebased' = (rebased \/ (Unfetched(w) /\ sw[w].base /\ ingests # {}))
  BY DEF FetchPage, Unfetched
<1>1. /\ SyncTypeOK /\ RowsHaveJobs /\ LinkIsTrue /\ sw \in [Syncers -> SyncerStates] /\ sw[w] \in SyncerStates
      /\ RoundShape(w) /\ RoundCovers(w) /\ RoundTells(w) /\ inbox \subseteq Msgs
      /\ rebased \in BOOLEAN /\ sw[w].base \in BOOLEAN
  BY SyncTypesAre DEF SyncIInv, SyncerStates
<1>2. /\ MaxChanges \in Nat /\ Now \in Nat /\ Now \in 0..MaxChanges /\ \A m \in Msgs : changed[m] \in Nat
      /\ sw[w].from \in Nat /\ sw[w].upto \in Nat /\ sw[w].from <= Now /\ sw[w].upto <= Now
  BY SyncNumbers DEF SyncIInv
<1>3. PICK todo : todo = IF Unfetched(w) THEN Reported(sw[w].base, sw[w].from) ELSE sw[w].todo
  OBVIOUS
<1>4. PICK upto : upto = IF Unfetched(w) THEN Now ELSE sw[w].upto
  OBVIOUS
<1>5. /\ todo \subseteq Msgs /\ upto \in Nat /\ upto \in 0..MaxChanges /\ upto <= Now
  BY <1>1, <1>2, <1>3, <1>4 DEF Reported, SyncerStates
<1>6. PICK r : /\ sw' = [sw EXCEPT ![w] = r]
               /\ \/ todo = {} /\ r = [sw[w] EXCEPT !.pc = "store", !.upto = upto]
                  \/ \E m \in todo, b \in BOOLEAN :
                       /\ b <=> m \in inbox
                       /\ r = [sw[w] EXCEPT !.pc = "page", !.upto = upto, !.todo = todo \ {m}, !.item = {<<m, b>>}]
  <2>1. \/ todo = {} /\ sw' = [sw EXCEPT ![w].pc = "store", ![w].upto = upto]
        \/ \E m \in todo :
             sw' = [sw EXCEPT ![w].pc = "page", ![w].upto = upto, ![w].todo = todo \ {m},
                              ![w].item = {<<m, m \in inbox>>}]
    BY <1>3, <1>4 DEF FetchPage, Unfetched
  <2>2. CASE todo = {} /\ sw' = [sw EXCEPT ![w].pc = "store", ![w].upto = upto]
    <3>1. PICK q : q = [sw[w] EXCEPT !.pc = "store", !.upto = upto]
      OBVIOUS
    <3>2. sw' = [sw EXCEPT ![w] = q]
      BY <1>1, <2>2, <3>1
    <3>3. QED
      BY <2>2, <3>1, <3>2
  <2>3. CASE \E m \in todo :
               sw' = [sw EXCEPT ![w].pc = "page", ![w].upto = upto, ![w].todo = todo \ {m},
                                ![w].item = {<<m, m \in inbox>>}]
    <3>0. PICK m \in todo :
               sw' = [sw EXCEPT ![w].pc = "page", ![w].upto = upto, ![w].todo = todo \ {m},
                                ![w].item = {<<m, m \in inbox>>}]
      BY <2>3
    <3>1. \E b \in BOOLEAN :
            /\ b <=> m \in inbox
            /\ sw' = [sw EXCEPT ![w].pc = "page", ![w].upto = upto, ![w].todo = todo \ {m}, ![w].item = {<<m, b>>}]
      <4>1. CASE m \in inbox
        <5>1. (m \in inbox) = TRUE
          BY <4>1
        <5>2. sw' = [sw EXCEPT ![w].pc = "page", ![w].upto = upto, ![w].todo = todo \ {m}, ![w].item = {<<m, TRUE>>}]
          BY <3>0, <5>1
        <5>3. QED
          BY <4>1, <5>2
      <4>2. CASE m \notin inbox
        <5>1. (m \in inbox) = FALSE
          BY <4>2
        <5>2. sw' = [sw EXCEPT ![w].pc = "page", ![w].upto = upto, ![w].todo = todo \ {m}, ![w].item = {<<m, FALSE>>}]
          BY <3>0, <5>1
        <5>3. QED
          BY <4>2, <5>2
      <4>3. QED
        BY <4>1, <4>2
    <3>2. PICK b \in BOOLEAN :
            /\ b <=> m \in inbox
            /\ sw' = [sw EXCEPT ![w].pc = "page", ![w].upto = upto, ![w].todo = todo \ {m}, ![w].item = {<<m, b>>}]
      BY <3>1
    <3>3. PICK q : q = [sw[w] EXCEPT !.pc = "page", !.upto = upto, !.todo = todo \ {m}, !.item = {<<m, b>>}]
      OBVIOUS
    <3>4. sw' = [sw EXCEPT ![w] = q]
      BY <1>1, <3>2, <3>3
    <3>5. QED
      BY <3>2, <3>3, <3>4
  <2>4. QED
    BY <2>1, <2>2, <2>3
<1>7. /\ r \in SyncerStates /\ r.base = sw[w].base /\ r.from = sw[w].from /\ r.upto = upto
      /\ \/ todo = {} /\ r.pc = "store" /\ r.todo = {}
         \/ \E m \in todo, b \in BOOLEAN :
              (b <=> m \in inbox) /\ r.pc = "page" /\ r.todo = todo \ {m} /\ r.item = {<<m, b>>}
  <2>1. CASE todo = {} /\ r = [sw[w] EXCEPT !.pc = "store", !.upto = upto]
    <3>1. sw[w].todo = {}
      BY <1>3, <2>1 DEF Unfetched
    <3>2. QED
      BY <1>1, <1>5, <2>1, <3>1 DEF SyncerStates
  <2>2. ASSUME NEW m \in todo, NEW b \in BOOLEAN,
               r = [sw[w] EXCEPT !.pc = "page", !.upto = upto, !.todo = todo \ {m}, !.item = {<<m, b>>}]
        PROVE  /\ r \in SyncerStates /\ r.base = sw[w].base /\ r.from = sw[w].from /\ r.upto = upto
               /\ r.pc = "page" /\ r.todo = todo \ {m} /\ r.item = {<<m, b>>}
    <3>1. {<<m, b>>} \in SUBSET (Msgs \X BOOLEAN) /\ todo \ {m} \in SUBSET Msgs
      BY <1>5
    <3>2. QED
      BY <1>1, <1>5, <2>2, <3>1 DEF SyncerStates
  <2>3. QED
    BY <1>6, <2>1, <2>2
<1>8. sw'[w] = r /\ \A v \in Syncers : v # w => sw'[v] = sw[v]
  BY <1>1, <1>6
<1>9. SyncTypeOK'
  <2>1. sw' \in [Syncers -> SyncerStates]
    BY <1>1, <1>6, <1>7
  <2>2. rebased' \in BOOLEAN
    BY <1>0, <1>1
  <2>3. QED
    BY <1>0, <1>1, <2>1, <2>2 DEF SyncTypeOK, SyncerStates
<1>10. RowsHaveJobs' /\ CheckpointCoversMail' /\ LinkIsTrue' /\ Now' = Now
  BY <1>0, <1>1, QuietStep DEF RowsHaveJobs
<1>11. Midway(w)' /\ ~Early(w)' /\ \A x \in Msgs : ToApply(w, x)' <=> x \in todo
  <2>1. CASE r.pc = "store"
    BY <1>7, <1>8, <2>1 DEF Midway, Early, ToApply, InPage
  <2>2. CASE r.pc # "store"
    <3>1. PICK m \in todo, b \in BOOLEAN : r.pc = "page" /\ r.todo = todo \ {m} /\ r.item = {<<m, b>>}
      BY <1>7, <2>2
    <3>2. \A x \in Msgs : InPage(w, x)' <=> x = m
      BY <1>8, <3>1 DEF InPage
    <3>3. QED
      BY <1>8, <3>1, <3>2 DEF Midway, Early, ToApply
  <2>3. QED
    BY <2>1, <2>2
<1>12. RoundShape(w)'
  <2>1. r.pc = "page" => \E m \in Msgs, b \in BOOLEAN : r.item = {<<m, b>>} /\ (b <=> m \in inbox)
    BY <1>5, <1>7
  <2>2. QED
    BY <1>0, <1>2, <1>5, <1>7, <1>8, <1>10, <2>1 DEF RoundShape
<1>13. RoundCovers(w)'
  <2>1. ASSUME NEW x \in inbox, changed[x] <= upto
        PROVE  x \in ingests \/ x \in todo
    <3>1. CASE Unfetched(w)
      BY <1>0, <1>1, <1>2, <1>3, <2>1, <3>1 DEF RoundCovers, Early, Reported
    <3>2. CASE ~Unfetched(w)
      BY <1>0, <1>1, <1>3, <1>4, <2>1, <3>2 DEF RoundCovers, Midway, ToApply, InPage
    <3>3. QED
      BY <3>1, <3>2
  <2>2. QED
    BY <1>0, <1>1, <1>7, <1>8, <1>11, <2>1 DEF RoundCovers
<1>14. RoundTells(w)'
  <2> SUFFICES ASSUME ~stalled
               PROVE  RoundTells(w)'
    BY <1>0 DEF RoundTells
  <2>1. Early(w) \/ Midway(w)
    BY <1>0 DEF Early, Midway
  <2>2. job.by = w /\ IF sw[w].base THEN ~sync.known ELSE sync.known /\ sw[w].from = sync.link
    BY <1>0, <1>1, <2>1 DEF RoundTells
  <2>3. \A x \in Msgs : RowIsTrue(x) => RowIsTrue(x)'
    BY <1>0 DEF RowIsTrue
  <2>4. ASSUME NEW x \in Msgs
        PROVE  /\ ~sw[w].base /\ x \in todo => changed[x] > sw[w].from
               /\ sw[w].base /\ x \in todo /\ changed[x] <= upto => x \in inbox
               /\ x \notin todo /\ changed[x] <= upto => RowIsTrue(x)'
    <3>1. CASE ~Unfetched(w)
      <4>1. Midway(w) /\ (ToApply(w, x) <=> x \in todo) /\ upto = sw[w].upto
        BY <1>0, <1>3, <1>4, <3>1 DEF Midway, ToApply, InPage
      <4>2. QED
        BY <1>1, <2>3, <4>1 DEF RoundTells
    <3>2. CASE Unfetched(w) /\ sw[w].base
      <4>1. todo = inbox
        BY <1>3, <3>2 DEF Reported
      <4>2. ~rebased' => rows[x] = "NONE"
        BY <1>0, <1>1, <3>2 DEF RowsHaveJobs
      <4>3. QED
        BY <1>0, <3>2, <4>1, <4>2 DEF RowIsTrue
    <3>3. CASE Unfetched(w) /\ ~sw[w].base
      <4>1. x \in todo <=> changed[x] > sw[w].from
        BY <1>3, <3>3 DEF Reported
      <4>2. x \notin todo => RowIsTrue(x)
        BY <1>1, <1>2, <2>2, <3>3, <4>1 DEF LinkIsTrue
      <4>3. QED
        BY <2>3, <3>3, <4>1, <4>2
    <3>4. QED
      BY <3>1, <3>2, <3>3
  <2>5. QED
    BY <1>0, <1>7, <1>8, <1>11, <2>2, <2>4 DEF RoundTells
<1>15. QED
  BY <1>0, <1>8, <1>9, <1>10, <1>12, <1>13, <1>14, SessionKeeps

\* A page is applied: the row of its message says what the page says.
LEMMA ApplyKeeps ==
  ASSUME SyncIInv, NEW w \in Syncers, ApplyPage(w)
  PROVE  SyncIInv'
<1>0. /\ inbox' = inbox /\ changed' = changed /\ stalled' = stalled /\ rebased' = rebased
      /\ receipts' = receipts /\ syncFaults' = syncFaults /\ sync' = sync /\ job' = job /\ sw[w].pc = "page"
  BY DEF ApplyPage
<1>1. /\ SyncTypeOK /\ RowsHaveJobs /\ LinkIsTrue /\ CheckpointCoversMail
      /\ sw \in [Syncers -> SyncerStates] /\ sw[w] \in SyncerStates
      /\ RoundShape(w) /\ RoundCovers(w) /\ RoundTells(w) /\ inbox \subseteq Msgs
      /\ rows \in [Msgs -> MailboxRows] /\ ingests \subseteq Msgs /\ sw[w].base \in BOOLEAN
  BY SyncTypesAre DEF SyncIInv, SyncerStates
<1>2. /\ Now \in Nat /\ \A x \in Msgs : changed[x] \in Nat
      /\ sw[w].from \in Nat /\ sw[w].upto \in Nat /\ sw[w].from <= Now /\ sw[w].upto <= Now
  BY SyncNumbers DEF SyncIInv
<1>3. PICK m \in Msgs, b \in BOOLEAN : sw[w].item = {<<m, b>>} /\ (changed[m] <= sw[w].upto => (b <=> m \in inbox))
  BY <1>0, <1>1 DEF RoundShape
<1>4. /\ m = CHOOSE x \in Msgs : \E c \in BOOLEAN : <<x, c>> \in sw[w].item
      /\ (b <=> <<m, TRUE>> \in sw[w].item)
  <2>1. \A x \in Msgs : (\E c \in BOOLEAN : <<x, c>> \in sw[w].item) <=> x = m
    BY <1>3
  <2>2. m = CHOOSE x \in Msgs : \E c \in BOOLEAN : <<x, c>> \in sw[w].item
    BY <2>1
  <2>3. QED
    BY <1>3, <2>2
<1>5. /\ b => rows' = [rows EXCEPT ![m] = "PRESENT"]
      /\ ~b /\ rows[m] # "NONE" /\ ~sw[w].base => rows' = [rows EXCEPT ![m] = "REMOVED"]
      /\ ~b /\ ~(rows[m] # "NONE" /\ ~sw[w].base) => rows' = rows
      /\ ingests' = IF b /\ rows[m] = "NONE" THEN ingests \cup {m} ELSE ingests
  BY <1>4 DEF ApplyPage
<1>6. /\ rows' \in [Msgs -> MailboxRows] /\ ingests \subseteq ingests' /\ ingests' \subseteq Msgs
      /\ \A x \in Msgs : x # m => rows'[x] = rows[x] /\ (x \in ingests' <=> x \in ingests)
      /\ b => rows'[m] = "PRESENT"
      /\ ~b /\ ~sw[w].base => rows'[m] # "PRESENT" \/ rows[m] = "NONE"
      /\ rows'[m] # "NONE" <=> m \in ingests'
      /\ rows[m] = "NONE" /\ ~b => rows'[m] = "NONE"
  BY <1>1, <1>5 DEF RowsHaveJobs, MailboxRows
<1>7. PICK r : r = [sw[w] EXCEPT !.pc = IF sw[w].todo = {} THEN "store" ELSE "fetch"]
  OBVIOUS
<1>8. sw' = [sw EXCEPT ![w] = r] /\ sw'[w] = r /\ \A v \in Syncers : v # w => sw'[v] = sw[v]
  BY <1>1, <1>7 DEF ApplyPage, SyncGoTo
<1>9. /\ r \in SyncerStates /\ r.base = sw[w].base /\ r.from = sw[w].from /\ r.upto = sw[w].upto
      /\ r.todo = sw[w].todo /\ r.pc = IF sw[w].todo = {} THEN "store" ELSE "fetch"
  BY <1>1, <1>7 DEF SyncerStates
<1>10. SyncTypeOK'
  <2>1. sw' \in [Syncers -> SyncerStates]
    BY <1>1, <1>8, <1>9
  <2>2. QED
    BY <1>0, <1>1, <1>6, <2>1 DEF SyncTypeOK, SyncerStates
<1>11. Now' = Now
  <2>1. Now = LatestOf(changed) /\ Now' = LatestOf(changed')
    BY DEF Now, LatestOf
  <2>2. QED
    BY <1>0, <2>1
<1>12. RowsHaveJobs' /\ CheckpointCoversMail'
  BY <1>0, <1>1, <1>6, <1>11 DEF RowsHaveJobs, CheckpointCoversMail
<1>13. /\ Midway(w) /\ Midway(w)' /\ ~Early(w)'
       /\ \A x \in Msgs : (ToApply(w, x)' <=> x \in sw[w].todo) /\ (ToApply(w, x) <=> x \in sw[w].todo \/ x = m)
  BY <1>0, <1>3, <1>8, <1>9 DEF Midway, Early, Unfetched, ToApply, InPage
<1>14. \A x \in Msgs : x # m => (RowIsTrue(x)' <=> RowIsTrue(x))
  BY <1>0, <1>6 DEF RowIsTrue
<1>15. ~stalled => IF sw[w].base THEN ~sync.known ELSE sync.known /\ sw[w].from = sync.link
  BY <1>1, <1>13 DEF RoundTells
<1>16. LinkIsTrue'
  <2>1. ASSUME ~stalled, sync.known, NEW x \in Msgs, changed[x] <= sync.link
        PROVE  RowIsTrue(x)'
    <3>1. ~sw[w].base /\ sw[w].from = sync.link
      BY <1>15, <2>1
    <3>2. x # m
      BY <1>1, <1>2, <1>13, <2>1, <3>1 DEF RoundTells
    <3>3. QED
      BY <1>1, <1>14, <2>1, <3>2 DEF LinkIsTrue
  <2>2. QED
    BY <1>0, <2>1 DEF LinkIsTrue
<1>17. RoundShape(w)'
  BY <1>0, <1>1, <1>8, <1>9, <1>11 DEF RoundShape
<1>18. RoundCovers(w)'
  <2>1. ASSUME NEW x \in inbox, changed[x] <= sw[w].upto
        PROVE  x \in ingests' \/ x \in sw[w].todo
    <3>1. CASE x = m
      BY <1>3, <1>6, <2>1, <3>1
    <3>2. CASE x # m
      BY <1>1, <1>6, <1>13, <2>1, <3>2 DEF RoundCovers
    <3>3. QED
      BY <3>1, <3>2
  <2>2. QED
    BY <1>0, <1>1, <1>8, <1>9, <1>13, <2>1 DEF RoundCovers
<1>19. RoundTells(w)'
  <2> SUFFICES ASSUME ~stalled
               PROVE  RoundTells(w)'
    BY <1>0 DEF RoundTells
  <2>1. ASSUME NEW x \in Msgs
        PROVE  /\ ~sw[w].base /\ x \in sw[w].todo => changed[x] > sw[w].from
               /\ sw[w].base /\ x \in sw[w].todo /\ changed[x] <= sw[w].upto => x \in inbox
    BY <1>1, <1>13 DEF RoundTells
  <2>2. ASSUME NEW x \in Msgs, x \notin sw[w].todo, changed[x] <= sw[w].upto
        PROVE  RowIsTrue(x)'
    <3>1. CASE x # m
      BY <1>1, <1>13, <1>14, <2>2, <3>1 DEF RoundTells
    <3>2. CASE x = m
      <4>1. sw[w].base => m \in inbox
        BY <1>1, <1>13, <2>2, <3>2 DEF RoundTells
      <4>2. b <=> m \in inbox
        BY <1>3, <2>2, <3>2
      <4>3. QED
        BY <1>0, <1>6, <3>2, <4>1, <4>2 DEF RowIsTrue
    <3>3. QED
      BY <3>1, <3>2
  <2>3. job.by = w
    BY <1>0, <1>1 DEF RoundTells
  <2>4. QED
    BY <1>0, <1>8, <1>9, <1>13, <1>15, <2>1, <2>2, <2>3 DEF RoundTells
<1>20. QED
  BY <1>0, <1>6, <1>8, <1>10, <1>12, <1>16, <1>17, <1>18, <1>19, SessionKeeps

\* The checkpoint is stored, or the token is rejected and the checkpoint forgotten.
LEMMA StoreKeeps ==
  ASSUME SyncIInv, NEW w \in Syncers, StoreCheckpoint(w) \/ InvalidDelta(w)
  PROVE  SyncIInv'
<1>0. /\ inbox' = inbox /\ changed' = changed /\ rows' = rows /\ ingests' = ingests /\ stalled' = stalled
      /\ rebased' = rebased /\ receipts' = receipts /\ syncFaults' = syncFaults
      /\ sw' = [sw EXCEPT ![w].pc = "release"] /\ job' \in {job, WithSyncJob(job)}
      /\ sw[w].pc \in {"store", "invalid"}
  BY DEF StoreCheckpoint, InvalidDelta, SyncGoTo
<1>1. /\ SyncTypeOK /\ RowsHaveJobs /\ job \in SyncJobRows /\ (job.status = "RUNNING" <=> job.by # Nobody)
      /\ sync \in SyncStateRows /\ sw \in [Syncers -> SyncerStates] /\ sw[w] \in SyncerStates
      /\ RoundShape(w) /\ RoundCovers(w) /\ RoundTells(w) /\ inbox \subseteq Msgs
  BY SyncTypesAre DEF SyncIInv
<1>2. /\ Now \in Nat /\ \A x \in Msgs : changed[x] \in Nat
      /\ sw[w].upto \in Nat /\ sw[w].upto <= Now /\ 0 \in 0..MaxChanges /\ 0 <= Now
  BY SyncNumbers, SyncAssumption DEF SyncIInv
<1>3. /\ sw'[w] = [sw[w] EXCEPT !.pc = "release"] /\ \A v \in Syncers : v # w => sw'[v] = sw[v]
      /\ sw' \in [Syncers -> SyncerStates]
  <2>1. [sw[w] EXCEPT !.pc = "release"] \in SyncerStates
    BY <1>1 DEF SyncerStates
  <2>2. QED
    BY <1>0, <1>1, <2>1
<1>4. /\ job' \in SyncJobRows /\ job'.by = job.by /\ (job'.status = "RUNNING" <=> job'.by # Nobody)
      /\ job'.status = "PENDING" => job'.attempts < SyncMax
  BY <1>0, <1>1, SyncJobsAre, SyncAssumption DEF RowsHaveJobs
<1>5. RoundShape(w)' /\ RoundCovers(w)' /\ RoundTells(w)'
  <2>1. sw[w].pc # "idle"
    BY <1>0
  <2>2. QED
    BY <1>0, <1>3, <1>4, <2>1, SessionEnds
<1>6. Now' = Now
  <2>1. Now = LatestOf(changed) /\ Now' = LatestOf(changed')
    BY DEF Now, LatestOf
  <2>2. QED
    BY <1>0, <2>1
<1>7. /\ sync' \in SyncStateRows /\ RowsHaveJobs' /\ CheckpointCoversMail' /\ LinkIsTrue'
  <2>1. CASE StoreCheckpoint(w)
    <3>1. sync' \in SyncStateRows /\ sync'.known = TRUE /\ sync'.link = sw[w].upto /\ sync'.rebase = FALSE
      BY <1>1, <2>1 DEF StoreCheckpoint, SyncStateRows, SyncerStates
    <3>2. sw[w].pc = "store"
      BY <2>1 DEF StoreCheckpoint
    <3>3. Midway(w) /\ \A x \in Msgs : ~ToApply(w, x)
      BY <1>1, <3>2 DEF Midway, RoundShape, ToApply, InPage
    <3>4. RowsHaveJobs'
      BY <1>0, <1>1, <1>2, <1>4, <1>6, <3>1 DEF RowsHaveJobs
    <3>5. CheckpointCoversMail'
      <4>1. ASSUME NEW x \in inbox, changed[x] \in 1..sw[w].upto
            PROVE  x \in ingests
        BY <1>1, <1>2, <3>3, <4>1 DEF RoundCovers
      <4>2. QED
        BY <1>0, <3>1, <4>1 DEF CheckpointCoversMail
    <3>6. LinkIsTrue'
      <4>1. ASSUME ~stalled, NEW x \in Msgs, changed[x] <= sw[w].upto
            PROVE  RowIsTrue(x)'
        <5>1. RowIsTrue(x)
          BY <1>1, <3>3, <4>1 DEF RoundTells
        <5>2. QED
          BY <1>0, <5>1 DEF RowIsTrue
      <4>2. QED
        BY <1>0, <3>1, <4>1 DEF LinkIsTrue
    <3>7. QED
      BY <3>1, <3>4, <3>5, <3>6
  <2>2. CASE InvalidDelta(w)
    <3>1. sync' \in SyncStateRows /\ sync'.known = FALSE /\ sync'.link = 0
      BY <1>1, <1>2, <2>2 DEF InvalidDelta, SyncStateRows
    <3>2. QED
      BY <1>0, <1>1, <1>2, <1>4, <1>6, <3>1 DEF RowsHaveJobs, CheckpointCoversMail, LinkIsTrue
  <2>3. QED
    BY <2>1, <2>2
<1>8. SyncTypeOK'
  BY <1>0, <1>1, <1>3, <1>4, <1>7 DEF SyncTypeOK, SyncerStates
<1>9. QED
  <2>1. sw[w].pc # "idle"
    BY <1>0
  <2>2. QED
    BY <1>0, <1>3, <1>5, <1>7, <1>8, <2>1, SessionKeeps

LEMMA SyncStarts == SyncInit => SyncIInv
<1> SUFFICES ASSUME SyncInit
             PROVE  SyncIInv
  OBVIOUS
<1>0. /\ 0 \in 0..MaxChanges /\ 0 \in 0..MaxSyncFaults /\ 0 \in 0..SyncMax
  BY SyncAssumption
<1>1. IdleSyncer \in SyncerStates /\ NoSyncJob \in SyncJobRows /\ NoSyncJob.by = Nobody /\ NoSyncJob.status = "NONE"
  BY <1>0 DEF IdleSyncer, SyncerStates, NoSyncJob, SyncJobRows
<1>2. sync \in SyncStateRows /\ sync.known = FALSE /\ sync.link = 0
  BY <1>0 DEF SyncInit, SyncStateRows
<1>3. SyncTypeOK
  BY <1>0, <1>1, <1>2 DEF SyncInit, SyncTypeOK, SyncerStates, MailboxRows
<1>4. Now \in Nat
  BY <1>3, NowIs DEF SyncTypeOK
<1>5. RowsHaveJobs /\ CheckpointCoversMail /\ LinkIsTrue
  BY <1>1, <1>2, <1>4 DEF SyncInit, RowsHaveJobs, CheckpointCoversMail, LinkIsTrue
<1>6. ASSUME NEW w \in Syncers
      PROVE  RoundShape(w) /\ RoundCovers(w) /\ RoundTells(w)
  <2>1. sw[w] = IdleSyncer
    BY DEF SyncInit
  <2>2. QED
    BY <1>4, <2>1 DEF IdleSyncer, RoundShape, RoundCovers, RoundTells, Unfetched, Early, Midway
<1>7. QED
  BY <1>3, <1>5, <1>6 DEF SyncIInv

LEMMA SyncStays == SyncIInv /\ [SyncNext]_syncVars => SyncIInv'
<1>1. ASSUME SyncIInv, SyncNext
      PROVE  SyncIInv'
  BY <1>1, ChangeKeeps, RequestKeeps, BeginKeeps, EndKeeps, FetchKeeps, ApplyKeeps, StoreKeeps, StallKeeps
     DEF SyncNext, SyncStep
<1>2. ASSUME SyncIInv, UNCHANGED syncVars
      PROVE  SyncIInv'
  <2>1. Now' = Now
    <3>1. Now = LatestOf(changed) /\ Now' = LatestOf(changed')
      BY DEF Now, LatestOf
    <3>2. QED
      BY <1>2, <3>1 DEF syncVars
  <2>2. SyncTypeOK' /\ RowsHaveJobs' /\ CheckpointCoversMail' /\ LinkIsTrue'
    BY <1>2, <2>1 DEF syncVars, SyncIInv, SyncTypeOK, RowsHaveJobs, CheckpointCoversMail, LinkIsTrue, RowIsTrue
  <2>3. ASSUME NEW w \in Syncers
        PROVE  RoundShape(w)' /\ RoundCovers(w)' /\ RoundTells(w)'
    <3>1. RoundShape(w) /\ RoundCovers(w) /\ RoundTells(w)
      BY <1>2 DEF SyncIInv
    <3>2. RoundShape(w)'
      BY <1>2, <2>1, <3>1 DEF syncVars, RoundShape, Unfetched
    <3>3. RoundCovers(w)'
      BY <1>2, <3>1 DEF syncVars, RoundCovers, Unfetched, Early, Midway, ToApply, InPage
    <3>4. RoundTells(w)'
      BY <1>2, <3>1 DEF syncVars, RoundTells, RowIsTrue, Unfetched, Early, Midway, ToApply, InPage
    <3>5. QED
      BY <3>2, <3>3, <3>4
  <2>4. QED
    BY <2>2, <2>3 DEF SyncIInv
<1>3. QED
  BY <1>1, <1>2

LEMMA SyncMeans == SyncIInv => SyncInv
<1> SUFFICES ASSUME SyncIInv
             PROVE  SyncInv
  OBVIOUS
<1>1. \A m \in Msgs : changed[m] <= Now
  BY SyncNumbers DEF SyncIInv
<1>2. MembershipIsTrue
  BY <1>1 DEF SyncIInv, MembershipIsTrue, LinkIsTrue, RowIsTrue
<1>3. QED
  BY <1>2 DEF SyncIInv, SyncInv

\* GraphSyncService and GraphSubscriptionService: whatever rounds fail, are rejected, die or outlive
\* their leases, the checkpoint never passes a message that has no row and no ingestion job; while none
\* outlives them and the checkpoint is the mailbox's last change, the rows say what the mailbox says; and
\* unless a reconciliation adopted it, the remote subscription a row names carries that row's client state.
THEOREM FolderIsTrue == MailboxSpec => []FolderInv
<1>1. MailboxInit => SyncIInv /\ SubIInv
  BY SyncStarts, SubStarts DEF MailboxInit
<1>2. [MailboxNext]_<<focus, syncVars, subVars, moveVars>> => [SyncNext]_syncVars /\ [SubNext]_subVars
  BY DEF MailboxNext
<1>3. SyncIInv /\ SubIInv /\ [MailboxNext]_<<focus, syncVars, subVars, moveVars>> => SyncIInv' /\ SubIInv'
  BY <1>2, SyncStays, SubStays
<1>4. SyncIInv /\ SubIInv => FolderInv
  BY SyncMeans DEF SubIInv, SubInv, FolderInv
<1>5. QED
  BY <1>1, <1>3, <1>4, PTL DEF MailboxSpec
=============================================================================
