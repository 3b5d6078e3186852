------------------------------- MODULE Packets -------------------------------
(***************************************************************************)
(* Document packets of one case (app/services/document_packet_service.py,  *)
(* app/packets): matching catalogue documents to a checklist, the manifest *)
(* that pins versions, the archive a worker builds, approval.              *)
(*                                                                         *)
(* Requests are atomic; the archive jobs are not: a job reads the packet,  *)
(* downloads, and commits after whatever happened in between.              *)
(***************************************************************************)
EXTENDS Naturals, Sequences, FiniteSetsExt

CONSTANTS
  Papers,       \* documents of the catalogue
  Checklist,    \* items of the packet template: key |-> [type, required, strategy]
  PaperFacts,   \* what of a document never changes here: type, entity, confidentiality, ...
  MaxPackets, MaxPaperEdits

ASSUME PacketBounds == MaxPackets \in Nat /\ MaxPaperEdits \in Nat
ASSUME PaperNames == {"-", "never built"} \cap Papers = {}
-----------------------------------------------------------------------------
PacketStatuses == {"DRAFT", "MISSING_ITEMS", "READY_FOR_REVIEW", "APPROVED", "SUPERSEDED", "REJECTED"}
IMMUTABLE_PACKET_STATUSES == {"APPROVED", "SUPERSEDED"}
ConfidentialityOrder == [INTERNAL |-> 1, CONFIDENTIAL |-> 2, RESTRICTED |-> 3]

VARIABLES
  papers,    \* documents: lifecycle, when approved (0: never), whether the stored bytes are intact
  edits,     \* changes made to documents so far
  packets,   \* document_packets with their items, by version
  archiveJobs \* BUILD_DOCUMENT_PACKET jobs by idempotency key: packet and manifest

packetVars == <<papers, edits, packets, archiveJobs>>

\* No operation gives a document a second version: to pin a document is to pin its version 1.
PaperRows == [life : {"ACTIVE", "EXPIRED"}, approvedAt : 0..MaxPaperEdits, intact : BOOLEAN]
Pins == Papers
NoPin == "-"
\* A manifest is told apart by what it pins: its hash leaves the time of generation out.
Manifests == [DOMAIN Checklist -> Pins \cup {NoPin}]
NoManifest == [i \in DOMAIN Checklist |-> "never built"]
\* The archive: the manifest it was built from, and whether the bytes it holds are the pinned ones.
NoArchive == [of |-> NoManifest, genuine |-> TRUE]
PacketRows ==
  [status : PacketStatuses, manifest : Manifests \cup {NoManifest},
   archive : {NoArchive} \cup
     [of : Manifests, genuine : BOOLEAN]]
JobKeys == [packet : 1..MaxPackets, manifest : Manifests]
JobStates == {"-", "PENDING", "RUNNING", "COMPLETED", "FAILED_REVIEW"}
-----------------------------------------------------------------------------
(* Matching.                                                               *)

\* evaluate_candidate: no rejection. The hash of the catalogue and of the version agree by
\* construction of a version; what SharePoint holds is only looked at by the archive job.
EvaluateCandidate(d, item) ==
  LET f == PaperFacts[d]
  IN  /\ f.type = item.type
      /\ f.entity = "ours"
      /\ f.jurisdiction \in {"-", "here"}
      /\ papers[d].approvedAt > 0
      /\ papers[d].life = "ACTIVE"
      /\ ConfidentialityOrder[f.confidentiality] <= ConfidentialityOrder[item.maxConfidentiality]
      /\ item.reuse => f.reuse

\* _sort_key of LATEST_APPROVED and LATEST_EFFECTIVE; the first in database order wins a tie.
SortKey(item, d) == IF item.strategy = "LATEST_EFFECTIVE" THEN PaperFacts[d].effective
                    ELSE papers[d].approvedAt

MatchItem(item) ==
  LET eligible == {d \in Papers : EvaluateCandidate(d, item)}
      best == {d \in eligible : \A e \in eligible : SortKey(item, d) >= SortKey(item, e)}
  IN  IF item.strategy = "MANUAL_ONLY" \/ best = {} THEN {NoPin}
      ELSE best

\* match_all, with a document pinned by hand for the items in overrides.
MatchAll(overrides) ==
  {m \in Manifests :
     \A i \in DOMAIN Checklist :
       IF i \in DOMAIN overrides
       THEN m[i] = IF EvaluateCandidate(overrides[i], Checklist[i])
                      /\ Checklist[i].strategy # "MANUAL_ONLY"
                   THEN overrides[i] ELSE NoPin
       ELSE m[i] \in MatchItem(Checklist[i])}

MissingItems(m) == {i \in DOMAIN Checklist : Checklist[i].required /\ m[i] = NoPin}
-----------------------------------------------------------------------------
\* Rows keep their types, only a packet that was built has an archive, at most one packet of
\* the case is APPROVED, and none that lacks a required item.
PacketTypeOK ==
  /\ papers \in [Papers -> PaperRows] /\ edits \in 0..MaxPaperEdits
  /\ packets \in Seq(PacketRows) /\ Len(packets) <= MaxPackets
  /\ DOMAIN archiveJobs \subseteq JobKeys
  /\ \A k \in DOMAIN archiveJobs : archiveJobs[k] \in JobStates
  /\ \A p \in DOMAIN packets :
       /\ packets[p].archive # NoArchive => packets[p].manifest # NoManifest
       /\ packets[p].status = "APPROVED" =>
            /\ MissingItems(packets[p].manifest) = {}
            /\ \A q \in DOMAIN packets : packets[q].status = "APPROVED" => q = p

PacketInit ==
  /\ papers = [d \in Papers |-> [life |-> "ACTIVE", approvedAt |-> 0, intact |-> TRUE]]
  /\ edits = 0 /\ packets = <<>> /\ archiveJobs = <<>>

CreatePacket ==
  /\ Len(packets) < MaxPackets
  /\ packets' = Append(packets, [status |-> "DRAFT", manifest |-> NoManifest, archive |-> NoArchive])
  /\ UNCHANGED <<papers, edits, archiveJobs>>

BuiltStatus(m) == IF MissingItems(m) # {} THEN "MISSING_ITEMS" ELSE "READY_FOR_REVIEW"

\* build, and the archive job the endpoint queues in the same transaction: its key names the
\* packet and the manifest and is used once, ever. The archive columns are left as they are.
Built(p, overrides) ==
  \E m \in MatchAll(overrides) :
    /\ packets' = [packets EXCEPT ![p].manifest = m, ![p].status = BuiltStatus(m)]
    /\ LET k == [packet |-> p, manifest |-> m]
       IN  archiveJobs' = [j \in DOMAIN archiveJobs \cup {k} |->
                             IF j \in DOMAIN archiveJobs THEN archiveJobs[j] ELSE "PENDING"]

Overrides == {<<>>} \cup [DOMAIN Checklist -> Papers]

BuildPacket(p) ==
  /\ p \in DOMAIN packets /\ packets[p].status \notin IMMUTABLE_PACKET_STATUSES
  /\ \E o \in Overrides : Built(p, o)
  /\ UNCHANGED <<papers, edits>>

\* approve looks at the missing_items column the last build wrote.
NothingMissing(p) == packets[p].manifest # NoManifest => MissingItems(packets[p].manifest) = {}

ApprovePacket(p) ==
  /\ p \in DOMAIN packets
  /\ packets[p].status \notin IMMUTABLE_PACKET_STATUSES \cup {"DRAFT"}
  /\ NothingMissing(p)
  /\ packets[p].archive # NoArchive
  /\ packets' = [q \in DOMAIN packets |->
       CASE q = p -> [packets[q] EXCEPT !.status = "APPROVED"]
         [] packets[q].status = "APPROVED" /\ q # p -> [packets[q] EXCEPT !.status = "SUPERSEDED"]
         [] OTHER -> packets[q]]
  /\ UNCHANGED <<papers, edits, archiveJobs>>

RejectPacket(p) ==
  /\ p \in DOMAIN packets /\ packets[p].status \notin IMMUTABLE_PACKET_STATUSES
  /\ packets' = [packets EXCEPT ![p].status = "REJECTED"]
  /\ UNCHANGED <<papers, edits, archiveJobs>>
-----------------------------------------------------------------------------
(* The archive job.                                                        *)

\* The job refuses a packet whose manifest has moved on, or that is not up for an archive, or
\* that pins nothing: the error is not retryable.
Archivable(k) ==
  /\ packets[k.packet].manifest = k.manifest
  /\ packets[k.packet].status \in {"READY_FOR_REVIEW", "APPROVED"}
  /\ \E i \in DOMAIN Checklist : k.manifest[i] # NoPin

ArchiveReads(k) ==
  /\ k \in DOMAIN archiveJobs /\ archiveJobs[k] = "PENDING"
  /\ archiveJobs' = [archiveJobs EXCEPT ![k] = IF Archivable(k) THEN "RUNNING" ELSE "FAILED_REVIEW"]
  /\ UNCHANGED <<papers, edits, packets>>

\* Every pinned document is still active and its stored bytes hash to the pinned version.
BytesVerified(m) ==
  \A i \in DOMAIN m : m[i] # NoPin => papers[m[i]].life = "ACTIVE" /\ papers[m[i]].intact

\* generate_archive from the manifest it read, then the archive columns of the packet.
GenerateArchive(k) ==
  /\ k \in DOMAIN archiveJobs /\ archiveJobs[k] = "RUNNING"
  /\ \/ /\ BytesVerified(k.manifest)
        /\ packets' = [packets EXCEPT ![k.packet].archive =
             [of |-> k.manifest,
              genuine |-> \A i \in DOMAIN Checklist :
                            k.manifest[i] # NoPin => papers[k.manifest[i]].intact]]
        /\ archiveJobs' = [archiveJobs EXCEPT ![k] = "COMPLETED"]
     \/ /\ ~BytesVerified(k.manifest) /\ UNCHANGED packets
        /\ archiveJobs' = [archiveJobs EXCEPT ![k] = "FAILED_REVIEW"]
  /\ UNCHANGED <<papers, edits>>
-----------------------------------------------------------------------------
(* Documents change under the packets: one is approved, expires, or is     *)
(* edited or restored in SharePoint, which no catalogue row shows.         *)

PaperApproved(d) ==
  /\ papers[d].approvedAt = 0 /\ edits < MaxPaperEdits /\ edits' = edits + 1
  /\ papers' = [papers EXCEPT ![d].approvedAt = edits + 1]
  /\ UNCHANGED <<packets, archiveJobs>>

FileEdited(d) ==
  /\ edits < MaxPaperEdits /\ edits' = edits + 1
  /\ papers' = [papers EXCEPT ![d].intact = ~@]
  /\ UNCHANGED <<packets, archiveJobs>>

PaperExpires(d) ==
  /\ papers[d].life = "ACTIVE" /\ edits < MaxPaperEdits /\ edits' = edits + 1
  /\ papers' = [papers EXCEPT ![d].life = "EXPIRED"]
  /\ UNCHANGED <<packets, archiveJobs>>

PacketNext ==
  \/ CreatePacket
  \/ \E p \in 1..MaxPackets : BuildPacket(p) \/ ApprovePacket(p) \/ RejectPacket(p)
  \/ \E k \in DOMAIN archiveJobs : ArchiveReads(k) \/ GenerateArchive(k)
  \/ \E d \in Papers : PaperApproved(d) \/ FileEdited(d) \/ PaperExpires(d)

PacketSpec == PacketInit /\ [][PacketNext]_packetVars
-----------------------------------------------------------------------------
\* Whatever happened to the files meanwhile, an archive holds the bytes that its manifest pins.
ArchiveHoldsItsPins == \A p \in DOMAIN packets : packets[p].archive.genuine

\* The invariant of the packets: an approved manifest is complete, an archive is what it pins.
PacketInv == PacketTypeOK /\ ArchiveHoldsItsPins
=============================================================================
