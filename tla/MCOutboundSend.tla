--------------------------- MODULE MCOutboundSend ---------------------------
(* Instances of OutboundSend for TLC. *)
EXTENDS OutboundSend, TLC

CONSTANTS w1, w2, s1, s2, ann, bob, cid, c1, c2

\* Workers run the same program, and so do API sessions.
Symmetry == Permutations(Workers) \cup Permutations(Sessions)
=============================================================================
