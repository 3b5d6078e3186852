-------------------------- MODULE MCGraphJobQueue --------------------------
(* Instances of GraphJobQueue for TLC. *)
EXTENDS GraphJobQueue, TLC

CONSTANTS j1, j2, folder, other, w1, w2, p1, p2

\* Two idempotency keys for one folder, or one for each of two folders.
TwoOnOne == j1 :> folder @@ j2 :> folder
Distinct == j1 :> folder @@ j2 :> other

\* Workers run the same program and are interchangeable.
Symmetry == Permutations(Workers)
============================================================================
