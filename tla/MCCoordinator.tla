---------------------------- MODULE MCCoordinator ----------------------------
(* Instances of the coordinator for TLC. *)
EXTENDS Coordinator, TLC

CONSTANTS n1, w1, w2, c1, c2

MCNode == {n1}
MCCapacity == [n \in MCNode |-> 1]

(* Workers are interchangeable; used where no liveness is checked. *)
MCSymmetry == Permutations({w1, w2})
=============================================================================
