----------------------------- MODULE MCRecovery ------------------------------
(* Instances of persistence and recovery for TLC. *)
EXTENDS Recovery

T == INSTANCE TLC

CONSTANTS n1, w1, w2

MCNode == {n1}
MCCapacity == [n \in MCNode |-> 2]

(* A container saved while n1 was larger: its reservations, of sizes s and *)
(* t, need not fit any more.                                               *)
Saved(bytes, generation) ==
  [status |-> "active", generation |-> generation, node |-> n1, bytes |-> bytes,
   slots |-> 0, accel |-> NoAccelerator, accel_capacity |-> FALSE]

SaveOf(s, t) ==
  [epoch |-> 1, workers |-> [w \in WorkerId |-> NoWorker],
   reservations |-> [id \in ReservationId |->
     CASE id = 1 -> Saved(s, 1) [] id = 2 -> Saved(t, 3) [] OTHER -> NoReservation]]

(* Workers are interchangeable. *)
MCRecoverySymmetry == T!Permutations({w1, w2})

MCEarlierSaves == {SaveOf(1, 2), SaveOf(3, 1)}

(* The instance is one of those the theorems of RecoveryProofs are about. *)
ASSUME NoSumWraps
=============================================================================
