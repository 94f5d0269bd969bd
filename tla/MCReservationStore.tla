------------------------- MODULE MCReservationStore -------------------------
(* Instances of the reservation store for TLC. *)
EXTENDS ReservationAccounting

CONSTANTS n1, n2, a1

(* n1 has a known capacity, n2 reports none. *)
MCNode == {n1, n2}
MCAccelerator == {a1}
MCCapacity == [n \in MCNode |-> IF n = n1 THEN 4 ELSE 0]

(* One node, for the instance whose counters can wrap around. *)
MCSmallNode == {n1}
MCSmallCapacity == [n \in MCSmallNode |-> 4]

(* In the instance with the wide word no counter can. *)
ASSUME WideWord == Word = 64 => NoWraparound
=============================================================================
