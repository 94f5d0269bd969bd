-------------------------- MODULE MCPlacementEngine --------------------------
(* Three nodes: the first two hold four bytes, the third does not say; the *)
(* second has two processors and the accelerator a1.  Where a2 is attached *)
(* is not known, and a3 was not found at all.                              *)
EXTENDS PlacementEngine

CONSTANTS a1, a2, a3

MCAccelerator == {a1, a2, a3}
MCCapacity == <<4, 4, 0>>
MCCpus == <<1, 2, 1>>
MCFree == <<3, 1, 0>>
MCHomes == [a \in {a1, a2} |-> IF a = a1 THEN 2 ELSE Nowhere]

(* Node 9 does not exist. *)
MCPlaceable ==
  [footprint: {0, 2}, preferred: {Nowhere, 1, 9}, required: {{}, {2}},
   accel: MCAccelerator \cup {NoAccelerator}, accel_local: BOOLEAN,
   cpus: {0, 2}, fallback: BOOLEAN, owner: {Nowhere, 3}, io: {Nowhere, 3},
   current: {Nowhere}, bound: {FALSE}, revalidation: {FALSE}]

MCRequests ==
  MCPlaceable
  \cup {[q EXCEPT !.bound = TRUE, !.current = 1] : q \in MCPlaceable}
  \cup {[q EXCEPT !.revalidation = TRUE] : q \in {p \in MCPlaceable : p.cpus = 0 /\ p.owner = 3}}

(* The instance is one of those the theorems of CoordinatorProofs are about. *)
ASSUME NoWraparound
=============================================================================
