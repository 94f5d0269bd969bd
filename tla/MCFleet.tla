------------------------------- MODULE MCFleet -------------------------------
(* Two processes, of one worker or of two, on a node of one byte; or       *)
(* nf-proof with its three workers and three sessions.                     *)
EXTENDS Fleet

CONSTANTS w1, w2

MCId == [p \in Process |-> IF p = B THEN w2 ELSE w1]
MCCapacity == <<1>>
MCCpus == <<2>>

Plain == [iterations |-> 1, hold |-> FALSE, release |-> TRUE]
Keeping == [iterations |-> 1, hold |-> TRUE, release |-> FALSE]
MCFleets == {[p \in {A, A2} |-> IF p = A THEN Keeping ELSE Plain]}
=============================================================================
