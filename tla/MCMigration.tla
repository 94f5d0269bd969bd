----------------------------- MODULE MCMigration -----------------------------
(* Instances of the memory and migration managers for TLC. *)
EXTENDS MemoryAccounting, TLC

CONSTANTS t1, t2, n1, n2

Req(bytes, intended, touch) ==
  [bytes |-> bytes, intended |-> intended, touch |-> touch]

(* A request that leaves the node to the backend, and one pinned to a node. *)
MCOneRequest == {Req(1, NoNode, TRUE)}
MCPinnedRequest == {Req(1, n1, TRUE)}

(* Threads and nodes are interchangeable; used in the runs that check no   *)
(* liveness property.                                                      *)
MCMigrationSymmetry == Permutations({t1, t2}) \cup Permutations({n1, n2})
=============================================================================
