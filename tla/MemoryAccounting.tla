-------------------------- MODULE MemoryAccounting ---------------------------
(***************************************************************************)
(* The memory manager's per-node accounting against the regions it         *)
(* summarises.                                                             *)
(***************************************************************************)
EXTENDS Migration, Functions

LiveIds == {r \in RegionId : IsLive(r)}

(* What each live region occupies. *)
RegionBytes == [r \in LiveIds |-> regions[r].bytes]

LiveOn(n) == {r \in LiveIds : Home(r) = n}

LiveBytes(n) == SumFunctionOnSet(RegionBytes, LiveOn(n))

(* "Per-node accounting closes exactly to zero after teardown" (README):   *)
(* node_usage_ holds, at every moment, exactly the bytes of the live       *)
(* regions homed on each node, with no entry for a node that has none, so  *)
(* accounting_clean() answers true once the last region is released.       *)
UsageExact ==
  /\ DOMAIN node_usage = {n \in MemNode : LiveOn(n) # {}}
  /\ \A n \in DOMAIN node_usage : node_usage[n] = LiveBytes(n)
=============================================================================
