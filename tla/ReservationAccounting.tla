------------------------ MODULE ReservationAccounting -----------------------
(***************************************************************************)
(* Properties of the reservation store that compare its counters with the  *)
(* reservations they summarise, and the refinement of ReservationLedger.   *)
(***************************************************************************)
EXTENDS ReservationStore, Functions

ActiveIds == {id \in ReservationId : Active(id)}

(* What each active reservation claims. *)
Bytes == [id \in ActiveIds |-> reservations[id].bytes]
Slots == [id \in ActiveIds |-> reservations[id].slots]

OnNode(n) == {id \in ActiveIds : reservations[id].node = n}

OnAccel(a) ==
  {id \in ActiveIds : ClaimsAccel(reservations[id]) /\ reservations[id].accel = a}

NodeBytes(n) == SumFunctionOnSet(Bytes, OnNode(n))
NodeSlots(n) == SumFunctionOnSet(Slots, OnNode(n))
AccelBytes(a) == SumFunctionOnSet(Bytes, OnAccel(a))

(* No addition reserve makes can wrap around: not a request on top of a    *)
(* full node or a full accelerator, nor, where the store knows no limit,   *)
(* one on top of all the others.                                           *)
NoWraparound ==
  /\ \A n \in Node, s \in Sizes : Capacity[n] # 0 => Capacity[n] + s < Word
  /\ \A s \in Sizes : AccelCeiling + s < Word
  /\ \E b \in 0 .. Word - 1 : Sizes \subseteq 0 .. b /\ MaxId * b < Word
  /\ \E b \in 0 .. SlotWord - 1 : SlotCounts \subseteq 0 .. b /\ MaxId * b < SlotWord

(* The counters reserve and release maintain are exactly the sums of what  *)
(* the active reservations claim, in each of the three dimensions: a       *)
(* refusal, a partial failure or a release leaves no claim behind.         *)
LedgerExact ==
  /\ \A n \in Node : node_mem.val[n] = NodeBytes(n)
  /\ \A n \in Node : node_slots.val[n] = NodeSlots(n)
  /\ \A a \in Accelerator : accel_mem.val[a] = AccelBytes(a)

(* The bytes promised to active reservations fit the node they name        *)
(* (reservation_store.hpp: "Oversubscription ... rejected").               *)
NoOversubscription ==
  \A n \in Node : Capacity[n] # 0 => NodeBytes(n) <= Capacity[n]

(* accounting_clean() answers true whenever no reservation is active.      *)
CleanWhenIdle ==
  ActiveIds = {} =>
    node_mem.keys = {} /\ node_slots.keys = {} /\ accel_mem.keys = {}

(* What an active reservation claims, as the ledger sees it. *)
ClaimOf ==
  [id \in ActiveIds |->
     [id |-> id, node |-> reservations[id].node, bytes |-> reservations[id].bytes,
      accel |-> IF ClaimsAccel(reservations[id])
                THEN reservations[id].accel ELSE NoAccelerator]]

LiveClaims == {ClaimOf[id] : id \in ActiveIds}

(* The store implements the ledger: a live claim is an active reservation, *)
(* a spent id one below next_id_.                                          *)
Ledger == INSTANCE ReservationLedger WITH
  live  <- LiveClaims,
  spent <- 1 .. next_id - 1

(* Every step of the store is an admission that fits, a refusal that only  *)
(* spends an id, or a retirement of one live claim.                        *)
ImplementsLedger == Ledger!LedgerSpec
=============================================================================
