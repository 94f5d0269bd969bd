-------------------------- MODULE ReservationStore --------------------------
(***************************************************************************)
(* The NUMA-local reservation store (reservation/reservation_store.hpp,    *)
(* reservation_store.cpp).                                                 *)
(*                                                                         *)
(* Every public operation runs under the store's one mutex, so each is one *)
(* atomic action.  The three accounting maps are std::map objects whose    *)
(* key sets matter: operator[] inserts a zero entry, a release erases an   *)
(* entry that reaches zero, and accounting_clean() asks for empty maps.    *)
(* Calls that throw before they touch the store (an invalid node, an empty *)
(* request, an unknown or already released id, a stale generation) change  *)
(* nothing and are stuttering steps.                                       *)
(***************************************************************************)
EXTENDS Integers

CONSTANTS
  Node,           \* NUMA nodes a reservation may name
  Accelerator,    \* valid accelerator ids
  NoAccelerator,  \* AcceleratorId::invalid()
  Capacity,       \* what node_capacity_ answers; 0 means "unknown, no limit"
  AccelCeiling,   \* kAccelCeiling
  Word,           \* 2^64: node_mem_ and accel_mem_ hold uint64_t
  SlotWord,       \* 2^32: node_slots_ holds uint32_t
  Sizes,          \* the byte counts requests may ask for
  SlotCounts,     \* the cpu_slots requests may ask for
  MaxId           \* bound: the last reservation id the model hands out

ASSUME ReservationConstants ==
  /\ Word \in Nat \ {0}
  /\ SlotWord \in Nat \ {0}
  /\ Sizes \subseteq 0 .. Word - 1
  /\ SlotCounts \subseteq 0 .. SlotWord - 1
  /\ Capacity \in [Node -> 0 .. Word - 1]
  /\ AccelCeiling \in 0 .. Word - 1
  /\ NoAccelerator \notin Accelerator
  /\ MaxId \in Nat

VARIABLES
  reservations,  \* reservations_: id -> reservation
  node_mem,      \* node_mem_: reserved bytes per node
  node_slots,    \* node_slots_: reserved execution slots per node
  accel_mem,     \* accel_mem_: reserved bytes per accelerator
  next_id,       \* next_id_
  watermark      \* watermark_: the last generation handed out

storeVars ==
  <<reservations, node_mem, node_slots, accel_mem, next_id, watermark>>

ReservationId == 1 .. MaxId

Request ==
  [node: Node, bytes: Sizes, slots: SlotCounts,
   accel: Accelerator \cup {NoAccelerator}, accel_capacity: BOOLEAN]

Reservation ==
  [status: {"active", "released"}, generation: Nat, node: Node,
   bytes: 0 .. Word - 1, slots: 0 .. SlotWord - 1,
   accel: Accelerator \cup {NoAccelerator}, accel_capacity: BOOLEAN]

NoReservation == [status |-> "absent"]

Active(id) == reservations[id].status = "active"
Present(id) == reservations[id].status # "absent"

-----------------------------------------------------------------------------
(* A std::map from K to an unsigned integer: its keys, and the value of    *)
(* every key, 0 for the keys it does not have.                             *)
Map(K, w) == [keys: SUBSET K, val: [K -> 0 .. w - 1]]

EmptyMap(K) == [keys |-> {}, val |-> [k \in K |-> 0]]

(* m[k]: operator[] inserts a zero entry for a missing key. *)
Touch(m, k) == [keys |-> m.keys \cup {k}, val |-> m.val]

(* m[k] += x in w-bit unsigned arithmetic. *)
Plus(m, k, x, w) ==
  [keys |-> m.keys \cup {k}, val |-> [m.val EXCEPT ![k] = (@ + x) % w]]

(* release: m[k] -= x, erasing an entry that reaches zero; nothing happens *)
(* to a map that has no entry for k.                                       *)
Minus(m, k, x) ==
  IF k \notin m.keys
  THEN m
  ELSE [keys |-> IF m.val[k] = x THEN m.keys \ {k} ELSE m.keys,
        val  |-> [m.val EXCEPT ![k] = @ - x]]

(* The guard in front of that subtraction: "accounting underflow" if not. *)
Covers(m, k, x) == k \in m.keys => x <= m.val[k]

(* The accelerator dimension is claimed only by a valid id with the flag. *)
ClaimsAccel(r) == r.accel_capacity /\ r.accel # NoAccelerator

-----------------------------------------------------------------------------
StoreInit ==
  /\ reservations = [id \in ReservationId |-> NoReservation]
  /\ node_mem = EmptyMap(Node)
  /\ node_slots = EmptyMap(Node)
  /\ accel_mem = EmptyMap(Accelerator)
  /\ next_id = 1
  /\ watermark = 0

(* node_mem_[req.node], read by the capacity check when bytes are asked. *)
MemTouched(req) ==
  IF req.bytes = 0 THEN node_mem ELSE Touch(node_mem, req.node)

(* want > cap, where want wraps around like the uint64_t it is. *)
OverCapacity(req) ==
  /\ req.bytes # 0
  /\ Capacity[req.node] # 0
  /\ (node_mem.val[req.node] + req.bytes) % Word > Capacity[req.node]

(* Faulty variant: no accelerator ceiling. *)
OverCeilingNever(req) == FALSE

OverCeiling(req) ==
  /\ ClaimsAccel(req)
  /\ (accel_mem.val[req.accel] + req.bytes) % Word > AccelCeiling

(* Faulty variant: slots not booked. *)
ClaimNoSlots(r) ==
  /\ node_mem' = IF r.bytes = 0 THEN node_mem
                 ELSE Plus(node_mem, r.node, r.bytes, Word)
  /\ accel_mem' = IF ClaimsAccel(r)
                  THEN Plus(accel_mem, r.accel, r.bytes, Word)
                  ELSE accel_mem
  /\ UNCHANGED node_slots

(* The three maps after the claims of r are added to them. *)
Claim(r) ==
  /\ node_mem' = IF r.bytes = 0 THEN node_mem
                 ELSE Plus(node_mem, r.node, r.bytes, Word)
  /\ node_slots' = IF r.slots = 0 THEN node_slots
                   ELSE Plus(node_slots, r.node, r.slots, SlotWord)
  /\ accel_mem' = IF ClaimsAccel(r)
                  THEN Plus(accel_mem, r.accel, r.bytes, Word)
                  ELSE accel_mem

(* Faulty variants: an id skipped, the id not advanced, the generation not *)
(* advanced.                                                               *)
TakeIdentitySkipping(req) ==
  /\ next_id <= MaxId
  /\ req.bytes # 0 \/ req.slots # 0 \/ req.accel_capacity
  /\ next_id' = next_id + 2
  /\ watermark' = watermark + 1

TakeIdentitySameId(req) ==
  /\ next_id <= MaxId
  /\ req.bytes # 0 \/ req.slots # 0 \/ req.accel_capacity
  /\ watermark' = watermark + 1
  /\ UNCHANGED next_id

TakeIdentitySameGeneration(req) ==
  /\ next_id <= MaxId
  /\ req.bytes # 0 \/ req.slots # 0 \/ req.accel_capacity
  /\ next_id' = next_id + 1
  /\ UNCHANGED watermark

(* A request that passes the "nothing requested" test takes an id and a    *)
(* generation before any capacity check, refused or not.                   *)
TakeIdentity(req) ==
  /\ next_id <= MaxId
  /\ req.bytes # 0 \/ req.slots # 0 \/ req.accel_capacity
  /\ next_id' = next_id + 1
  /\ watermark' = watermark + 1

(* "memory capacity oversubscription": thrown after node_mem_[node] was    *)
(* evaluated.                                                              *)
ReserveRefusedByNode(req) ==
  /\ TakeIdentity(req)
  /\ OverCapacity(req)
  /\ node_mem' = MemTouched(req)
  /\ UNCHANGED <<reservations, node_slots, accel_mem>>

(* "accelerator-local capacity ceiling exceeded". *)
ReserveRefusedByAccelerator(req) ==
  /\ TakeIdentity(req)
  /\ ~OverCapacity(req)
  /\ OverCeiling(req)
  /\ node_mem' = MemTouched(req)
  /\ accel_mem' = Touch(accel_mem, req.accel)
  /\ UNCHANGED <<reservations, node_slots>>

ReserveAdmitted(req) ==
  /\ TakeIdentity(req)
  /\ ~OverCapacity(req)
  /\ ~OverCeiling(req)
  /\ Claim(req)
  /\ reservations' = [reservations EXCEPT ![next_id] =
       [status |-> "active", generation |-> watermark + 1, node |-> req.node,
        bytes |-> req.bytes, slots |-> req.slots, accel |-> req.accel,
        accel_capacity |-> req.accel_capacity]]

Reserve(req) ==
  \/ ReserveRefusedByNode(req)
  \/ ReserveRefusedByAccelerator(req)
  \/ ReserveAdmitted(req)

(* The underflow guards of release, in the order the code meets them. *)
MemCovered(r) == Covers(node_mem, r.node, r.bytes)
SlotsCovered(r) == Covers(node_slots, r.node, r.slots)
AccelCovered(r) == ClaimsAccel(r) => Covers(accel_mem, r.accel, r.bytes)
Releasable(r) == MemCovered(r) /\ SlotsCovered(r) /\ AccelCovered(r)

(* A release that meets an underflow throws after the maps before it were  *)
(* already decremented, and leaves the reservation active.  expected is    *)
(* the optional generation: the empty set, or the set of one generation.   *)
Release(id, expected) ==
  LET r == reservations[id] IN
  /\ Active(id)
  /\ \A g \in expected : g = r.generation
  /\ node_mem' = IF MemCovered(r) THEN Minus(node_mem, r.node, r.bytes)
                 ELSE node_mem
  /\ node_slots' = IF MemCovered(r) /\ SlotsCovered(r)
                   THEN Minus(node_slots, r.node, r.slots)
                   ELSE node_slots
  /\ accel_mem' = IF ClaimsAccel(r) /\ Releasable(r)
                  THEN Minus(accel_mem, r.accel, r.bytes)
                  ELSE accel_mem
  /\ reservations' = IF Releasable(r)
                     THEN [reservations EXCEPT ![id].status = "released"]
                     ELSE reservations
  /\ UNCHANGED <<next_id, watermark>>

OptionalGeneration == {{}} \cup {{g} : g \in 0 .. watermark}

StoreNext ==
  \/ \E req \in Request : Reserve(req)
  \/ \E id \in ReservationId, expected \in OptionalGeneration :
       Release(id, expected)

StoreSpec == StoreInit /\ [][StoreNext]_storeVars

-----------------------------------------------------------------------------
(* restore(r): recovery re-admits the persisted reservation r under its    *)
(* old id.  A known id throws (nothing changes).  next_id_ is left alone.  *)
RestoreRefused(id, r) ==
  /\ ~Present(id)
  /\ r.bytes # 0
  /\ Capacity[r.node] # 0
  /\ (node_mem.val[r.node] + r.bytes) % Word > Capacity[r.node]
  /\ node_mem' = Touch(node_mem, r.node)
  /\ UNCHANGED <<reservations, node_slots, accel_mem, next_id, watermark>>

(* Faulty variants: capacity not checked again; the claims not booked. *)
RestoreUnchecked(id, r) ==
  /\ ~Present(id)
  /\ Claim(r)
  /\ reservations' = [reservations EXCEPT ![id] = r]
  /\ watermark' = IF r.generation > watermark THEN r.generation ELSE watermark
  /\ UNCHANGED next_id

RestoreUnbooked(id, r) ==
  /\ ~Present(id)
  /\ reservations' = [reservations EXCEPT ![id] = r]
  /\ watermark' = IF r.generation > watermark THEN r.generation ELSE watermark
  /\ UNCHANGED <<node_mem, node_slots, accel_mem, next_id>>

RestoreAdmitted(id, r) ==
  /\ ~Present(id)
  /\ \/ r.bytes = 0
     \/ Capacity[r.node] = 0
     \/ (node_mem.val[r.node] + r.bytes) % Word <= Capacity[r.node]
  /\ Claim(r)
  /\ reservations' = [reservations EXCEPT ![id] = r]
  /\ watermark' = IF r.generation > watermark THEN r.generation ELSE watermark
  /\ UNCHANGED next_id

-----------------------------------------------------------------------------
(* The store's variables hold what their C++ types allow. *)
StoreTypeOK ==
  /\ reservations \in [ReservationId -> Reservation \cup {NoReservation}]
  /\ node_mem \in Map(Node, Word)
  /\ node_slots \in Map(Node, SlotWord)
  /\ accel_mem \in Map(Accelerator, Word)
  /\ next_id \in 1 .. MaxId + 1
  /\ watermark \in Nat

(* reserve and release never let the bytes booked on a node exceed the     *)
(* node's capacity, nor those booked on an accelerator the ceiling,        *)
(* whatever the order of admissions, refusals and releases.                *)
CapacityHonoured ==
  /\ \A n \in Node : Capacity[n] # 0 => node_mem.val[n] <= Capacity[n]
  /\ \A a \in Accelerator : accel_mem.val[a] <= AccelCeiling

(* Ids and generations are handed out together and never twice: every      *)
(* reservation lies below next_id_, and a later id has a later generation, *)
(* up to the watermark.  (A generation presented to release therefore      *)
(* names one reservation.)                                                 *)
GenerationOrder ==
  \A i \in ReservationId : Present(i) =>
    /\ i < next_id
    /\ reservations[i].generation <= watermark
    /\ \A j \in ReservationId : Present(j) /\ i < j =>
         reservations[i].generation < reservations[j].generation

(* A reservation, once admitted, is never rewritten: its claims and        *)
(* generation stay what they were admitted with, and a released one stays  *)
(* released (the "duplicate release" test relies on both).                 *)
ReleasedIsFinal ==
  [][\A id \in ReservationId : Present(id) =>
       reservations'[id] \in {reservations[id],
                             [reservations[id] EXCEPT !.status = "released"]}
    ]_storeVars
=============================================================================
