---------------------------- MODULE RuntimeProofs ----------------------------
(***************************************************************************)
(* Safety of the two stores a runtime owns: the worker registry, for every *)
(* number of workers and boots, and the reservation store, for every set   *)
(* of nodes, accelerators and capacities, every word width and every       *)
(* number of reservations.                                                 *)
(***************************************************************************)
EXTENDS WorkerRegistry, ReservationAccounting, SumProofs

USE DEF Known

LEMMA FreshWorkerType ==
  ASSUME NEW b \in 1 .. MaxBoot, NEW i \in Nat
  PROVE  FreshWorker(b, i) \in Worker
BY DEF FreshWorker, Worker

LEMMA KnownIsWorker ==
  ASSUME RegistryTypeOK, NEW w \in WorkerId, Known(w)
  PROVE  workers[w] \in Worker
BY DEF RegistryTypeOK, NoWorker

(* A registration, first or repeated, gives worker w a boot no worker has  *)
(* and leaves the others alone.                                            *)
LEMMA BrandedRecord ==
  ASSUME RegistryTypeOK, NEW w \in WorkerId, RegisterWorker(w) \/ RestartWorker(w)
  PROVE  /\ next_boot \in 1 .. MaxBoot
         /\ next_boot' = next_boot + 1
         /\ \E i \in Nat : /\ workers' = [workers EXCEPT ![w] = FreshWorker(next_boot, i)]
                           /\ Known(w) => i = workers[w].incarnation + 1
<1>1. next_boot \in 1 .. MaxBoot /\ next_boot' = next_boot + 1
  BY RegistryConstants DEF RegisterWorker, RestartWorker, TakeBoot, RegistryTypeOK
<1>2. CASE RegisterWorker(w)
  BY <1>1, <1>2, ZenonT(60) DEF RegisterWorker
<1>3. CASE RestartWorker(w)
  <2>1. workers[w].incarnation + 1 \in Nat
    BY <1>3, KnownIsWorker DEF RestartWorker, Worker
  <2>2. QED
    BY <1>1, <1>3, <2>1, ZenonT(60) DEF RestartWorker
<1>4. QED
  BY <1>2, <1>3

LEMMA DeadRecord ==
  ASSUME NEW r \in Worker
  PROVE  LET d == [r EXCEPT !.alive = FALSE]
         IN  d \in Worker /\ d.boot = r.boot /\ d.incarnation = r.incarnation /\ ~d.alive
BY ZenonT(60) DEF Worker

LEMMA ObservedRecord ==
  ASSUME NEW r \in Worker, NEW g \in Nat
  PROVE  LET d == [r EXCEPT !.observation = g]
         IN  d \in Worker /\ d.boot = r.boot /\ d.incarnation = r.incarnation /\ d.alive = r.alive
BY DEF Worker

(* What every step but a registration does: no boot or incarnation moves   *)
(* and no worker comes back to life.                                       *)
SameBoots ==
  /\ next_boot' = next_boot
  /\ \A v \in WorkerId :
       /\ workers'[v].boot = workers[v].boot
       /\ workers'[v].alive => workers[v].alive
       /\ Known(v) => workers'[v].incarnation = workers[v].incarnation

(* Replacing the record of a known worker by one with the same boot and    *)
(* incarnation, alive only if it was.                                      *)
LEMMA ReplacedRecord ==
  ASSUME RegistryTypeOK, NEW w \in WorkerId, Known(w), NEW r \in Worker,
         workers' = [workers EXCEPT ![w] = r], next_boot' = next_boot,
         r.boot = workers[w].boot, r.incarnation = workers[w].incarnation,
         r.alive => workers[w].alive
  PROVE  RegistryTypeOK' /\ SameBoots
BY DEF RegistryTypeOK, SameBoots

LEMMA MarkDeadKeeps ==
  ASSUME RegistryTypeOK, NEW w \in WorkerId, NEW boot, MarkDead(w, boot)
  PROVE  RegistryTypeOK' /\ SameBoots
<1>1. CASE workers' = workers
  BY <1>1, ZenonT(60) DEF MarkDead, RegistryTypeOK, SameBoots
<1>2. CASE workers' # workers
  <2> DEFINE r == [workers[w] EXCEPT !.alive = FALSE]
  <2>1. Known(w) /\ workers' = [workers EXCEPT ![w] = r] /\ next_boot' = next_boot
    BY <1>2 DEF MarkDead
  <2>2. workers[w] \in Worker
    BY <2>1, KnownIsWorker
  <2>3. r \in Worker /\ r.boot = workers[w].boot /\ ~r.alive
        /\ r.incarnation = workers[w].incarnation
    BY <2>2, DeadRecord
  <2> HIDE DEF r
  <2>4. QED
    BY <2>1, <2>3, ReplacedRecord, ZenonT(60)
<1>3. QED
  BY <1>1, <1>2

(* No store of a binding's field touches what the boot fences rest on, nor *)
(* the observation.                                                        *)
LEMMA StoredField ==
  ASSUME NEW r \in Worker, NEW field \in BindingFields, NEW node \in BindNode,
         NEW g \in Nat
  PROVE  LET s == WithField(r, field, node, g)
         IN  /\ s \in Worker
             /\ s.boot = r.boot /\ s.alive = r.alive
             /\ s.incarnation = r.incarnation /\ s.observation = r.observation
<1>1. CASE field = "generation"
  BY <1>1, ZenonT(60) DEF WithField, Worker
<1>2. CASE field = "node"
  BY <1>2, ZenonT(60) DEF WithField, Worker
<1>3. CASE field = "bound"
  BY <1>3, ZenonT(60) DEF WithField, Worker
<1>4. CASE field = "requested"
  BY <1>4, ZenonT(60) DEF WithField, Worker
<1>5. CASE field = "current"
  BY <1>5, ZenonT(60) DEF WithField, Worker
<1>6. QED
  BY <1>1, <1>2, <1>3, <1>4, <1>5, ZenonT(60) DEF BindingFields

LEMMA WriteBindingKeeps ==
  ASSUME RegistryTypeOK, NEW w \in WorkerId, NEW field \in BindingFields,
         NEW node \in BindNode, NEW g \in Nat, WriteBinding(w, field, node, g)
  PROVE  RegistryTypeOK' /\ SameBoots
<1> DEFINE r == WithField(workers[w], field, node, g)
<1>1. Known(w) /\ next_boot' = next_boot
  BY DEF WriteBinding
<1>2. workers[w] \in Worker
  BY <1>1, KnownIsWorker
<1>3. workers' = [workers EXCEPT ![w] = r]
  BY ZenonT(60) DEF WriteBinding, RegistryTypeOK
<1>4. r \in Worker /\ r.boot = workers[w].boot /\ r.alive = workers[w].alive
      /\ r.incarnation = workers[w].incarnation
  BY <1>2, StoredField, ZenonT(60)
<1> HIDE DEF r
<1>5. QED
  BY <1>1, <1>3, <1>4, ReplacedRecord, ZenonT(60)

LEMMA WriteObservationKeeps ==
  ASSUME RegistryTypeOK, NEW w \in WorkerId, NEW g \in Nat, WriteObservation(w, g)
  PROVE  RegistryTypeOK' /\ SameBoots
<1> DEFINE r == [workers[w] EXCEPT !.observation = g]
<1>1. Known(w) /\ next_boot' = next_boot
  BY DEF WriteObservation
<1>2. workers[w] \in Worker
  BY <1>1, KnownIsWorker
<1>3. workers' = [workers EXCEPT ![w] = r]
  BY DEF WriteObservation, RegistryTypeOK
<1>4. r \in Worker /\ r.boot = workers[w].boot /\ r.alive = workers[w].alive
      /\ r.incarnation = workers[w].incarnation
  BY <1>2, ObservedRecord
<1> HIDE DEF r
<1>5. QED
  BY <1>1, <1>3, <1>4, ReplacedRecord, ZenonT(60)

(* A registry step is a registration of one worker or keeps all boots. *)
LEMMA RegistryStep ==
  ASSUME RegistryTypeOK, [RegistryNext]_registryVars
  PROVE  \/ \E w \in WorkerId : RegisterWorker(w) \/ RestartWorker(w)
         \/ RegistryTypeOK' /\ SameBoots
<1>1. CASE UNCHANGED registryVars
  BY <1>1 DEF registryVars, RegistryTypeOK, SameBoots
<1>2. ASSUME NEW w \in WorkerId, NEW boot \in 1 .. next_boot - 1, MarkDead(w, boot)
      PROVE  RegistryTypeOK' /\ SameBoots
  BY <1>2, MarkDeadKeeps
<1>3. ASSUME NEW w \in WorkerId, NEW field \in BindingFields, NEW node \in BindNode,
             NEW g \in Generation, WriteBinding(w, field, node, g)
      PROVE  RegistryTypeOK' /\ SameBoots
  BY <1>3, RegistryConstants, WriteBindingKeeps
<1>4. ASSUME NEW w \in WorkerId, NEW g \in Generation, WriteObservation(w, g)
      PROVE  RegistryTypeOK' /\ SameBoots
  BY <1>4, RegistryConstants, WriteObservationKeeps
<1>5. QED
  BY <1>1, <1>2, <1>3, <1>4 DEF RegistryNext

LEMMA BrandedType ==
  ASSUME RegistryTypeOK, NEW w \in WorkerId, RegisterWorker(w) \/ RestartWorker(w)
  PROVE  RegistryTypeOK'
<1>1. PICK i \in Nat : workers' = [workers EXCEPT ![w] = FreshWorker(next_boot, i)]
  BY BrandedRecord
<1>2. next_boot \in 1 .. MaxBoot /\ next_boot' = next_boot + 1
  BY BrandedRecord
<1>3. FreshWorker(next_boot, i) \in Worker
  BY <1>2, FreshWorkerType
<1>4. QED
  BY <1>1, <1>2, <1>3, RegistryConstants DEF RegistryTypeOK

(* The registry's variables keep their types. *)
THEOREM RegistryTypeCorrect == RegistrySpec => []RegistryTypeOK
<1>1. RegistryInit => RegistryTypeOK
  BY RegistryConstants DEF RegistryInit, RegistryTypeOK
<1>2. RegistryTypeOK /\ [RegistryNext]_registryVars => RegistryTypeOK'
  BY RegistryStep, BrandedType
<1>3. QED
  BY <1>1, <1>2, PTL DEF RegistrySpec

-----------------------------------------------------------------------------
LEMMA BrandedDistinct ==
  ASSUME RegistryTypeOK, BootsDistinct, NEW w \in WorkerId,
         RegisterWorker(w) \/ RestartWorker(w)
  PROVE  BootsDistinct'
<1>1. PICK i \in Nat : workers' = [workers EXCEPT ![w] = FreshWorker(next_boot, i)]
  BY BrandedRecord
<1>2. next_boot \in 1 .. MaxBoot /\ next_boot' = next_boot + 1
  BY BrandedRecord
<1>3. workers'[w].boot = next_boot
  BY <1>1 DEF FreshWorker, RegistryTypeOK
<1>4. \A v \in WorkerId \ {w} : workers'[v] = workers[v]
  BY <1>1 DEF RegistryTypeOK
<1>5. \A v \in WorkerId : workers[v].boot < next_boot /\ workers[v].boot \in Nat
  <2> TAKE v \in WorkerId
  <2>1. CASE Known(v)
    BY <2>1, KnownIsWorker DEF BootsDistinct, Worker
  <2>2. CASE ~Known(v)
    BY <1>2, <2>2
  <2>3. QED
    BY <2>1, <2>2
<1>6. SUFFICES ASSUME NEW v \in WorkerId, workers'[v].boot # 0
               PROVE  /\ workers'[v].boot < next_boot'
                      /\ \A u \in WorkerId \ {v} : workers'[u].boot # workers'[v].boot
  BY DEF BootsDistinct
<1>7. CASE v = w
  BY <1>2, <1>3, <1>4, <1>5, <1>7
<1>8. CASE v # w
  BY <1>2, <1>3, <1>4, <1>5, <1>6, <1>8, SMTT(30) DEF BootsDistinct
<1>9. QED
  BY <1>7, <1>8

LEMMA BootsDistinctStep ==
  ASSUME RegistryTypeOK, BootsDistinct, [RegistryNext]_registryVars
  PROVE  BootsDistinct'
<1>1. CASE SameBoots
  BY <1>1 DEF SameBoots, BootsDistinct
<1>2. QED
  BY <1>1, RegistryStep, BrandedDistinct

(* A boot id is carried by one worker at most, and was handed out. *)
THEOREM RegistryBootsDistinct == RegistrySpec => []BootsDistinct
<1>1. RegistryInit => BootsDistinct
  BY DEF RegistryInit, BootsDistinct, NoWorker
<1>2. RegistryTypeOK /\ BootsDistinct /\ [RegistryNext]_registryVars => BootsDistinct'
  BY BootsDistinctStep
<1>3. QED
  BY <1>1, <1>2, RegistryTypeCorrect, PTL DEF RegistrySpec

-----------------------------------------------------------------------------
(* The change BootsAreFences allows worker w in one step. *)
Fenced(w) ==
  Known(w) =>
    /\ workers'[w].boot >= workers[w].boot
    /\ workers'[w].incarnation - workers[w].incarnation
         = IF workers'[w].boot = workers[w].boot THEN 0 ELSE 1
    /\ \A boot \in 1 .. next_boot - 1 : ValidBoot(w, boot)' => ValidBoot(w, boot)

(* A step that registers a worker, or keeps all boots, is fenced. *)
LEMMA FencedChange ==
  ASSUME RegistryTypeOK, BootsDistinct,
         SameBoots \/ \E w \in WorkerId : RegisterWorker(w) \/ RestartWorker(w),
         NEW v \in WorkerId
  PROVE  Fenced(v)
<1> SUFFICES ASSUME Known(v)
             PROVE  /\ workers'[v].boot >= workers[v].boot
                    /\ workers'[v].incarnation - workers[v].incarnation
                         = IF workers'[v].boot = workers[v].boot THEN 0 ELSE 1
                    /\ \A boot \in 1 .. next_boot - 1 :
                         ValidBoot(v, boot)' => ValidBoot(v, boot)
  BY DEF Fenced
<1>1. workers[v] \in Worker /\ workers[v].boot \in Nat /\ workers[v].incarnation \in Nat
      /\ workers[v].boot < next_boot /\ next_boot \in Nat
  BY KnownIsWorker, RegistryConstants, SMTT(30) DEF Worker, BootsDistinct, RegistryTypeOK
<1>2. CASE SameBoots
  BY <1>1, <1>2, SMTT(30) DEF SameBoots, ValidBoot
<1>3. ASSUME NEW w \in WorkerId, RegisterWorker(w) \/ RestartWorker(w)
      PROVE  /\ workers'[v].boot >= workers[v].boot
             /\ workers'[v].incarnation - workers[v].incarnation
                  = IF workers'[v].boot = workers[v].boot THEN 0 ELSE 1
             /\ \A boot \in 1 .. next_boot - 1 :
                  ValidBoot(v, boot)' => ValidBoot(v, boot)
  <2>1. PICK i \in Nat : /\ workers' = [workers EXCEPT ![w] = FreshWorker(next_boot, i)]
                         /\ Known(w) => i = workers[w].incarnation + 1
    BY <1>3, BrandedRecord, ZenonT(60)
  <2>2. CASE v # w
    <3>1. workers'[v] = workers[v]
      BY <2>1, <2>2, ZenonT(60) DEF RegistryTypeOK
    <3>2. QED
      BY <1>1, <3>1 DEF ValidBoot
  <2>3. CASE v = w
    <3>1. workers'[v].boot = next_boot /\ workers'[v].incarnation = workers[v].incarnation + 1
      BY <2>1, <2>3 DEF FreshWorker, RegistryTypeOK
    <3>2. QED
      BY <1>1, <3>1, SMTT(30) DEF ValidBoot
  <2>4. QED
    BY <2>2, <2>3
<1>4. QED
  BY <1>2, <1>3

(* Boots fence incarnations: they only grow, together with the             *)
(* incarnation, and no invalid boot becomes valid again.                   *)
THEOREM RegistryBootsAreFences == RegistrySpec => BootsAreFences
<1>1. RegistryTypeOK /\ BootsDistinct /\ [RegistryNext]_registryVars
        => [\A w \in WorkerId : Fenced(w)]_registryVars
  BY RegistryStep, FencedChange
<1>2. QED
  BY <1>1, RegistryTypeCorrect, RegistryBootsDistinct, PTL
  DEF RegistrySpec, BootsAreFences, Fenced

HIDE DEF Known

-----------------------------------------------------------------------------
(* The reservation store. *)

(* The map helpers keep a map a map. *)
LEMMA TouchType ==
  ASSUME NEW K, NEW w \in Nat \ {0}, NEW m \in Map(K, w), NEW k \in K
  PROVE  Touch(m, k) \in Map(K, w)
BY Zenon DEF Touch, Map

LEMMA PlusType ==
  ASSUME NEW K, NEW w \in Nat \ {0}, NEW m \in Map(K, w), NEW k \in K,
         NEW x \in Nat
  PROVE  Plus(m, k, x, w) \in Map(K, w)
<1>1. (m.val[k] + x) % w \in 0 .. w - 1
  BY DEF Map
<1>2. QED
  BY <1>1, Zenon DEF Plus, Map

LEMMA MinusType ==
  ASSUME NEW K, NEW w \in Nat \ {0}, NEW m \in Map(K, w), NEW k \in K,
         NEW x \in Nat, Covers(m, k, x)
  PROVE  Minus(m, k, x) \in Map(K, w)
<1>1. CASE k \notin m.keys
  BY <1>1, Zenon DEF Minus
<1>2. CASE k \in m.keys
  <2>1. m.val[k] - x \in 0 .. w - 1
    BY <1>2 DEF Covers, Map
  <2>2. QED
    BY <1>2, <2>1, Zenon DEF Minus, Map
<1>3. QED
  BY <1>1, <1>2, Zenon

-----------------------------------------------------------------------------
(* What an admitted claim does to the maps, given the types. *)
LEMMA ClaimType ==
  ASSUME StoreTypeOK,
         NEW r \in [node: Node, bytes: 0 .. Word - 1, slots: 0 .. SlotWord - 1,
                    accel: Accelerator \cup {NoAccelerator},
                    accel_capacity: BOOLEAN],
         Claim(r)
  PROVE  /\ node_mem' \in Map(Node, Word)
         /\ node_slots' \in Map(Node, SlotWord)
         /\ accel_mem' \in Map(Accelerator, Word)
<1> USE ReservationConstants DEF StoreTypeOK
<1>1. node_mem' \in Map(Node, Word)
  BY PlusType DEF Claim
<1>2. node_slots' \in Map(Node, SlotWord)
  BY PlusType DEF Claim
<1>3. accel_mem' \in Map(Accelerator, Word)
  BY PlusType DEF Claim, ClaimsAccel
<1>4. QED
  BY <1>1, <1>2, <1>3, ZenonT(60)

LEMMA RequestFields ==
  ASSUME NEW req \in Request
  PROVE  req \in [node: Node, bytes: 0 .. Word - 1, slots: 0 .. SlotWord - 1,
                  accel: Accelerator \cup {NoAccelerator},
                  accel_capacity: BOOLEAN]
BY ReservationConstants, Zenon DEF Request

LEMMA ReserveType ==
  ASSUME StoreTypeOK, NEW req \in Request, Reserve(req)
  PROVE  StoreTypeOK'
<1> USE ReservationConstants
<1>1. next_id' \in 1 .. MaxId + 1 /\ watermark' \in Nat
  BY DEF StoreTypeOK, Reserve, ReserveRefusedByNode,
         ReserveRefusedByAccelerator, ReserveAdmitted, TakeIdentity
<1>2. MemTouched(req) \in Map(Node, Word)
  BY TouchType, Zenon DEF MemTouched, StoreTypeOK, Request
<1>3. CASE ReserveRefusedByNode(req)
  BY <1>1, <1>2, <1>3, Zenon DEF ReserveRefusedByNode, StoreTypeOK
<1>4. CASE ReserveRefusedByAccelerator(req)
  <2>1. Touch(accel_mem, req.accel) \in Map(Accelerator, Word)
    BY <1>4, TouchType, Zenon
    DEF ReserveRefusedByAccelerator, OverCeiling, ClaimsAccel, StoreTypeOK,
        Request
  <2>2. QED
    BY <1>1, <1>2, <1>4, <2>1, ZenonT(60) DEF ReserveRefusedByAccelerator, StoreTypeOK
<1>5. CASE ReserveAdmitted(req)
  <2>1. /\ node_mem' \in Map(Node, Word)
        /\ node_slots' \in Map(Node, SlotWord)
        /\ accel_mem' \in Map(Accelerator, Word)
    BY <1>5, ClaimType, RequestFields, ZenonT(60) DEF ReserveAdmitted
  <2>2. [status |-> "active", generation |-> watermark + 1, node |-> req.node,
         bytes |-> req.bytes, slots |-> req.slots, accel |-> req.accel,
         accel_capacity |-> req.accel_capacity] \in Reservation
    BY RequestFields DEF Reservation, StoreTypeOK
  <2>3. reservations' \in [ReservationId -> Reservation \cup {NoReservation}]
    BY <1>5, <2>2, Zenon DEF ReserveAdmitted, StoreTypeOK
  <2>4. QED
    BY <1>1, <2>1, <2>3, ZenonT(60) DEF StoreTypeOK
<1>6. QED
  BY <1>3, <1>4, <1>5, ZenonT(60) DEF Reserve

LEMMA ActiveIsReservation ==
  ASSUME StoreTypeOK, NEW id \in ReservationId, Present(id)
  PROVE  reservations[id] \in Reservation
BY DEF StoreTypeOK, Present, NoReservation

LEMMA ReleaseType ==
  ASSUME StoreTypeOK, NEW id \in ReservationId, NEW expected,
         Release(id, expected)
  PROVE  StoreTypeOK'
<1> DEFINE r == reservations[id]
<1> USE ReservationConstants
<1>1. r \in Reservation
  BY ActiveIsReservation, ZenonT(60) DEF Release, Active, Present
<1>2. node_mem' \in Map(Node, Word)
  BY <1>1, MinusType, SMTT(30) DEF Release, MemCovered, StoreTypeOK, Reservation
<1>3. node_slots' \in Map(Node, SlotWord)
  BY <1>1, MinusType DEF Release, SlotsCovered, StoreTypeOK, Reservation
<1>4. accel_mem' \in Map(Accelerator, Word)
  BY <1>1, MinusType
  DEF Release, Releasable, AccelCovered, ClaimsAccel, StoreTypeOK, Reservation
<1>5. [r EXCEPT !.status = "released"] \in Reservation
  BY <1>1, Zenon DEF Reservation
<1>6. reservations' \in [ReservationId -> Reservation \cup {NoReservation}]
  BY <1>5, ZenonT(60) DEF Release, StoreTypeOK
<1>7. QED
  BY <1>2, <1>3, <1>4, <1>6, ZenonT(60) DEF Release, StoreTypeOK

(* The variables of the store keep their C++ types, in particular no       *)
(* counter ever goes below zero or past its word.                          *)
THEOREM StoreTypeCorrect == StoreSpec => []StoreTypeOK
<1>1. StoreInit => StoreTypeOK
  BY ReservationConstants
  DEF StoreInit, StoreTypeOK, EmptyMap, Map, ReservationId, NoReservation
<1>2. StoreTypeOK /\ [StoreNext]_storeVars => StoreTypeOK'
  <2> SUFFICES ASSUME StoreTypeOK, [StoreNext]_storeVars PROVE StoreTypeOK'
    BY Zenon
  <2>1. CASE UNCHANGED storeVars
    BY <2>1, Zenon DEF storeVars, StoreTypeOK
  <2>2. ASSUME NEW req \in Request, Reserve(req) PROVE StoreTypeOK'
    BY <2>2, ReserveType, Zenon
  <2>3. ASSUME NEW id \in ReservationId, NEW expected \in OptionalGeneration,
               Release(id, expected)
        PROVE  StoreTypeOK'
    BY <2>3, ReleaseType, Zenon
  <2>4. QED
    BY <2>1, <2>2, <2>3, Zenon DEF StoreNext
<1>3. QED
  BY <1>1, <1>2, PTL DEF StoreSpec

-----------------------------------------------------------------------------
(* A map entry other than k is untouched, and k gets its new value. *)
LEMMA PlusValue ==
  ASSUME NEW K, NEW w \in Nat \ {0}, NEW m \in Map(K, w), NEW k \in K,
         NEW x \in Nat, NEW j \in K
  PROVE  Plus(m, k, x, w).val[j] = IF j = k THEN (m.val[k] + x) % w ELSE m.val[j]
BY Zenon DEF Plus, Map

(* A covered subtraction never increases an entry. *)
LEMMA MinusValue ==
  ASSUME NEW K, NEW w \in Nat \ {0}, NEW m \in Map(K, w), NEW k \in K,
         NEW x \in Nat, NEW j \in K
  PROVE  Minus(m, k, x).val[j] <= m.val[j]
<1>1. CASE k \notin m.keys
  BY <1>1 DEF Minus, Map
<1>2. CASE k \in m.keys
  BY <1>2 DEF Minus, Map
<1>3. QED
  BY <1>1, <1>2, Zenon

LEMMA ReserveCapacity ==
  ASSUME StoreTypeOK, CapacityHonoured, NEW req \in Request, Reserve(req)
  PROVE  CapacityHonoured'
<1> USE ReservationConstants
<1>1. CASE ReserveRefusedByNode(req)
  BY <1>1, Zenon DEF ReserveRefusedByNode, MemTouched, Touch, CapacityHonoured
<1>2. CASE ReserveRefusedByAccelerator(req)
  BY <1>2, Zenon DEF ReserveRefusedByAccelerator, MemTouched, Touch, CapacityHonoured
<1>3. CASE ReserveAdmitted(req)
  <2>1. ASSUME NEW n \in Node, Capacity[n] # 0
        PROVE  node_mem'.val[n] <= Capacity[n]
    <3>1. CASE req.bytes = 0
      BY <1>3, <2>1, <3>1, Zenon DEF ReserveAdmitted, Claim, CapacityHonoured
    <3>2. CASE req.bytes # 0
      <4>1. node_mem' = Plus(node_mem, req.node, req.bytes, Word)
        BY <1>3, <3>2, ZenonT(60) DEF ReserveAdmitted, Claim
      <4>2. node_mem'.val[n] = IF n = req.node
                               THEN (node_mem.val[req.node] + req.bytes) % Word
                               ELSE node_mem.val[n]
        BY <4>1, PlusValue, RequestFields, SMTT(30) DEF StoreTypeOK
      <4>3. n = req.node =>
              (node_mem.val[req.node] + req.bytes) % Word <= Capacity[n]
        BY <1>3, <2>1, <3>2, RequestFields, SMTT(30)
        DEF ReserveAdmitted, OverCapacity, StoreTypeOK, Map
      <4>4. QED
        BY <2>1, <4>2, <4>3, Zenon DEF CapacityHonoured
    <3>3. QED
      BY <3>1, <3>2, Zenon
  <2>2. ASSUME NEW a \in Accelerator
        PROVE  accel_mem'.val[a] <= AccelCeiling
    <3>1. CASE ~ClaimsAccel(req)
      BY <1>3, <3>1, Zenon DEF ReserveAdmitted, Claim, CapacityHonoured
    <3>2. CASE ClaimsAccel(req)
      <4>1. req.accel \in Accelerator
        BY <3>2, RequestFields, Zenon DEF ClaimsAccel
      <4>2. accel_mem' = Plus(accel_mem, req.accel, req.bytes, Word)
        BY <1>3, <3>2, ZenonT(60) DEF ReserveAdmitted, Claim
      <4>3. accel_mem'.val[a] = IF a = req.accel
                                THEN (accel_mem.val[req.accel] + req.bytes) % Word
                                ELSE accel_mem.val[a]
        BY <4>1, <4>2, PlusValue, RequestFields, SMTT(30) DEF StoreTypeOK
      <4>4. (accel_mem.val[req.accel] + req.bytes) % Word <= AccelCeiling
        BY <1>3, <3>2, <4>1, RequestFields, SMTT(30)
        DEF ReserveAdmitted, OverCeiling, StoreTypeOK, Map
      <4>5. QED
        BY <4>3, <4>4, Zenon DEF CapacityHonoured
    <3>3. QED
      BY <3>1, <3>2, Zenon
  <2>3. QED
    BY <2>1, <2>2, Zenon DEF CapacityHonoured
<1>4. QED
  BY <1>1, <1>2, <1>3, Zenon DEF Reserve

LEMMA ReleaseCapacity ==
  ASSUME StoreTypeOK, StoreTypeOK', CapacityHonoured,
         NEW id \in ReservationId, NEW expected, Release(id, expected)
  PROVE  CapacityHonoured'
<1> DEFINE r == reservations[id]
<1> USE ReservationConstants
<1>1. r \in Reservation
  BY ActiveIsReservation, Zenon DEF Release, Active, Present
<1>2. \A n \in Node : node_mem'.val[n] <= node_mem.val[n]
  <2>1. \A n \in Node : Minus(node_mem, r.node, r.bytes).val[n] <= node_mem.val[n]
    BY <1>1, MinusValue, SMTT(30) DEF StoreTypeOK, Reservation
  <2>2. \A n \in Node : node_mem.val[n] <= node_mem.val[n]
    BY DEF StoreTypeOK, Map
  <2>3. QED
    BY <2>1, <2>2, ZenonT(60) DEF Release
<1>3. \A a \in Accelerator : accel_mem'.val[a] <= accel_mem.val[a]
  <2>1. ClaimsAccel(r) => \A a \in Accelerator :
          Minus(accel_mem, r.accel, r.bytes).val[a] <= accel_mem.val[a]
    BY <1>1, MinusValue DEF StoreTypeOK, Reservation, ClaimsAccel
  <2>2. \A a \in Accelerator : accel_mem.val[a] <= accel_mem.val[a]
    BY DEF StoreTypeOK, Map
  <2>3. QED
    BY <2>1, <2>2, ZenonT(60) DEF Release
<1>4. QED
  BY <1>2, <1>3 DEF CapacityHonoured, StoreTypeOK, Map

(* The bytes booked on a node never exceed its capacity and those booked   *)
(* on an accelerator never exceed the ceiling, even where the unsigned     *)
(* additions of reserve wrap around.                                       *)
THEOREM StoreCapacity == StoreSpec => []CapacityHonoured
<1>1. StoreInit => CapacityHonoured
  BY ReservationConstants DEF StoreInit, CapacityHonoured, EmptyMap
<1>2. StoreTypeOK /\ StoreTypeOK' /\ CapacityHonoured /\ [StoreNext]_storeVars
        => CapacityHonoured'
  <2> SUFFICES ASSUME StoreTypeOK, StoreTypeOK', CapacityHonoured,
                      [StoreNext]_storeVars
               PROVE  CapacityHonoured'
    BY Zenon
  <2>1. CASE UNCHANGED storeVars
    BY <2>1, Zenon DEF storeVars, CapacityHonoured
  <2>2. ASSUME NEW req \in Request, Reserve(req) PROVE CapacityHonoured'
    BY <2>2, ReserveCapacity, Zenon
  <2>3. ASSUME NEW id \in ReservationId, NEW expected \in OptionalGeneration,
               Release(id, expected)
        PROVE  CapacityHonoured'
    BY <2>3, ReleaseCapacity, Zenon
  <2>4. QED
    BY <2>1, <2>2, <2>3, Zenon DEF StoreNext
<1>3. QED
  BY <1>1, <1>2, StoreTypeCorrect, PTL DEF StoreSpec

-----------------------------------------------------------------------------
LEMMA ReserveOrder ==
  ASSUME StoreTypeOK, GenerationOrder, NEW req \in Request, Reserve(req)
  PROVE  GenerationOrder'
<1> USE ReservationConstants
<1>1. next_id' = next_id + 1 /\ watermark' = watermark + 1 /\ next_id \in ReservationId
  BY DEF Reserve, ReserveRefusedByNode, ReserveRefusedByAccelerator,
         ReserveAdmitted, TakeIdentity, StoreTypeOK, ReservationId
<1>2. \A i \in ReservationId : Present(i) => reservations[i].generation \in Nat
  BY ActiveIsReservation, Zenon DEF Reservation
<1>3. CASE reservations' = reservations
  BY <1>1, <1>2, <1>3 DEF GenerationOrder, Present, StoreTypeOK, ReservationId
<1>4. CASE ReserveAdmitted(req)
  <2>1. /\ reservations'[next_id].generation = watermark + 1
        /\ \A i \in ReservationId \ {next_id} : reservations'[i] = reservations[i]
    BY <1>1, <1>4, Zenon DEF ReserveAdmitted, StoreTypeOK
  <2>2. \A i \in ReservationId \ {next_id} : Present(i)' => Present(i)
    BY <2>1, Zenon DEF Present
  <2>3. SUFFICES ASSUME NEW i \in ReservationId, Present(i)',
                        NEW j \in ReservationId
                 PROVE  /\ i < next_id'
                        /\ reservations'[i].generation <= watermark'
                        /\ Present(j)' /\ i < j =>
                             reservations'[i].generation < reservations'[j].generation
    BY ZenonT(60) DEF GenerationOrder
  <2>4. CASE i = next_id
    BY <1>1, <2>1, <2>2, <2>4, SMTT(30) DEF GenerationOrder, StoreTypeOK, ReservationId
  <2>5. CASE i # next_id /\ j = next_id
    BY <1>1, <1>2, <2>1, <2>2, <2>3, <2>5, SMTT(30)
    DEF GenerationOrder, StoreTypeOK, ReservationId
  <2>6. CASE i # next_id /\ j # next_id
    BY <1>1, <1>2, <2>1, <2>2, <2>3, <2>6, SMTT(30)
    DEF GenerationOrder, StoreTypeOK, ReservationId
  <2>7. QED
    BY <2>4, <2>5, <2>6, Zenon
<1>5. QED
  BY <1>3, <1>4, ZenonT(60)
  DEF Reserve, ReserveRefusedByNode, ReserveRefusedByAccelerator

LEMMA ReleaseKeepsIdentity ==
  ASSUME StoreTypeOK, NEW id \in ReservationId, NEW expected,
         Release(id, expected), NEW i \in ReservationId
  PROVE  /\ reservations'[i] \in {reservations[i],
                                 [reservations[i] EXCEPT !.status = "released"]}
         /\ Present(i)' = Present(i)
         /\ Present(i) => reservations'[i].generation = reservations[i].generation
<1>1. reservations[id] \in Reservation
  BY ActiveIsReservation, Zenon DEF Release, Active, Present
<1>2. DEFINE r2 == [reservations[id] EXCEPT !.status = "released"]
<1>3. r2.status = "released" /\ r2.generation = reservations[id].generation
  BY <1>1, Zenon DEF Reservation
<1>4. reservations'[i] = IF i = id /\ Releasable(reservations[id])
                         THEN r2 ELSE reservations[i]
  BY Zenon DEF Release, StoreTypeOK
<1>5. Active(id)
  BY Zenon DEF Release
<1>6. reservations'[i] = reservations[i] \/ (i = id /\ reservations'[i] = r2)
  BY <1>4, Zenon
<1>7. CASE reservations'[i] = reservations[i]
  BY <1>7, Zenon DEF Present
<1>8. CASE i = id /\ reservations'[i] = r2
  BY <1>3, <1>5, <1>8, ZenonT(60) DEF Present, Active
<1>9. QED
  BY <1>6, <1>7, <1>8, Zenon

(* Reservation ids and generations are issued in step and never reused, so *)
(* a generation names one reservation for the lifetime of the store.       *)
THEOREM StoreGenerations == StoreSpec => []GenerationOrder
<1>1. StoreInit => GenerationOrder
  BY DEF StoreInit, GenerationOrder, Present, NoReservation
<1>2. StoreTypeOK /\ GenerationOrder /\ [StoreNext]_storeVars => GenerationOrder'
  <2> SUFFICES ASSUME StoreTypeOK, GenerationOrder, [StoreNext]_storeVars
               PROVE  GenerationOrder'
    BY Zenon
  <2>1. CASE UNCHANGED storeVars
    BY <2>1, Zenon DEF storeVars, GenerationOrder, Present
  <2>2. ASSUME NEW req \in Request, Reserve(req) PROVE GenerationOrder'
    BY <2>2, ReserveOrder, Zenon
  <2>3. ASSUME NEW id \in ReservationId, NEW expected \in OptionalGeneration,
               Release(id, expected)
        PROVE  GenerationOrder'
    <3>1. \A i \in ReservationId :
            /\ Present(i)' = Present(i)
            /\ Present(i) => reservations'[i].generation = reservations[i].generation
      BY <2>3, ReleaseKeepsIdentity, Zenon
    <3>2. next_id' = next_id /\ watermark' = watermark
      BY <2>3, Zenon DEF Release
    <3>3. QED
      BY <3>1, <3>2, Zenon DEF GenerationOrder
  <2>4. QED
    BY <2>1, <2>2, <2>3, Zenon DEF StoreNext
<1>3. QED
  BY <1>1, <1>2, StoreTypeCorrect, PTL DEF StoreSpec

(* An admitted reservation is never rewritten and a released one never     *)
(* becomes active again.                                                   *)
THEOREM StoreReleasedIsFinal == StoreSpec => ReleasedIsFinal
<1> DEFINE Kept(id) == Present(id) =>
             reservations'[id] \in {reservations[id],
                                   [reservations[id] EXCEPT !.status = "released"]}
<1>1. StoreTypeOK /\ GenerationOrder /\ [StoreNext]_storeVars
        => [\A id \in ReservationId : Kept(id)]_storeVars
  <2> SUFFICES ASSUME StoreTypeOK, GenerationOrder, StoreNext,
                      NEW i \in ReservationId, Present(i)
               PROVE  Kept(i)
    BY Zenon
  <2>1. ASSUME NEW req \in Request, Reserve(req) PROVE Kept(i)
    <3>1. i # next_id
      BY DEF GenerationOrder, StoreTypeOK, ReservationId
    <3>2. reservations'[i] = reservations[i]
      BY <2>1, <3>1, Zenon DEF Reserve, ReserveRefusedByNode,
           ReserveRefusedByAccelerator, ReserveAdmitted, StoreTypeOK
    <3>3. QED
      BY <3>2, Zenon
  <2>2. ASSUME NEW id \in ReservationId, NEW expected \in OptionalGeneration,
               Release(id, expected)
        PROVE  Kept(i)
    BY <2>2, ReleaseKeepsIdentity, ZenonT(60)
  <2>3. QED
    BY <2>1, <2>2, Zenon DEF StoreNext
<1>2. QED
  BY <1>1, StoreTypeCorrect, StoreGenerations, PTL DEF StoreSpec, ReleasedIsFinal

-----------------------------------------------------------------------------
(* A counter that is not zero has an entry: release skips a missing one.   *)
HasEntries(m, K) == \A k \in K : m.val[k] # 0 => k \in m.keys

(* LedgerExact is inductive together with what release and the bounds on   *)
(* the counters rely on.                                                   *)
LedgerInv ==
  /\ StoreTypeOK
  /\ CapacityHonoured
  /\ GenerationOrder
  /\ LedgerExact
  /\ HasEntries(node_mem, Node)
  /\ HasEntries(node_slots, Node)
  /\ HasEntries(accel_mem, Accelerator)
  /\ \A id \in ActiveIds : /\ reservations[id].bytes \in Sizes
                           /\ reservations[id].slots \in SlotCounts

LEMMA ActiveFacts ==
  ASSUME StoreTypeOK
  PROVE  /\ \A id \in ActiveIds : reservations[id] \in Reservation
         /\ \A id \in ActiveIds : Bytes[id] \in Nat /\ Bytes[id] = reservations[id].bytes
         /\ \A id \in ActiveIds : Slots[id] \in Nat /\ Slots[id] = reservations[id].slots
<1>1. \A id \in ActiveIds : reservations[id] \in Reservation
  BY ActiveIsReservation, Zenon DEF ActiveIds, Active, Present
<1>2. QED
  BY <1>1, ReservationConstants DEF Bytes, Slots, Reservation

LEMMA ActiveFinite ==
  ASSUME StoreTypeOK, GenerationOrder, NEW S \in SUBSET ActiveIds
  PROVE  IsFiniteSet(S) /\ Cardinality(S) \in 0 .. next_id - 1
<1>1. S \subseteq 1 .. next_id - 1
  BY DEF ActiveIds, Active, Present, GenerationOrder, StoreTypeOK, ReservationId
<1>2. next_id - 1 \in Nat
  BY ReservationConstants DEF StoreTypeOK
<1>3. /\ IsFiniteSet(1 .. next_id - 1)
      /\ Cardinality(1 .. next_id - 1) = next_id - 1
  BY <1>2, FS_Interval
<1>4. IsFiniteSet(S) /\ Cardinality(S) <= next_id - 1
  BY <1>1, <1>3, FS_Subset, ZenonT(60)
<1>5. QED
  BY <1>2, <1>4, FS_CardinalityType

(* The sums, before and after a step. *)
LEMMA SumsNow ==
  /\ \A n : /\ NodeBytes(n) = SumFunctionOnSet(Bytes, OnNode(n))
           /\ NodeSlots(n) = SumFunctionOnSet(Slots, OnNode(n))
           /\ AccelBytes(n) = SumFunctionOnSet(Bytes, OnAccel(n))
  /\ \A n : /\ NodeBytes(n)' = SumFunctionOnSet(Bytes', OnNode(n)')
           /\ NodeSlots(n)' = SumFunctionOnSet(Slots', OnNode(n)')
           /\ AccelBytes(n)' = SumFunctionOnSet(Bytes', OnAccel(n)')
BY Zenon DEF NodeBytes, NodeSlots, AccelBytes

LEMMA AdmittedIds ==
  ASSUME StoreTypeOK, GenerationOrder, NEW req \in Request, ReserveAdmitted(req)
  PROVE  /\ next_id \notin ActiveIds
         /\ ActiveIds' = ActiveIds \cup {next_id}
         /\ \A i \in ActiveIds : /\ reservations'[i] = reservations[i]
                                 /\ Bytes'[i] = Bytes[i] /\ Slots'[i] = Slots[i]
         /\ Bytes'[next_id] = req.bytes /\ Slots'[next_id] = req.slots
         /\ \A n : OnNode(n)' = IF n = req.node THEN OnNode(n) \cup {next_id}
                                 ELSE OnNode(n)
         /\ \A a : OnAccel(a)' = IF ClaimsAccel(req) /\ a = req.accel
                                  THEN OnAccel(a) \cup {next_id} ELSE OnAccel(a)
<1> USE ReservationConstants
<1>1. next_id \in ReservationId /\ next_id \notin ActiveIds
  BY DEF ReserveAdmitted, TakeIdentity, StoreTypeOK, ReservationId, ActiveIds,
         Active, Present, GenerationOrder
<1> DEFINE new == [status |-> "active", generation |-> watermark + 1,
                   node |-> req.node, bytes |-> req.bytes, slots |-> req.slots,
                   accel |-> req.accel, accel_capacity |-> req.accel_capacity]
<1>2. /\ reservations'[next_id] = new
      /\ \A i \in ReservationId \ {next_id} : reservations'[i] = reservations[i]
  BY <1>1, Zenon DEF ReserveAdmitted, StoreTypeOK
<1>3. /\ new.status = "active" /\ new.node = req.node /\ new.bytes = req.bytes
      /\ new.slots = req.slots /\ new.accel = req.accel
      /\ ClaimsAccel(new) = ClaimsAccel(req)
  BY ZenonT(60) DEF ClaimsAccel
<1> HIDE DEF new
<1>4. ActiveIds' = ActiveIds \cup {next_id}
  BY <1>1, <1>2, <1>3 DEF ActiveIds, Active
<1>5. \A i \in ActiveIds : i \in ReservationId \ {next_id}
  BY <1>1, Zenon DEF ActiveIds
<1>6. /\ \A i \in ActiveIds : Bytes'[i] = Bytes[i] /\ Slots'[i] = Slots[i]
      /\ Bytes'[next_id] = req.bytes /\ Slots'[next_id] = req.slots
  BY <1>2, <1>3, <1>4, <1>5, ZenonT(60) DEF Bytes, Slots
<1>7. \A n : OnNode(n)' = IF n = req.node THEN OnNode(n) \cup {next_id}
                          ELSE OnNode(n)
  BY <1>2, <1>3, <1>4, <1>5, ZenonT(60) DEF OnNode
<1>8. \A a : OnAccel(a)' = IF ClaimsAccel(req) /\ a = req.accel
                           THEN OnAccel(a) \cup {next_id} ELSE OnAccel(a)
  <2>1. \A i \in ActiveIds : ClaimsAccel(reservations'[i]) = ClaimsAccel(reservations[i])
    BY <1>2, <1>5, Zenon
  <2>2. \A a : OnAccel(a)' = {id \in ActiveIds' : /\ ClaimsAccel(reservations'[id])
                                                  /\ reservations'[id].accel = a}
    BY ZenonT(60) DEF OnAccel, ClaimsAccel
  <2>3. QED
    BY <1>2, <1>3, <1>4, <1>5, <2>1, <2>2, ZenonT(60) DEF OnAccel
<1>9. QED
  BY <1>1, <1>2, <1>4, <1>5, <1>6, <1>7, <1>8, Zenon

(* The additions of an admitted request do not wrap around. *)
LEMMA AdmittedFits ==
  ASSUME NoWraparound, LedgerInv, NEW req \in Request, ReserveAdmitted(req)
  PROVE  /\ node_mem.val[req.node] + req.bytes \in 0 .. Word - 1
         /\ node_slots.val[req.node] + req.slots \in 0 .. SlotWord - 1
         /\ ClaimsAccel(req) =>
              accel_mem.val[req.accel] + req.bytes \in 0 .. Word - 1
<1> USE ReservationConstants
<1> DEFINE n == req.node
<1>1. /\ n \in Node /\ req.bytes \in Sizes /\ req.slots \in SlotCounts
      /\ req.bytes \in Nat /\ req.slots \in Nat
      /\ ClaimsAccel(req) => req.accel \in Accelerator
  BY RequestFields, SMTT(30) DEF Request, ClaimsAccel
<1>2. /\ node_mem.val[n] \in Nat /\ node_slots.val[n] \in Nat
      /\ \A a \in Accelerator : accel_mem.val[a] \in Nat
  BY <1>1, SMTT(30) DEF LedgerInv, StoreTypeOK, Map
<1>3. next_id \in 1 .. MaxId
  BY DEF LedgerInv, StoreTypeOK, ReserveAdmitted, TakeIdentity
<1> DEFINE S == OnNode(n)
           c == Cardinality(S)
<1>4. S \subseteq ActiveIds /\ IsFiniteSet(S) /\ c \in 0 .. next_id - 1
  BY ActiveFinite, Zenon DEF LedgerInv, OnNode
<1> HIDE DEF S, c
<1>5. ASSUME NEW b \in Nat, NEW x \in 0 .. b, NEW w \in Nat, MaxId * b < w,
             NEW v \in Nat, v <= c * b
      PROVE  v + x < w
  <2>1. (c + 1) * b = c * b + b /\ c * b \in Nat
    BY <1>3, <1>4, SMTT(30)
  <2>2. (c + 1) * b <= MaxId * b
    BY <1>3, <1>4
  <2>3. QED
    BY <1>5, <2>1, <2>2, SMTT(30)
<1>6. node_mem.val[n] + req.bytes < Word
  <2>1. CASE Capacity[n] # 0
    BY <1>1, <1>2, <2>1 DEF NoWraparound, LedgerInv, CapacityHonoured
  <2>2. CASE Capacity[n] = 0
    <3>1. PICK b \in 0 .. Word - 1 : Sizes \subseteq 0 .. b /\ MaxId * b < Word
      BY Zenon DEF NoWraparound
    <3>2. \A i \in S : Bytes[i] \in 0 .. b
      BY <1>4, <3>1, ActiveFacts, ZenonT(60) DEF LedgerInv
    <3>3. node_mem.val[n] <= c * b
      BY <1>1, <1>4, <3>1, <3>2, SumBound, SumsNow, SMTT(30)
      DEF LedgerInv, LedgerExact, S, c
    <3>4. req.bytes \in 0 .. b /\ b \in Nat /\ Word \in Nat
      BY <1>1, <3>1
    <3>5. QED
      BY <1>2, <1>5, <3>1, <3>3, <3>4, ZenonT(60)
  <2>3. QED
    BY <2>1, <2>2, ZenonT(60)
<1>7. node_slots.val[n] + req.slots < SlotWord
  <2>1. PICK b \in 0 .. SlotWord - 1 : SlotCounts \subseteq 0 .. b /\ MaxId * b < SlotWord
    BY Zenon DEF NoWraparound
  <2>2. \A i \in S : Slots[i] \in 0 .. b
    BY <1>4, <2>1, ActiveFacts, ZenonT(60) DEF LedgerInv
  <2>3. node_slots.val[n] <= c * b
    BY <1>1, <1>4, <2>1, <2>2, SumBound, SumsNow, SMTT(30) DEF LedgerInv, LedgerExact, S, c
  <2>4. req.slots \in 0 .. b /\ b \in Nat /\ SlotWord \in Nat
    BY <1>1, <2>1, SMTT(30)
  <2>5. QED
    BY <1>2, <1>5, <2>1, <2>3, <2>4, ZenonT(60)
<1>8. ClaimsAccel(req) => accel_mem.val[req.accel] + req.bytes < Word
  BY <1>1, <1>2, SMTT(30) DEF NoWraparound, LedgerInv, CapacityHonoured
<1>9. QED
  BY <1>1, <1>2, <1>6, <1>7, <1>8, SMTT(30)

(* m[k] += x without a wraparound, and m[k] -= x for an entry that covers  *)
(* it, do to every counter what they say.                                  *)
LEMMA PlusExact ==
  ASSUME NEW K, NEW w \in Nat \ {0}, NEW m \in Map(K, w), NEW k \in K,
         NEW x \in Nat, m.val[k] + x \in 0 .. w - 1, NEW j \in K
  PROVE  Plus(m, k, x, w).val[j] = IF j = k THEN m.val[j] + x ELSE m.val[j]
<1>1. (m.val[k] + x) % w = m.val[k] + x
  BY DEF Map
<1>2. QED
  BY <1>1, PlusValue

LEMMA MinusExact ==
  ASSUME NEW K, NEW w \in Nat \ {0}, NEW m \in Map(K, w), NEW k \in K,
         HasEntries(m, K), NEW x \in Nat, x <= m.val[k], NEW j \in K
  PROVE  Minus(m, k, x).val[j] = IF j = k THEN m.val[j] - x ELSE m.val[j]
<1>1. m.val[j] \in Nat /\ m.val[k] \in Nat
  BY DEF Map
<1>2. CASE k \notin m.keys
  BY <1>1, <1>2 DEF Minus, HasEntries
<1>3. CASE k \in m.keys
  BY <1>1, <1>3, ZenonT(60) DEF Minus, Map
<1>4. QED
  BY <1>2, <1>3, Zenon

LEMMA PlusEntries ==
  ASSUME NEW K, NEW w \in Nat \ {0}, NEW m \in Map(K, w), HasEntries(m, K),
         NEW k \in K, NEW x \in Nat
  PROVE  HasEntries(Plus(m, k, x, w), K)
BY PlusValue DEF HasEntries, Plus

LEMMA MinusEntries ==
  ASSUME NEW K, NEW w \in Nat \ {0}, NEW m \in Map(K, w), HasEntries(m, K),
         NEW k \in K, NEW x \in Nat, x <= m.val[k]
  PROVE  HasEntries(Minus(m, k, x), K)
<1>1. ASSUME NEW j \in K, Minus(m, k, x).val[j] # 0
      PROVE  j \in Minus(m, k, x).keys
  <2>1. m.val[j] \in Nat /\ m.val[k] \in Nat
    BY DEF Map
  <2>2. j = k => m.val[k] # x
    BY <1>1, <2>1, MinusExact, SMTT(30)
  <2>3. m.val[j] # 0
    BY <1>1, <2>1, MinusExact
  <2>4. QED
    BY <2>2, <2>3, ZenonT(60) DEF Minus, HasEntries
<1>2. QED
  BY <1>1, Zenon DEF HasEntries

LEMMA AdmitExact ==
  ASSUME NoWraparound, LedgerInv, NEW req \in Request, ReserveAdmitted(req)
  PROVE  LedgerExact'
<1>0. Word \in Nat \ {0} /\ SlotWord \in Nat \ {0}
  BY ReservationConstants
<1>1. /\ req.node \in Node /\ req.bytes \in Nat /\ req.slots \in Nat
      /\ ClaimsAccel(req) => req.accel \in Accelerator
  BY RequestFields, ReservationConstants DEF ClaimsAccel
<1>2. StoreTypeOK /\ GenerationOrder /\ LedgerExact
  BY Zenon DEF LedgerInv
<1>3. /\ node_mem \in Map(Node, Word) /\ node_slots \in Map(Node, SlotWord)
      /\ accel_mem \in Map(Accelerator, Word)
  BY <1>2, Zenon DEF StoreTypeOK
<1>4. \A n : OnNode(n) \subseteq ActiveIds /\ IsFiniteSet(OnNode(n))
  BY <1>2, ActiveFinite, Zenon DEF OnNode
<1>5. \A a : OnAccel(a) \subseteq ActiveIds /\ IsFiniteSet(OnAccel(a))
  BY <1>2, ActiveFinite, Zenon DEF OnAccel
<1>6. /\ \A n \in Node : node_mem.val[n] \in Nat /\ node_slots.val[n] \in Nat
      /\ \A a \in Accelerator : accel_mem.val[a] \in Nat
  BY <1>0, <1>3, SMTT(30) DEF Map
<1>7. /\ \A i \in ActiveIds : Bytes[i] \in Nat /\ Slots[i] \in Nat
      /\ \A i \in ActiveIds : Bytes'[i] = Bytes[i] /\ Slots'[i] = Slots[i]
      /\ Bytes'[next_id] = req.bytes /\ Slots'[next_id] = req.slots
      /\ next_id \notin ActiveIds
  BY <1>2, AdmittedIds, ActiveFacts, ZenonT(60)
<1>8. ASSUME NEW S \in SUBSET ActiveIds, IsFiniteSet(S)
      PROVE  /\ SumFunctionOnSet(Bytes', S \cup {next_id})
                  = SumFunctionOnSet(Bytes, S) + req.bytes
             /\ SumFunctionOnSet(Slots', S \cup {next_id})
                  = SumFunctionOnSet(Slots, S) + req.slots
             /\ SumFunctionOnSet(Bytes', S) = SumFunctionOnSet(Bytes, S)
             /\ SumFunctionOnSet(Slots', S) = SumFunctionOnSet(Slots, S)
  <2>1. /\ \A i \in S : Bytes[i] \in Nat /\ Bytes'[i] = Bytes[i]
        /\ Bytes'[next_id] = req.bytes /\ req.bytes \in Nat /\ next_id \notin S
    BY <1>1, <1>7, ZenonT(60)
  <2>2. /\ \A i \in S : Slots[i] \in Nat /\ Slots'[i] = Slots[i]
        /\ Slots'[next_id] = req.slots /\ req.slots \in Nat
    BY <1>1, <1>7, ZenonT(60)
  <2>3. SumFunctionOnSet(Bytes', S \cup {next_id}) = SumFunctionOnSet(Bytes, S) + req.bytes
    BY <1>8, <2>1, SumJoin, SMTT(30)
  <2>4. SumFunctionOnSet(Slots', S \cup {next_id}) = SumFunctionOnSet(Slots, S) + req.slots
    BY <1>8, <2>1, <2>2, SumJoin, SMTT(30)
  <2>5. SumFunctionOnSet(Bytes', S) = SumFunctionOnSet(Bytes, S)
    BY <1>8, <2>1, SumAgree, SMTT(30)
  <2>6. SumFunctionOnSet(Slots', S) = SumFunctionOnSet(Slots, S)
    BY <1>8, <2>2, SumAgree, SMTT(30)
  <2>7. QED
    BY <2>3, <2>4, <2>5, <2>6, ZenonT(60)
<1>9. ASSUME NEW n \in Node
      PROVE  /\ node_mem'.val[n] = NodeBytes(n)'
             /\ node_slots'.val[n] = NodeSlots(n)'
  <2>1. node_mem'.val[n] = node_mem.val[n] + (IF n = req.node THEN req.bytes ELSE 0)
    <3>1. node_mem.val[n] \in Nat
      BY <1>6, ZenonT(60)
    <3>2. CASE req.bytes = 0
      <4>1. node_mem' = node_mem
        BY <3>2, ZenonT(60) DEF ReserveAdmitted, Claim
      <4>2. QED
        BY <3>1, <3>2, <4>1, SMTT(30)
    <3>3. CASE req.bytes # 0
      <4>1. node_mem' = Plus(node_mem, req.node, req.bytes, Word)
        BY <3>3, Zenon DEF ReserveAdmitted, Claim
      <4>2. QED
        BY <1>0, <1>1, <1>3, <3>1, <4>1, AdmittedFits, PlusExact, SMTT(30)
    <3>4. QED
      BY <3>2, <3>3, ZenonT(60)
  <2>2. node_slots'.val[n] = node_slots.val[n] + (IF n = req.node THEN req.slots ELSE 0)
    <3>1. node_slots.val[n] \in Nat
      BY <1>6, ZenonT(60)
    <3>2. CASE req.slots = 0
      <4>1. node_slots' = node_slots
        BY <3>2, ZenonT(60) DEF ReserveAdmitted, Claim
      <4>2. QED
        BY <3>1, <3>2, <4>1, SMTT(30)
    <3>3. CASE req.slots # 0
      <4>1. node_slots' = Plus(node_slots, req.node, req.slots, SlotWord)
        BY <3>3, Zenon DEF ReserveAdmitted, Claim
      <4>2. QED
        BY <1>0, <1>1, <1>3, <3>1, <4>1, AdmittedFits, PlusExact, SMTT(30)
    <3>4. QED
      BY <3>2, <3>3, ZenonT(60)
  <2>3. CASE n = req.node
    <3>1. OnNode(n)' = OnNode(n) \cup {next_id} /\ next_id \notin OnNode(n)
      BY <1>2, <1>4, <2>3, AdmittedIds, ZenonT(60)
    <3>2. NodeBytes(n)' = NodeBytes(n) + req.bytes
      BY <1>4, <1>8, <3>1, SumsNow, ZenonT(60)
    <3>3. NodeSlots(n)' = NodeSlots(n) + req.slots
      BY <1>4, <1>8, <3>1, SumsNow, ZenonT(60)
    <3>4. QED
      BY <1>2, <2>1, <2>2, <2>3, <3>2, <3>3, ZenonT(60) DEF LedgerExact
  <2>4. CASE n # req.node
    <3>1. OnNode(n)' = OnNode(n)
      BY <1>2, <2>4, AdmittedIds, ZenonT(60)
    <3>2. NodeBytes(n)' = NodeBytes(n) /\ NodeSlots(n)' = NodeSlots(n)
      BY <1>4, <1>8, <3>1, SumsNow, ZenonT(60)
    <3>3. node_mem'.val[n] = node_mem.val[n] /\ node_slots'.val[n] = node_slots.val[n]
      <4>1. node_mem.val[n] \in Nat /\ node_slots.val[n] \in Nat
        BY <1>6, ZenonT(60)
      <4>2. QED
        BY <2>1, <2>2, <2>4, <4>1, SMTT(30)
    <3>4. QED
      BY <1>2, <3>2, <3>3, ZenonT(60) DEF LedgerExact
  <2>5. QED
    BY <2>3, <2>4, Zenon
<1>10. ASSUME NEW a \in Accelerator PROVE accel_mem'.val[a] = AccelBytes(a)'
  <2>1. CASE ClaimsAccel(req) /\ a = req.accel
    <3>1. accel_mem' = Plus(accel_mem, req.accel, req.bytes, Word)
      BY <2>1, ZenonT(60) DEF ReserveAdmitted, Claim
    <3>2. accel_mem'.val[a] = accel_mem.val[a] + req.bytes
      BY <1>0, <1>1, <1>3, <2>1, <3>1, AdmittedFits, PlusExact, SMTT(30)
    <3>3. OnAccel(a)' = OnAccel(a) \cup {next_id} /\ next_id \notin OnAccel(a)
      BY <1>2, <1>5, <2>1, AdmittedIds, ZenonT(60)
    <3>4. AccelBytes(a)' = AccelBytes(a) + req.bytes
      BY <1>5, <1>8, <3>3, SumsNow, ZenonT(60)
    <3>5. QED
      BY <1>2, <3>2, <3>4, ZenonT(60) DEF LedgerExact
  <2>2. CASE ~(ClaimsAccel(req) /\ a = req.accel)
    <3>1. accel_mem'.val[a] = accel_mem.val[a]
      <4>1. CASE ~ClaimsAccel(req)
        BY <4>1, ZenonT(60) DEF ReserveAdmitted, Claim
      <4>2. CASE ClaimsAccel(req)
        <5>1. accel_mem' = Plus(accel_mem, req.accel, req.bytes, Word)
          BY <4>2, ZenonT(60) DEF ReserveAdmitted, Claim
        <5>2. QED
          BY <1>0, <1>1, <1>3, <2>2, <4>2, <5>1, PlusValue, SMTT(30)
      <4>3. QED
        BY <4>1, <4>2, Zenon
    <3>2. OnAccel(a)' = OnAccel(a)
      BY <1>2, <2>2, AdmittedIds, ZenonT(60)
    <3>3. AccelBytes(a)' = AccelBytes(a)
      BY <1>5, <1>8, <3>2, SumsNow, ZenonT(60)
    <3>4. QED
      BY <1>2, <3>1, <3>3, ZenonT(60) DEF LedgerExact
  <2>3. QED
    BY <2>1, <2>2, ZenonT(60)
<1>11. QED
  BY <1>9, <1>10, ZenonT(60) DEF LedgerExact

LEMMA AdmitEntries ==
  ASSUME LedgerInv, NEW req \in Request, ReserveAdmitted(req)
  PROVE  /\ HasEntries(node_mem, Node)'
         /\ HasEntries(node_slots, Node)'
         /\ HasEntries(accel_mem, Accelerator)'
         /\ \A id \in ActiveIds' : /\ reservations'[id].bytes \in Sizes
                                   /\ reservations'[id].slots \in SlotCounts
<1> USE ReservationConstants
<1>1. /\ req.node \in Node /\ req.bytes \in Nat /\ req.slots \in Nat
      /\ ClaimsAccel(req) => req.accel \in Accelerator
      /\ req.bytes \in Sizes /\ req.slots \in SlotCounts
  BY RequestFields DEF ClaimsAccel, Request
<1>2. /\ node_mem \in Map(Node, Word) /\ node_slots \in Map(Node, SlotWord)
      /\ accel_mem \in Map(Accelerator, Word)
      /\ HasEntries(node_mem, Node) /\ HasEntries(node_slots, Node)
      /\ HasEntries(accel_mem, Accelerator)
  BY Zenon DEF LedgerInv, StoreTypeOK
<1>3. HasEntries(node_mem', Node)
  BY <1>1, <1>2, PlusEntries, ZenonT(60) DEF ReserveAdmitted, Claim
<1>4. HasEntries(node_slots', Node)
  BY <1>1, <1>2, PlusEntries, ZenonT(60) DEF ReserveAdmitted, Claim
<1>5. HasEntries(accel_mem', Accelerator)
  BY <1>1, <1>2, PlusEntries, ZenonT(60) DEF ReserveAdmitted, Claim
<1>6. \A id \in ActiveIds' : /\ reservations'[id].bytes \in Sizes
                            /\ reservations'[id].slots \in SlotCounts
  <2>1. /\ next_id \in ReservationId
        /\ reservations'[next_id].bytes = req.bytes
        /\ reservations'[next_id].slots = req.slots
    BY DEF LedgerInv, ReserveAdmitted, TakeIdentity, StoreTypeOK, ReservationId
  <2>2. QED
    BY <1>1, <2>1, AdmittedIds, SMTT(30) DEF LedgerInv
<1>7. QED
  BY <1>3, <1>4, <1>5, <1>6, ZenonT(60) DEF HasEntries

(* Exact counters cover every active reservation: release never meets an   *)
(* "accounting underflow".                                                 *)
LEMMA ActiveReleasable ==
  ASSUME LedgerInv, NEW id \in ActiveIds
  PROVE  /\ reservations[id].bytes <= node_mem.val[reservations[id].node]
         /\ reservations[id].slots <= node_slots.val[reservations[id].node]
         /\ ClaimsAccel(reservations[id]) =>
              reservations[id].bytes <= accel_mem.val[reservations[id].accel]
         /\ Releasable(reservations[id])
<1> DEFINE r == reservations[id]
<1> USE ReservationConstants
<1>1. StoreTypeOK /\ GenerationOrder /\ LedgerExact
  BY Zenon DEF LedgerInv
<1>2. r \in Reservation /\ Bytes[id] = r.bytes /\ Slots[id] = r.slots
  BY <1>1, ActiveFacts, Zenon
<1>3. r.node \in Node /\ (ClaimsAccel(r) => r.accel \in Accelerator)
  BY <1>2, Zenon DEF Reservation, ClaimsAccel
<1>4. /\ OnNode(r.node) \subseteq ActiveIds /\ IsFiniteSet(OnNode(r.node))
      /\ OnAccel(r.accel) \subseteq ActiveIds /\ IsFiniteSet(OnAccel(r.accel))
  BY <1>1, ActiveFinite, ZenonT(60) DEF OnNode, OnAccel
<1>5. id \in OnNode(r.node) /\ (ClaimsAccel(r) => id \in OnAccel(r.accel))
  BY Zenon DEF OnNode, OnAccel
<1>6. Bytes[id] <= NodeBytes(r.node)
  BY <1>1, <1>4, <1>5, ActiveFacts, SumCovers, SumsNow, ZenonT(60)
<1>7. Slots[id] <= NodeSlots(r.node)
  BY <1>1, <1>4, <1>5, ActiveFacts, SumCovers, SumsNow, ZenonT(60)
<1>8. ClaimsAccel(r) => Bytes[id] <= AccelBytes(r.accel)
  BY <1>1, <1>4, <1>5, ActiveFacts, SumCovers, SumsNow, ZenonT(60)
<1>9. QED
  BY <1>1, <1>2, <1>3, <1>6, <1>7, <1>8, ZenonT(60)
  DEF LedgerExact, Releasable, MemCovered, SlotsCovered, AccelCovered, Covers

LEMMA ReleasedIds ==
  ASSUME LedgerInv, NEW id \in ReservationId, NEW expected, Release(id, expected)
  PROVE  /\ id \in ActiveIds
         /\ ActiveIds' = ActiveIds \ {id}
         /\ \A i \in ActiveIds \ {id} : /\ reservations'[i] = reservations[i]
                                        /\ Bytes'[i] = Bytes[i] /\ Slots'[i] = Slots[i]
         /\ \A n : OnNode(n)' = OnNode(n) \ {id}
         /\ \A a : OnAccel(a)' = OnAccel(a) \ {id}
<1>1. id \in ActiveIds
  BY Zenon DEF Release, ActiveIds
<1>2. reservations[id] \in Reservation
  BY <1>1, ActiveFacts, ZenonT(60) DEF LedgerInv
<1>3. reservations' = [reservations EXCEPT ![id].status = "released"]
  BY <1>1, ActiveReleasable, ZenonT(60) DEF Release
<1>4. /\ reservations'[id].status = "released"
      /\ \A i \in ReservationId \ {id} : reservations'[i] = reservations[i]
  BY <1>2, <1>3, ZenonT(60) DEF LedgerInv, StoreTypeOK, Reservation
<1>5. ActiveIds' = ActiveIds \ {id} /\ ActiveIds \subseteq ReservationId
  BY <1>4, Zenon DEF ActiveIds, Active
<1>6. \A i \in ActiveIds \ {id} : Bytes'[i] = Bytes[i] /\ Slots'[i] = Slots[i]
  BY <1>4, <1>5, ZenonT(60) DEF Bytes, Slots
<1>7. \A n : OnNode(n)' = OnNode(n) \ {id}
  BY <1>4, <1>5, Zenon DEF OnNode
<1>8. \A a : OnAccel(a)' = OnAccel(a) \ {id}
  <2>1. \A a : OnAccel(a)' = {i \in ActiveIds' : /\ ClaimsAccel(reservations'[i])
                                                 /\ reservations'[i].accel = a}
    BY Zenon DEF OnAccel, ClaimsAccel
  <2>2. \A i \in ActiveIds \ {id} : ClaimsAccel(reservations'[i]) = ClaimsAccel(reservations[i])
    BY <1>4, <1>5, Zenon
  <2>3. QED
    BY <1>4, <1>5, <2>1, <2>2, ZenonT(60) DEF OnAccel
<1>9. QED
  BY <1>1, <1>4, <1>5, <1>6, <1>7, <1>8, ZenonT(60)

LEMMA ReleaseExact ==
  ASSUME LedgerInv, NEW id \in ReservationId, NEW expected, Release(id, expected)
  PROVE  /\ LedgerExact'
         /\ HasEntries(node_mem', Node)
         /\ HasEntries(node_slots', Node)
         /\ HasEntries(accel_mem', Accelerator)
<1> DEFINE r == reservations[id]
<1>0. Word \in Nat \ {0} /\ SlotWord \in Nat \ {0}
  BY ReservationConstants
<1>1. StoreTypeOK /\ GenerationOrder /\ LedgerExact
  BY Zenon DEF LedgerInv
<1>2. id \in ActiveIds
  BY ReleasedIds, Zenon
<1>3. /\ r.node \in Node /\ r.bytes \in Nat /\ r.slots \in Nat
      /\ ClaimsAccel(r) => r.accel \in Accelerator
      /\ Bytes[id] = r.bytes /\ Slots[id] = r.slots
  BY <1>1, <1>2, ActiveFacts, ZenonT(60) DEF Reservation, ClaimsAccel
<1>4. /\ node_mem \in Map(Node, Word) /\ node_slots \in Map(Node, SlotWord)
      /\ accel_mem \in Map(Accelerator, Word)
      /\ HasEntries(node_mem, Node) /\ HasEntries(node_slots, Node)
      /\ HasEntries(accel_mem, Accelerator)
  BY Zenon DEF LedgerInv, StoreTypeOK
<1>5. /\ r.bytes <= node_mem.val[r.node] /\ r.slots <= node_slots.val[r.node]
      /\ ClaimsAccel(r) => r.bytes <= accel_mem.val[r.accel]
      /\ Releasable(r)
  BY <1>2, ActiveReleasable, Zenon
<1>6. /\ node_mem' = Minus(node_mem, r.node, r.bytes)
      /\ node_slots' = Minus(node_slots, r.node, r.slots)
      /\ accel_mem' = IF ClaimsAccel(r) THEN Minus(accel_mem, r.accel, r.bytes)
                      ELSE accel_mem
  BY <1>5, Zenon DEF Release, Releasable
<1>7. \A n : /\ OnNode(n) \subseteq ActiveIds /\ IsFiniteSet(OnNode(n))
             /\ OnAccel(n) \subseteq ActiveIds /\ IsFiniteSet(OnAccel(n))
  BY <1>1, ActiveFinite, ZenonT(60) DEF OnNode, OnAccel
<1>8. \A n \in Node :
         node_mem'.val[n] = IF n = r.node THEN node_mem.val[n] - r.bytes ELSE node_mem.val[n]
  <2>1. r.node \in Node /\ r.bytes \in Nat /\ r.bytes <= node_mem.val[r.node]
    BY <1>3, <1>5, ZenonT(60)
  <2>2. QED
    BY <1>0, <1>4, <1>6, <2>1, MinusExact, SMTT(30)
<1>9. \A n \in Node :
         node_slots'.val[n] = IF n = r.node THEN node_slots.val[n] - r.slots ELSE node_slots.val[n]
  <2>1. r.node \in Node /\ r.slots \in Nat /\ r.slots <= node_slots.val[r.node]
    BY <1>3, <1>5, ZenonT(60)
  <2>2. QED
    BY <1>0, <1>4, <1>6, <2>1, MinusExact, SMTT(30)
<1>10. ClaimsAccel(r) =>
         \A a \in Accelerator :
           accel_mem'.val[a] = IF a = r.accel THEN accel_mem.val[a] - r.bytes ELSE accel_mem.val[a]
  <2>1. SUFFICES ASSUME ClaimsAccel(r), NEW a \in Accelerator
                 PROVE  accel_mem'.val[a] = IF a = r.accel THEN accel_mem.val[a] - r.bytes
                                            ELSE accel_mem.val[a]
    BY ZenonT(60)
  <2>2. r.accel \in Accelerator /\ r.bytes \in Nat /\ r.bytes <= accel_mem.val[r.accel]
    BY <1>3, <1>5, <2>1, ZenonT(60)
  <2>3. accel_mem' = Minus(accel_mem, r.accel, r.bytes)
    BY <1>6, <2>1, ZenonT(60)
  <2>4. QED
    BY <1>0, <1>4, <2>2, <2>3, MinusExact, SMTT(30)
<1>11. /\ \A i \in ActiveIds : Bytes[i] \in Nat /\ Slots[i] \in Nat
       /\ \A i \in ActiveIds \ {id} : Bytes'[i] = Bytes[i] /\ Slots'[i] = Slots[i]
  BY <1>1, ReleasedIds, ActiveFacts, ZenonT(60)
<1>12. ASSUME NEW S \in SUBSET ActiveIds, IsFiniteSet(S), id \in S
       PROVE  /\ SumFunctionOnSet(Bytes', S \ {id}) = SumFunctionOnSet(Bytes, S) - r.bytes
              /\ SumFunctionOnSet(Slots', S \ {id}) = SumFunctionOnSet(Slots, S) - r.slots
  <2>1. /\ \A i \in S : Bytes[i] \in Nat /\ Slots[i] \in Nat
        /\ \A i \in S \ {id} : Bytes'[i] = Bytes[i] /\ Slots'[i] = Slots[i]
    BY <1>11, ZenonT(60)
  <2>2. SumFunctionOnSet(Bytes', S \ {id}) = SumFunctionOnSet(Bytes, S) - Bytes[id]
    BY <1>12, <2>1, SumLeave, SMTT(30)
  <2>3. SumFunctionOnSet(Slots', S \ {id}) = SumFunctionOnSet(Slots, S) - Slots[id]
    BY <1>12, <2>1, SumLeave, SMTT(30)
  <2>4. QED
    BY <1>3, <2>2, <2>3, ZenonT(60)
<1>13. ASSUME NEW S \in SUBSET (ActiveIds \ {id}), IsFiniteSet(S)
       PROVE  /\ SumFunctionOnSet(Bytes', S) = SumFunctionOnSet(Bytes, S)
              /\ SumFunctionOnSet(Slots', S) = SumFunctionOnSet(Slots, S)
  <2>1. \A i \in S : Bytes'[i] = Bytes[i] /\ Slots'[i] = Slots[i]
    BY <1>11, ZenonT(60)
  <2>2. SumFunctionOnSet(Bytes', S) = SumFunctionOnSet(Bytes, S)
    BY <1>13, <2>1, SumAgree, SMTT(30)
  <2>3. SumFunctionOnSet(Slots', S) = SumFunctionOnSet(Slots, S)
    BY <1>13, <2>1, SumAgree, SMTT(30)
  <2>4. QED
    BY <2>2, <2>3, ZenonT(60)
<1>14. ASSUME NEW n \in Node
       PROVE  /\ node_mem'.val[n] = NodeBytes(n)'
              /\ node_slots'.val[n] = NodeSlots(n)'
  <2>1. OnNode(n)' = OnNode(n) \ {id}
    BY ReleasedIds, Zenon
  <2>2. CASE n = r.node
    <3>1. id \in OnNode(n)
      BY <1>2, <2>2, ZenonT(60) DEF OnNode
    <3>2. NodeBytes(n)' = NodeBytes(n) - r.bytes
      BY <1>7, <1>12, <2>1, <3>1, SumsNow, ZenonT(60)
    <3>3. NodeSlots(n)' = NodeSlots(n) - r.slots
      BY <1>7, <1>12, <2>1, <3>1, SumsNow, ZenonT(60)
    <3>4. node_mem'.val[n] = node_mem.val[n] - r.bytes
      BY <1>8, <2>2, ZenonT(60)
    <3>5. node_slots'.val[n] = node_slots.val[n] - r.slots
      BY <1>9, <2>2, ZenonT(60)
    <3>6. QED
      BY <1>1, <3>2, <3>3, <3>4, <3>5, ZenonT(60) DEF LedgerExact
  <2>3. CASE n # r.node
    <3>1. id \notin OnNode(n)
      BY <2>3, Zenon DEF OnNode
    <3>2. OnNode(n)' = OnNode(n)
      BY <2>1, <3>1, ZenonT(60)
    <3>3. NodeBytes(n)' = NodeBytes(n) /\ NodeSlots(n)' = NodeSlots(n)
      BY <1>7, <1>13, <3>1, <3>2, SumsNow, ZenonT(60)
    <3>4. node_mem'.val[n] = node_mem.val[n] /\ node_slots'.val[n] = node_slots.val[n]
      BY <1>8, <1>9, <2>3, ZenonT(60)
    <3>5. QED
      BY <1>1, <3>3, <3>4, ZenonT(60) DEF LedgerExact
  <2>4. QED
    BY <2>2, <2>3, ZenonT(60)
<1>15. ASSUME NEW a \in Accelerator PROVE accel_mem'.val[a] = AccelBytes(a)'
  <2>1. OnAccel(a)' = OnAccel(a) \ {id}
    BY ReleasedIds, ZenonT(60)
  <2>2. CASE ClaimsAccel(r) /\ a = r.accel
    <3>1. id \in OnAccel(a)
      BY <1>2, <2>2, ZenonT(60) DEF OnAccel
    <3>2. AccelBytes(a)' = AccelBytes(a) - r.bytes
      BY <1>7, <1>12, <2>1, <3>1, SumsNow, ZenonT(60)
    <3>3. accel_mem'.val[a] = accel_mem.val[a] - r.bytes
      BY <1>10, <2>2, ZenonT(60)
    <3>4. QED
      BY <1>1, <3>2, <3>3, ZenonT(60) DEF LedgerExact
  <2>3. CASE ~(ClaimsAccel(r) /\ a = r.accel)
    <3>1. id \notin OnAccel(a)
      BY <2>3, Zenon DEF OnAccel
    <3>2. OnAccel(a)' = OnAccel(a)
      BY <2>1, <3>1, ZenonT(60)
    <3>3. AccelBytes(a)' = AccelBytes(a)
      BY <1>7, <1>13, <3>1, <3>2, SumsNow, ZenonT(60)
    <3>4. accel_mem'.val[a] = accel_mem.val[a]
      <4>1. CASE ~ClaimsAccel(r)
        BY <1>6, <4>1, ZenonT(60)
      <4>2. CASE ClaimsAccel(r) /\ a # r.accel
        BY <1>10, <4>2, ZenonT(60)
      <4>3. QED
        BY <2>3, <4>1, <4>2, ZenonT(60)
    <3>5. QED
      BY <1>1, <3>3, <3>4, ZenonT(60) DEF LedgerExact
  <2>4. QED
    BY <2>2, <2>3, ZenonT(60)
<1>16. /\ HasEntries(node_mem', Node) /\ HasEntries(node_slots', Node)
       /\ HasEntries(accel_mem', Accelerator)
  BY <1>0, <1>3, <1>4, <1>5, <1>6, MinusEntries, ZenonT(60)
<1>17. QED
  BY <1>14, <1>15, <1>16, ZenonT(60) DEF LedgerExact

(* A refused request changes no counter; it may add an entry that is zero. *)
LEMMA RefuseExact ==
  ASSUME LedgerInv, NEW req \in Request,
         ReserveRefusedByNode(req) \/ ReserveRefusedByAccelerator(req)
  PROVE  /\ reservations' = reservations
         /\ LedgerExact'
         /\ HasEntries(node_mem', Node)
         /\ HasEntries(node_slots', Node)
         /\ HasEntries(accel_mem', Accelerator)
<1>1. /\ reservations' = reservations
      /\ node_mem'.val = node_mem.val /\ node_mem.keys \subseteq node_mem'.keys
      /\ node_slots' = node_slots
      /\ accel_mem'.val = accel_mem.val /\ accel_mem.keys \subseteq accel_mem'.keys
  BY DEF ReserveRefusedByNode, ReserveRefusedByAccelerator, MemTouched, Touch
<1>2. /\ ActiveIds' = ActiveIds /\ Bytes' = Bytes /\ Slots' = Slots
      /\ \A n : OnNode(n)' = OnNode(n) /\ OnAccel(n)' = OnAccel(n)
  BY <1>1, Zenon DEF ActiveIds, Active, Bytes, Slots, OnNode, OnAccel, ClaimsAccel
<1>3. LedgerExact'
  BY <1>1, <1>2, SumsNow, ZenonT(60) DEF LedgerInv, LedgerExact
<1>4. QED
  BY <1>1, <1>3, ZenonT(60) DEF LedgerInv, HasEntries

LEMMA LedgerStep ==
  ASSUME NoWraparound, LedgerInv, [StoreNext]_storeVars,
         StoreTypeOK', CapacityHonoured', GenerationOrder'
  PROVE  LedgerInv'
<1>1. CASE UNCHANGED storeVars
  <2>1. /\ ActiveIds' = ActiveIds /\ Bytes' = Bytes /\ Slots' = Slots
        /\ \A n : OnNode(n)' = OnNode(n) /\ OnAccel(n)' = OnAccel(n)
    BY <1>1, ZenonT(60) DEF storeVars, ActiveIds, Active, Bytes, Slots, OnNode, OnAccel, ClaimsAccel
  <2>2. QED
    BY <1>1, <2>1, SumsNow, ZenonT(60) DEF storeVars, LedgerInv, LedgerExact, HasEntries
<1>2. ASSUME NEW req \in Request, ReserveAdmitted(req) PROVE LedgerInv'
  BY <1>2, AdmitExact, AdmitEntries, ZenonT(60) DEF LedgerInv
<1>3. ASSUME NEW req \in Request,
             ReserveRefusedByNode(req) \/ ReserveRefusedByAccelerator(req)
      PROVE  LedgerInv'
  BY <1>3, RefuseExact, ZenonT(60) DEF LedgerInv, HasEntries, ActiveIds, Active
<1>4. ASSUME NEW id \in ReservationId, NEW expected \in OptionalGeneration,
             Release(id, expected)
      PROVE  LedgerInv'
  <2>1. \A i \in ActiveIds' : /\ reservations'[i].bytes \in Sizes
                             /\ reservations'[i].slots \in SlotCounts
    BY <1>4, ReleasedIds, ZenonT(60) DEF LedgerInv
  <2>2. QED
    BY <1>4, <2>1, ReleaseExact, ZenonT(60) DEF LedgerInv, HasEntries
<1>5. QED
  BY <1>1, <1>2, <1>3, <1>4, ZenonT(60) DEF StoreNext, Reserve

LEMMA LedgerStart ==
  ASSUME StoreInit, StoreTypeOK, CapacityHonoured, GenerationOrder
  PROVE  LedgerInv
<1>1. ActiveIds = {}
  BY Zenon DEF StoreInit, ActiveIds, Active, NoReservation
<1>2. \A n : OnNode(n) = {} /\ OnAccel(n) = {}
  BY <1>1, Zenon DEF OnNode, OnAccel
<1>3. LedgerExact
  BY <1>2, SumEmpty, SumsNow, ZenonT(60) DEF StoreInit, EmptyMap, LedgerExact
<1>4. QED
  BY <1>1, <1>3, Zenon DEF LedgerInv, StoreInit, EmptyMap, HasEntries

LEMMA LedgerInvariant ==
  ASSUME NoWraparound
  PROVE  StoreSpec => []LedgerInv
<1>1. StoreInit /\ StoreTypeOK /\ CapacityHonoured /\ GenerationOrder => LedgerInv
  BY LedgerStart, Zenon
<1>2. LedgerInv /\ [StoreNext]_storeVars
        /\ StoreTypeOK' /\ CapacityHonoured' /\ GenerationOrder' => LedgerInv'
  BY LedgerStep, Zenon
<1>3. QED
  BY <1>1, <1>2, StoreTypeCorrect, StoreCapacity, StoreGenerations, PTL DEF StoreSpec

(* Where no addition can wrap around, each counter is at every moment the  *)
(* sum of what the active reservations claim.                              *)
THEOREM StoreLedgerExact ==
  ASSUME NoWraparound
  PROVE  StoreSpec => []LedgerExact
<1>1. LedgerInv => LedgerExact
  BY ZenonT(60) DEF LedgerInv
<1>2. QED
  BY <1>1, LedgerInvariant, PTL

(* ... and then what a node has promised to its active reservations fits   *)
(* its capacity.                                                           *)
THEOREM StoreNotOversubscribed ==
  ASSUME NoWraparound
  PROVE  StoreSpec => []NoOversubscription
<1>1. LedgerInv => NoOversubscription
  BY Zenon DEF LedgerInv, LedgerExact, CapacityHonoured, NoOversubscription
<1>2. QED
  BY <1>1, LedgerInvariant, PTL

-----------------------------------------------------------------------------
(* The ledger's sums over live claims are the sums over active             *)
(* reservations.                                                           *)
LEMMA SameSum == \A g, S : Ledger!SumFunctionOnSet(g, S) = SumFunctionOnSet(g, S)
BY Zenon DEF Ledger!SumFunctionOnSet, Ledger!FoldFunctionOnSet, Ledger!MapThenFoldSet,
       SumFunctionOnSet, FoldFunctionOnSet, MapThenFoldSet

LEMMA BookedExact ==
  ASSUME StoreTypeOK, GenerationOrder
  PROVE  /\ \A n \in Node : Ledger!Booked(n) = NodeBytes(n)
         /\ \A a \in Accelerator : Ledger!BookedAccel(a) = AccelBytes(a)
<1> DEFINE g == Ledger!ClaimBytes
<1>1. \A id \in ActiveIds :
        /\ ClaimOf[id] \in LiveClaims
        /\ ClaimOf[id].id = id
        /\ ClaimOf[id].node = reservations[id].node
        /\ ClaimOf[id].bytes = reservations[id].bytes
        /\ ClaimOf[id].accel = IF ClaimsAccel(reservations[id])
                               THEN reservations[id].accel ELSE NoAccelerator
  BY Zenon DEF LiveClaims, ClaimOf
<1>2. \A id \in ActiveIds : Bytes[id] \in Nat /\ g[ClaimOf[id]] = Bytes[id]
  BY <1>1, ActiveFacts, Zenon DEF Ledger!ClaimBytes
<1>3. \A i, j \in ActiveIds : ClaimOf[i] = ClaimOf[j] => i = j
  BY <1>1, ZenonT(60)
<1>4. \A n : {c \in LiveClaims : c.node = n} = {ClaimOf[id] : id \in OnNode(n)}
  BY <1>1, SMTT(30) DEF LiveClaims, OnNode
<1>5. \A a \in Accelerator :
        {c \in LiveClaims : c.accel = a} = {ClaimOf[id] : id \in OnAccel(a)}
  BY <1>1, ReservationConstants DEF LiveClaims, OnAccel
<1>6. \A n : /\ OnNode(n) \subseteq ActiveIds /\ IsFiniteSet(OnNode(n))
             /\ OnAccel(n) \subseteq ActiveIds /\ IsFiniteSet(OnAccel(n))
  BY ActiveFinite, ZenonT(60) DEF OnNode, OnAccel
<1> HIDE DEF g
<1>7. ASSUME NEW S \in SUBSET ActiveIds, IsFiniteSet(S)
      PROVE  SumFunctionOnSet(g, {ClaimOf[id] : id \in S}) = SumFunctionOnSet(Bytes, S)
  BY <1>2, <1>3, <1>7, SumRename, SMTT(30)
<1>8. \A n : Ledger!Booked(n) = SumFunctionOnSet(g, {c \in LiveClaims : c.node = n})
  BY SameSum, Zenon DEF Ledger!Booked, g
<1>9. \A a : Ledger!BookedAccel(a) = SumFunctionOnSet(g, {c \in LiveClaims : c.accel = a})
  BY SameSum, Zenon DEF Ledger!BookedAccel, g
<1>10. ASSUME NEW n \in Node PROVE Ledger!Booked(n) = NodeBytes(n)
  <2>1. SumFunctionOnSet(g, {ClaimOf[id] : id \in OnNode(n)}) = NodeBytes(n)
    BY <1>6, <1>7, SumsNow, ZenonT(60)
  <2>2. QED
    BY <1>4, <1>8, <2>1, ZenonT(60)
<1>11. ASSUME NEW a \in Accelerator PROVE Ledger!BookedAccel(a) = AccelBytes(a)
  <2>1. SumFunctionOnSet(g, {ClaimOf[id] : id \in OnAccel(a)}) = AccelBytes(a)
    BY <1>6, <1>7, SumsNow, ZenonT(60)
  <2>2. QED
    BY <1>5, <1>9, <2>1, ZenonT(60)
<1>12. QED
  BY <1>10, <1>11, ZenonT(60)

LEMMA AdmitIsAdmit ==
  ASSUME NoWraparound, LedgerInv, NEW req \in Request, ReserveAdmitted(req)
  PROVE  \E c \in LiveClaims' : Ledger!Admit(next_id, c)
<1> USE ReservationConstants
<1>1. StoreTypeOK /\ GenerationOrder /\ LedgerExact
  BY Zenon DEF LedgerInv
<1>2. /\ req.node \in Node /\ req.bytes \in Nat
      /\ ClaimsAccel(req) => req.accel \in Accelerator
  BY RequestFields, SMTT(30) DEF ClaimsAccel
<1>3. next_id \in 1 .. MaxId /\ next_id' = next_id + 1
  BY <1>1 DEF StoreTypeOK, ReserveAdmitted, TakeIdentity
<1> DEFINE c == [id |-> next_id, node |-> req.node, bytes |-> req.bytes,
                 accel |-> IF ClaimsAccel(req) THEN req.accel ELSE NoAccelerator]
<1>4. ClaimOf'[next_id] = c /\ \A i \in ActiveIds : ClaimOf'[i] = ClaimOf[i]
  <2>1. /\ reservations'[next_id].node = req.node
        /\ reservations'[next_id].bytes = req.bytes
        /\ reservations'[next_id].accel = req.accel
        /\ ClaimsAccel(reservations'[next_id]) = ClaimsAccel(req)
    BY <1>1, <1>3, ZenonT(60) DEF ReserveAdmitted, StoreTypeOK, ReservationId, ClaimsAccel
  <2>2. ClaimOf' = [id \in ActiveIds' |->
          [id |-> id, node |-> reservations'[id].node, bytes |-> reservations'[id].bytes,
           accel |-> IF ClaimsAccel(reservations'[id])
                     THEN reservations'[id].accel ELSE NoAccelerator]]
    BY Zenon DEF ClaimOf, ClaimsAccel
  <2>3. QED
    BY <1>1, <2>1, <2>2, AdmittedIds, ZenonT(60) DEF ClaimOf
<1>5. LiveClaims' = LiveClaims \cup {c}
  <2>1. LiveClaims' = {ClaimOf'[id] : id \in ActiveIds'}
    BY Zenon DEF LiveClaims
  <2>2. ActiveIds' = ActiveIds \cup {next_id}
    BY <1>1, AdmittedIds, ZenonT(60)
  <2>3. QED
    BY <1>4, <2>1, <2>2, ZenonT(60) DEF LiveClaims
<1>6. c.bytes > 0 /\ Capacity[c.node] > 0 =>
        Ledger!Booked(c.node) + c.bytes <= Capacity[c.node]
  <2>1. SUFFICES ASSUME req.bytes > 0, Capacity[req.node] > 0
                 PROVE  node_mem.val[req.node] + req.bytes <= Capacity[req.node]
    BY <1>1, <1>2, BookedExact, ZenonT(60) DEF LedgerExact
  <2>2. /\ node_mem.val[req.node] + req.bytes \in Int
        /\ (node_mem.val[req.node] + req.bytes) % Word
             = node_mem.val[req.node] + req.bytes
    BY AdmittedFits, SMTT(30)
  <2>3. QED
    BY <1>2, <2>1, <2>2, SMTT(30) DEF ReserveAdmitted, OverCapacity
<1>7. c.accel \in Accelerator => Ledger!BookedAccel(c.accel) + c.bytes <= AccelCeiling
  <2>1. SUFFICES ASSUME ClaimsAccel(req)
                 PROVE  accel_mem.val[req.accel] + req.bytes <= AccelCeiling
    BY <1>1, <1>2, BookedExact, ZenonT(60) DEF LedgerExact
  <2>2. /\ accel_mem.val[req.accel] + req.bytes \in Int
        /\ (accel_mem.val[req.accel] + req.bytes) % Word
             = accel_mem.val[req.accel] + req.bytes
    BY <2>1, AdmittedFits, SMTT(30)
  <2>3. QED
    BY <1>2, <2>1, <2>2, SMTT(30) DEF ReserveAdmitted, OverCeiling
<1>8. next_id \notin 1 .. next_id - 1 /\ 1 .. next_id' - 1 = (1 .. next_id - 1) \cup {next_id}
  BY <1>3
<1>9. Ledger!Admit(next_id, c)
  BY <1>5, <1>6, <1>7, <1>8, ZenonT(60) DEF Ledger!Admit
<1>10. QED
  BY <1>5, <1>9, ZenonT(60)

LEMMA StoreLedgerStep ==
  ASSUME NoWraparound, LedgerInv, [StoreNext]_storeVars
  PROVE  [Ledger!LedgerNext]_Ledger!ledgerVars
<1> USE ReservationConstants
<1>1. ASSUME NEW req \in Request, Reserve(req)
      PROVE  next_id \in 1 .. MaxId /\ next_id' = next_id + 1
  BY <1>1 DEF LedgerInv, StoreTypeOK, Reserve, ReserveRefusedByNode,
       ReserveRefusedByAccelerator, ReserveAdmitted, TakeIdentity
<1>2. ASSUME reservations' = reservations PROVE LiveClaims' = LiveClaims
  BY <1>2, Zenon DEF LiveClaims, ClaimOf, ActiveIds, Active, ClaimsAccel
<1>3. CASE UNCHANGED storeVars
  BY <1>2, <1>3, ZenonT(60) DEF storeVars, Ledger!ledgerVars
<1>4. ASSUME NEW req \in Request, ReserveAdmitted(req) PROVE Ledger!LedgerNext
  BY <1>1, <1>4, AdmitIsAdmit, ZenonT(60) DEF Ledger!LedgerNext, Reserve
<1>5. ASSUME NEW req \in Request,
             ReserveRefusedByNode(req) \/ ReserveRefusedByAccelerator(req)
      PROVE  Ledger!LedgerNext
  <2>1. next_id \in 1 .. MaxId /\ next_id' = next_id + 1
    BY <1>1, <1>5, ZenonT(60) DEF Reserve
  <2>2. LiveClaims' = LiveClaims
    BY <1>2, <1>5, RefuseExact, ZenonT(60)
  <2>3. next_id \notin 1 .. next_id - 1
        /\ 1 .. next_id' - 1 = (1 .. next_id - 1) \cup {next_id}
    BY <2>1
  <2>4. Ledger!Refuse(next_id)
    BY <2>2, <2>3, Zenon DEF Ledger!Refuse
  <2>5. QED
    BY <2>1, <2>4, ZenonT(60) DEF Ledger!LedgerNext
<1>6. ASSUME NEW id \in ReservationId, NEW expected \in OptionalGeneration,
             Release(id, expected)
      PROVE  Ledger!LedgerNext
  <2>1. id \in ActiveIds /\ ActiveIds' = ActiveIds \ {id}
    BY <1>6, ReleasedIds, ZenonT(60)
  <2>2. \A i \in ActiveIds' : ClaimOf'[i] = ClaimOf[i]
    <3>1. ClaimOf' = [i \in ActiveIds' |->
            [id |-> i, node |-> reservations'[i].node, bytes |-> reservations'[i].bytes,
             accel |-> IF ClaimsAccel(reservations'[i])
                       THEN reservations'[i].accel ELSE NoAccelerator]]
      BY Zenon DEF ClaimOf, ClaimsAccel
    <3>2. QED
      BY <1>6, <2>1, <3>1, ReleasedIds, ZenonT(60) DEF ClaimOf
  <2>3. \A i, j \in ActiveIds : ClaimOf[i] = ClaimOf[j] => i = j
    <3>1. \A i \in ActiveIds : ClaimOf[i].id = i
      BY Zenon DEF ClaimOf
    <3>2. QED
      BY <3>1, Zenon
  <2>4. LiveClaims' = {ClaimOf'[i] : i \in ActiveIds'}
    BY ZenonT(60) DEF LiveClaims
  <2>5. LiveClaims' = LiveClaims \ {ClaimOf[id]} /\ ClaimOf[id] \in LiveClaims
    BY <2>1, <2>2, <2>3, <2>4, SMTT(30) DEF LiveClaims
  <2>6. next_id' = next_id
    BY <1>6, Zenon DEF Release
  <2>7. QED
    BY <2>5, <2>6, ZenonT(60) DEF Ledger!LedgerNext, Ledger!Retire
<1>7. QED
  BY <1>3, <1>4, <1>5, <1>6, ZenonT(60) DEF StoreNext, Reserve

(* Where no addition can wrap around, the store implements the ledger:     *)
(* every step is an admission that fits the claims already live, a refusal *)
(* that only spends an id, or a retirement of one claim.                   *)
THEOREM StoreImplementsLedger ==
  ASSUME NoWraparound
  PROVE  StoreSpec => ImplementsLedger
<1>1. StoreInit => Ledger!LedgerInit
  BY DEF StoreInit, Ledger!LedgerInit, LiveClaims, ActiveIds, Active, NoReservation
<1>2. LedgerInv /\ [StoreNext]_storeVars => [Ledger!LedgerNext]_Ledger!ledgerVars
  BY StoreLedgerStep, Zenon
<1>3. QED
  BY <1>1, <1>2, LedgerInvariant, PTL DEF StoreSpec, ImplementsLedger, Ledger!LedgerSpec
=============================================================================
