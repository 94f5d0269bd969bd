---------------------------- MODULE RecoveryProofs ---------------------------
(***************************************************************************)
(* Safety of persistence and recovery, for every number of workers, nodes, *)
(* accelerators, reservations, crashes and saves, and every container an   *)
(* earlier coordinator may have left.                                      *)
(***************************************************************************)
EXTENDS Recovery, RuntimeProofs

(* What a container holds: boots that no two workers share, reservations   *)
(* that are active.                                                        *)
SavedWorkers(ws) ==
  /\ ws \in [WorkerId -> Worker \cup {NoWorker}]
  /\ \A w, v \in WorkerId : w # v /\ ws[w] # NoWorker => ws[w].boot # ws[v].boot

SavedReservations(rs) ==
  /\ rs \in [ReservationId -> Reservation \cup {NoReservation}]
  /\ \A id \in ReservationId : rs[id].status # "released"

Whole(save) ==
  /\ save = [epoch |-> save.epoch, workers |-> save.workers,
             reservations |-> save.reservations]
  /\ save.epoch \in 1 .. MaxEpoch
  /\ SavedWorkers(save.workers)
  /\ SavedReservations(save.reservations)

(* Half way through recover: what has been restored is as it was saved,    *)
(* and what is still to be restored is not there yet.                      *)
PartlyRestored ==
  /\ Whole(disk)
  /\ epoch = disk.epoch
  /\ todo \in [workers: SUBSET WorkerId, reservations: SUBSET ReservationId]
  /\ \A w \in WorkerId :
       workers[w] = IF w \in todo.workers THEN NoWorker ELSE disk.workers[w]
  /\ \A id \in ReservationId :
       reservations[id] \in {disk.reservations[id], NoReservation}
  /\ \A id \in todo.reservations :
       /\ reservations[id] = NoReservation
       /\ disk.reservations[id] # NoReservation

(* A process that is down has nothing in memory; the container, and the    *)
(* image that will replace it, are whole at every moment.                  *)
RecInv ==
  /\ RegistryTypeOK
  /\ BootsDistinct
  /\ StoreTypeOK
  /\ epoch \in 1 .. MaxEpoch
  /\ phase = "down" => RegistryInit /\ StoreInit
  /\ disk = NoSave \/ Whole(disk)
  /\ phase = "workers" => image.epoch \in 1 .. MaxEpoch /\ SavedWorkers(image.workers)
  /\ phase \in {"copied", "written"} => Whole(image)
  /\ phase = "restoring" => PartlyRestored

LEMMA WorkerBoots ==
  ASSUME RegistryTypeOK, NEW w \in WorkerId
  PROVE  /\ workers[w].boot \in 0 .. MaxBoot
         /\ workers[w] = NoWorker \/ workers[w] \in Worker
         /\ Known(w) <=> workers[w] # NoWorker
<1>1. workers[w] = NoWorker \/ workers[w] \in Worker
  BY Zenon DEF RegistryTypeOK
<1>2. CASE workers[w] = NoWorker
  BY <1>2, RegistryConstants, SMTT(30) DEF NoWorker, Known
<1>3. CASE workers[w] \in Worker
  BY <1>3, RegistryConstants, SMTT(30) DEF NoWorker, Worker, Known
<1>4. QED
  BY <1>1, <1>2, <1>3, ZenonT(60)

LEMMA RegistryQuiet ==
  ASSUME UNCHANGED registryVars, RegistryTypeOK, BootsDistinct
  PROVE  RegistryTypeOK' /\ BootsDistinct'
BY Zenon DEF registryVars, RegistryTypeOK, BootsDistinct, Known

LEMMA StoreQuiet ==
  ASSUME UNCHANGED storeVars, StoreTypeOK
  PROVE  StoreTypeOK'
BY Zenon DEF storeVars, StoreTypeOK

(* The registry and the store as a crash, or the very first start, leaves  *)
(* them.                                                                   *)
LEMMA FreshTypes ==
  ASSUME RegistryInit, StoreInit
  PROVE  RegistryTypeOK /\ BootsDistinct /\ StoreTypeOK
<1>1. RegistryTypeOK /\ BootsDistinct
  BY RegistryConstants, SMTT(30) DEF RegistryInit, RegistryTypeOK, BootsDistinct, NoWorker, Known
<1>2. StoreTypeOK
  BY ReservationConstants, SMTT(30)
  DEF StoreInit, StoreTypeOK, EmptyMap, Map, ReservationId, NoReservation
<1>3. QED
  BY <1>1, <1>2, ZenonT(60)

LEMMA RecInitial ==
  ASSUME RecInit
  PROVE  RecInv
<1>1. RegistryTypeOK /\ BootsDistinct /\ StoreTypeOK
  BY FreshTypes, Zenon DEF RecInit
<1>2. epoch \in 1 .. MaxEpoch /\ phase = "down"
  BY RecoveryConstants, SMTT(30) DEF RecInit
<1>3. disk = NoSave \/ Whole(disk)
  <2>1. ASSUME NEW save \in Container PROVE Whole(save)
    <3>1. save = [epoch |-> save.epoch, workers |-> save.workers,
                  reservations |-> save.reservations]
      BY <2>1 DEF Container
    <3>2. QED
      BY <2>1, <3>1, Zenon DEF Container, Whole, SavedWorkers, SavedReservations
  <2>2. QED
    BY <2>1, RecoveryConstants, ZenonT(60) DEF RecInit
<1>4. QED
  BY <1>1, <1>2, <1>3, SMTT(30) DEF RecInv, RecInit

-----------------------------------------------------------------------------
(* The steps of a process that serves. *)
LEMMA RunningKeeps ==
  ASSUME RecInv, RegistryTypeOK', BootsDistinct', StoreTypeOK', Running,
         phase' = phase, image' = image, disk' = disk, epoch' \in 1 .. MaxEpoch
  PROVE  RecInv'
BY ZenonT(60) DEF RecInv, Running, Whole, SavedWorkers, SavedReservations

LEMMA RegisterKeeps ==
  ASSUME RecInv, NEW w \in WorkerId, Register(w)
  PROVE  RecInv'
<1>1. RegistryTypeOK' /\ BootsDistinct'
  BY BrandedType, BrandedDistinct, Zenon DEF RecInv, Register
<1>2. StoreTypeOK'
  BY StoreQuiet, Zenon DEF RecInv, Register
<1>3. QED
  BY <1>1, <1>2, RunningKeeps, Zenon DEF Register, RecInv

LEMMA LoseKeeps ==
  ASSUME RecInv, NEW w \in WorkerId, Lose(w)
  PROVE  RecInv'
<1>1. RegistryTypeOK' /\ SameBoots
  BY MarkDeadKeeps, ZenonT(60) DEF RecInv, Lose
<1>2. BootsDistinct'
  BY <1>1 DEF SameBoots, BootsDistinct, RecInv, Known
<1>3. StoreTypeOK'
  BY StoreQuiet, Zenon DEF RecInv, Lose
<1>4. QED
  BY <1>1, <1>2, <1>3, RunningKeeps, ZenonT(60) DEF Lose, RecInv, recoveryVars

LEMMA UseStoreKeeps ==
  ASSUME RecInv, UseStore
  PROVE  RecInv'
<1>1. StoreTypeOK'
  BY ReserveType, ReleaseType, ZenonT(60) DEF RecInv, UseStore
<1>2. RegistryTypeOK' /\ BootsDistinct'
  BY RegistryQuiet, Zenon DEF RecInv, UseStore
<1>3. QED
  BY <1>1, <1>2, RunningKeeps, ZenonT(60) DEF UseStore, RecInv, recoveryVars

LEMMA AdvanceEpochKeeps ==
  ASSUME RecInv, AdvanceEpoch
  PROVE  RecInv'
<1>1. epoch' \in 1 .. MaxEpoch
  BY RecoveryConstants DEF RecInv, AdvanceEpoch
<1>2. RegistryTypeOK' /\ BootsDistinct' /\ StoreTypeOK'
  BY RegistryQuiet, StoreQuiet, ZenonT(60) DEF RecInv, AdvanceEpoch
<1>3. QED
  BY <1>1, <1>2, RunningKeeps, ZenonT(60) DEF AdvanceEpoch

-----------------------------------------------------------------------------
(* The steps of persist. *)
LEMMA CopyWorkersKeeps ==
  ASSUME RecInv, CopyWorkers
  PROVE  RecInv'
<1>1. RegistryTypeOK' /\ BootsDistinct' /\ StoreTypeOK'
  BY RegistryQuiet, StoreQuiet, ZenonT(60) DEF RecInv, CopyWorkers
<1>2. image'.epoch \in 1 .. MaxEpoch /\ image'.workers = [w \in WorkerId |-> SavedWorker(w)]
  BY Zenon DEF CopyWorkers, RecInv
<1>3. ASSUME NEW w \in WorkerId
      PROVE  /\ SavedWorker(w) \in Worker \cup {NoWorker}
             /\ SavedWorker(w).boot = workers[w].boot
             /\ SavedWorker(w) # NoWorker => Known(w)
  <2>1. CASE ~Known(w)
    BY <2>1, WorkerBoots, ZenonT(60) DEF SavedWorker, RecInv
  <2>2. CASE Known(w)
    <3>1. workers[w] \in Worker
      BY <2>2, WorkerBoots, ZenonT(60) DEF RecInv
    <3> DEFINE r == [workers[w] EXCEPT !.bound = FALSE, !.requested = NoNode,
                                       !.current = NoNode]
    <3>2. r \in Worker /\ r.boot = workers[w].boot
      BY <3>1, ZenonT(60) DEF Worker
    <3>3. SavedWorker(w) = r
      BY <2>2, ZenonT(60) DEF SavedWorker
    <3> HIDE DEF r
    <3>4. QED
      BY <2>2, <3>2, <3>3, ZenonT(60)
  <2>3. QED
    BY <2>1, <2>2, ZenonT(60)
<1>4. SavedWorkers(image'.workers)
  <2>1. image'.workers \in [WorkerId -> Worker \cup {NoWorker}]
    BY <1>2, <1>3, SMTT(30)
  <2>2. ASSUME NEW w \in WorkerId, NEW v \in WorkerId, w # v, SavedWorker(w) # NoWorker
        PROVE  SavedWorker(w).boot # SavedWorker(v).boot
    BY <1>3, <2>2, ZenonT(60) DEF RecInv, BootsDistinct
  <2>3. QED
    BY <1>2, <2>1, <2>2, ZenonT(60) DEF SavedWorkers
<1>5. phase' = "workers" /\ disk' = disk /\ epoch' = epoch
  BY ZenonT(60) DEF CopyWorkers
<1>6. QED
  BY <1>1, <1>2, <1>4, <1>5, ZenonT(60) DEF RecInv, Whole, SavedReservations, SavedWorkers

LEMMA CopyReservationsKeeps ==
  ASSUME RecInv, CopyReservations
  PROVE  RecInv' /\ SavedReservations([id \in ReservationId |-> SavedReservation(id)])
<1>1. RegistryTypeOK' /\ BootsDistinct' /\ StoreTypeOK'
  BY RegistryQuiet, StoreQuiet, ZenonT(60) DEF RecInv, CopyReservations
<1>2. ASSUME NEW id \in ReservationId
      PROVE  /\ SavedReservation(id) \in Reservation \cup {NoReservation}
             /\ SavedReservation(id).status # "released"
  <2>1. reservations[id] \in Reservation \cup {NoReservation}
    BY ZenonT(60) DEF RecInv, StoreTypeOK
  <2>2. QED
    BY <2>1 DEF SavedReservation, NoReservation, Active
<1>3. SavedReservations([id \in ReservationId |-> SavedReservation(id)])
  BY <1>2 DEF SavedReservations
<1>4. Whole(image')
  BY <1>3, Zenon DEF CopyReservations, Whole, RecInv
<1>5. phase' = "copied" /\ disk' = disk /\ epoch' = epoch
  BY Zenon DEF CopyReservations
<1>6. QED
  BY <1>1, <1>3, <1>4, <1>5, ZenonT(60) DEF RecInv, Whole, SavedReservations, SavedWorkers

LEMMA SaveKeeps ==
  ASSUME RecInv, WriteTemp \/ Rename \/ SaveFails
  PROVE  RecInv'
<1>1. RegistryTypeOK' /\ BootsDistinct' /\ StoreTypeOK' /\ epoch' = epoch
  BY RegistryQuiet, StoreQuiet, ZenonT(60) DEF RecInv, WriteTemp, Rename, SaveFails
<1>2. CASE WriteTemp
  BY <1>1, <1>2, ZenonT(60) DEF WriteTemp, RecInv, Whole, SavedReservations, SavedWorkers
<1>3. CASE Rename
  BY <1>1, <1>3, ZenonT(60) DEF Rename, RecInv, Whole, SavedReservations, SavedWorkers
<1>4. CASE SaveFails
  BY <1>1, <1>4, ZenonT(60) DEF SaveFails, RecInv, Whole, SavedReservations, SavedWorkers
<1>5. QED
  BY <1>2, <1>3, <1>4, ZenonT(60)

-----------------------------------------------------------------------------
(* Crash and recovery. *)
LEMMA CrashKeeps ==
  ASSUME RecInv, Crash
  PROVE  RecInv'
<1>1. RegistryInit' /\ StoreInit'
  BY Zenon DEF Crash, RegistryInit, StoreInit
<1>2. RegistryTypeOK' /\ BootsDistinct' /\ StoreTypeOK'
  <2>1. RegistryTypeOK' /\ BootsDistinct'
    BY <1>1, RegistryConstants, SMTT(30) DEF RegistryInit, RegistryTypeOK, BootsDistinct, NoWorker, Known
  <2>2. StoreTypeOK'
    BY <1>1, ReservationConstants, SMTT(30)
    DEF StoreInit, StoreTypeOK, EmptyMap, Map, ReservationId, NoReservation
  <2>3. QED
    BY <2>1, <2>2, ZenonT(60)
<1>3. epoch' \in 1 .. MaxEpoch /\ phase' = "down" /\ disk' = disk
  BY RecoveryConstants, SMTT(30) DEF Crash
<1>4. QED
  BY <1>1, <1>2, <1>3 DEF RecInv, Whole, SavedReservations, SavedWorkers

LEMMA StartKeeps ==
  ASSUME RecInv, StartFresh \/ Serve
  PROVE  RecInv'
<1>1. RegistryTypeOK' /\ BootsDistinct' /\ StoreTypeOK'
  BY RegistryQuiet, StoreQuiet, ZenonT(60) DEF RecInv, StartFresh, Serve
<1>2. epoch' = epoch /\ phase' = "serving" /\ disk' = disk
  BY Zenon DEF StartFresh, Serve
<1>3. QED
  BY <1>1, <1>2 DEF RecInv, Whole, SavedReservations, SavedWorkers

LEMMA LoadKeeps ==
  ASSUME RecInv, Load
  PROVE  RecInv'
<1>1. RegistryTypeOK' /\ BootsDistinct' /\ StoreTypeOK'
  BY RegistryQuiet, StoreQuiet, ZenonT(60) DEF RecInv, Load
<1>2. Whole(disk) /\ RegistryInit /\ StoreInit
  BY Zenon DEF RecInv, Load
<1>3. /\ phase' = "restoring" /\ disk' = disk /\ epoch' = disk.epoch
      /\ workers' = workers /\ reservations' = reservations
  BY ZenonT(60) DEF Load, registryVars, storeVars
<1>4. /\ todo'.workers = {w \in WorkerId : disk.workers[w] # NoWorker}
      /\ todo'.reservations = {id \in ReservationId : disk.reservations[id] # NoReservation}
      /\ todo' \in [workers: SUBSET WorkerId, reservations: SUBSET ReservationId]
  BY DEF Load
<1>5. /\ \A w \in WorkerId : workers[w] = NoWorker
      /\ \A id \in ReservationId : reservations[id] = NoReservation
  BY <1>2, ZenonT(60) DEF RegistryInit, StoreInit
<1>6. Whole(disk)'
  BY <1>2, <1>3, ZenonT(60) DEF Whole, SavedWorkers, SavedReservations
<1>7. PartlyRestored'
  BY <1>3, <1>4, <1>5, <1>6, ZenonT(60) DEF PartlyRestored
<1>8. epoch' \in 1 .. MaxEpoch
  BY <1>2, <1>3, ZenonT(60) DEF Whole
<1>9. QED
  BY <1>1, <1>3, <1>6, <1>7, <1>8, ZenonT(60) DEF RecInv

LEMMA RestoreWorkerKeeps ==
  ASSUME RecInv, NEW w \in WorkerId, RestoreOneWorker(w)
  PROVE  RecInv'
<1>1. PartlyRestored /\ w \in todo.workers /\ phase' = "restoring" /\ disk' = disk
      /\ epoch' = epoch /\ reservations' = reservations
  BY Zenon DEF RecInv, RestoreOneWorker, storeVars
<1>2. Whole(disk)' /\ Whole(disk)
  BY <1>1, Zenon DEF PartlyRestored, Whole, SavedWorkers, SavedReservations
<1>3. StoreTypeOK'
  BY StoreQuiet, Zenon DEF RecInv, RestoreOneWorker
<1>4. /\ workers' = [workers EXCEPT ![w] = disk.workers[w]]
      /\ next_boot' = IF disk.workers[w].boot >= next_boot
                      THEN disk.workers[w].boot + 1 ELSE next_boot
  BY ZenonT(60) DEF RestoreOneWorker, RestoreWorker
<1>5. disk.workers[w] \in Worker \cup {NoWorker} /\ disk.workers[w].boot \in 0 .. MaxBoot
  <2>1. disk.workers[w] \in Worker \cup {NoWorker}
    BY <1>2, ZenonT(60) DEF Whole, SavedWorkers
  <2>2. QED
    BY <2>1, RegistryConstants DEF Worker, NoWorker
<1>6. RegistryTypeOK'
  BY <1>4, <1>5, RegistryConstants, SMTT(30) DEF RecInv, RegistryTypeOK
<1>7. \A v \in WorkerId : workers'[v] = IF v = w THEN disk.workers[w] ELSE workers[v]
  BY <1>4, ZenonT(60) DEF RecInv, RegistryTypeOK
<1>8. /\ next_boot \in Nat /\ next_boot' \in Nat /\ next_boot <= next_boot'
      /\ disk.workers[w].boot < next_boot'
  BY <1>4, <1>5, RegistryConstants, SMTT(30) DEF RecInv, RegistryTypeOK
<1>9. \A v \in WorkerId : workers[v] # NoWorker => workers[v] = disk.workers[v]
  BY <1>1, Zenon DEF PartlyRestored
<1>10. BootsDistinct'
  <2> SUFFICES ASSUME NEW v \in WorkerId, workers'[v].boot # 0
               PROVE  /\ workers'[v].boot < next_boot'
                      /\ \A u \in WorkerId \ {v} : workers'[u].boot # workers'[v].boot
    BY Zenon DEF BootsDistinct, Known
  <2>1. workers'[v].boot < next_boot'
    <3>1. CASE v = w
      BY <1>7, <1>8, <3>1, ZenonT(60)
    <3>2. CASE v # w
      <4>1. workers'[v] = workers[v] /\ workers[v].boot < next_boot
        BY <1>7, <3>2, ZenonT(60) DEF RecInv, BootsDistinct, Known
      <4>2. workers[v].boot \in Nat
        BY WorkerBoots DEF RecInv
      <4>3. QED
        BY <1>8, <4>1, <4>2, SMTT(30)
    <3>3. QED
      BY <3>1, <3>2, Zenon
  <2>2. \A u \in WorkerId : workers'[u].boot # 0 => workers'[u] = disk.workers[u]
    <3>1. \A u \in WorkerId : workers[u].boot # 0 => workers[u] # NoWorker
      BY DEF NoWorker
    <3>2. QED
      BY <1>7, <1>9, <3>1, ZenonT(60)
  <2>3. workers'[v] = disk.workers[v] /\ disk.workers[v] # NoWorker
    BY <2>2 DEF NoWorker
  <2>4. QED
    BY <1>2, <2>1, <2>2, <2>3, ZenonT(60) DEF Whole, SavedWorkers
<1>11. PartlyRestored'
  <2>1. /\ todo'.workers = todo.workers \ {w} /\ todo'.reservations = todo.reservations
        /\ todo' \in [workers: SUBSET WorkerId, reservations: SUBSET ReservationId]
    BY <1>1 DEF RestoreOneWorker, PartlyRestored
  <2>2. \A v \in WorkerId :
          workers'[v] = IF v \in todo'.workers THEN NoWorker ELSE disk.workers[v]
    BY <1>1, <1>7, <2>1, ZenonT(60) DEF PartlyRestored
  <2>3. QED
    BY <1>1, <1>2, <2>1, <2>2, ZenonT(60) DEF PartlyRestored
<1>12. QED
  BY <1>1, <1>2, <1>3, <1>6, <1>10, <1>11, ZenonT(60) DEF RecInv

(* A restored reservation: what is known about it, and where it goes. *)
LEMMA RestoredFacts ==
  ASSUME RecInv, NEW id \in ReservationId, RestoreOneReservation(id)
  PROVE  /\ PartlyRestored /\ Whole(disk)
         /\ phase = "restoring" /\ phase' = "restoring" /\ disk' = disk /\ epoch' = epoch
         /\ UNCHANGED registryVars
         /\ id \in todo.reservations
         /\ disk.reservations[id] \in Reservation
         /\ disk.reservations[id].status = "active"
         /\ reservations[id] = NoReservation
         /\ todo'.workers = todo.workers
         /\ todo'.reservations = todo.reservations \ {id}
         /\ todo' \in [workers: SUBSET WorkerId, reservations: SUBSET ReservationId]
<1>1. PartlyRestored /\ Whole(disk) /\ phase = "restoring" /\ id \in todo.reservations
  BY Zenon DEF RecInv, RestoreOneReservation, PartlyRestored
<1>2. /\ phase' = "restoring" /\ disk' = disk /\ epoch' = epoch
      /\ UNCHANGED registryVars
  BY Zenon DEF RestoreOneReservation
<1>3. disk.reservations[id] # NoReservation /\ reservations[id] = NoReservation
  BY <1>1, Zenon DEF PartlyRestored
<1>4. disk.reservations[id] \in Reservation /\ disk.reservations[id].status # "released"
  BY <1>1, <1>3, ZenonT(60) DEF Whole, SavedReservations
<1>5. disk.reservations[id].status = "active"
  BY <1>4 DEF Reservation
<1>6. /\ todo'.workers = todo.workers
      /\ todo'.reservations = todo.reservations \ {id}
      /\ todo' \in [workers: SUBSET WorkerId, reservations: SUBSET ReservationId]
  BY <1>1, ZenonT(60) DEF RestoreOneReservation, PartlyRestored
<1>7. QED
  BY <1>1, <1>2, <1>3, <1>4, <1>5, <1>6, ZenonT(60)

LEMMA RestoreReservationKeeps ==
  ASSUME RecInv, NEW id \in ReservationId, RestoreOneReservation(id)
  PROVE  RecInv'
<1> DEFINE r == disk.reservations[id]
<1> USE ReservationConstants
<1>1. /\ PartlyRestored /\ Whole(disk) /\ phase' = "restoring" /\ disk' = disk
      /\ epoch' = epoch /\ UNCHANGED registryVars
      /\ r \in Reservation /\ todo'.workers = todo.workers
      /\ todo'.reservations = todo.reservations \ {id}
      /\ todo' \in [workers: SUBSET WorkerId, reservations: SUBSET ReservationId]
  BY RestoredFacts, Zenon
<1>2. RegistryTypeOK' /\ BootsDistinct' /\ workers' = workers
  BY <1>1, RegistryQuiet, ZenonT(60) DEF RecInv, registryVars
<1>3. /\ r \in [status: {"active", "released"}, generation: Nat, node: Node,
                 bytes: 0 .. Word - 1, slots: 0 .. SlotWord - 1,
                 accel: Accelerator \cup {NoAccelerator}, accel_capacity: BOOLEAN]
      /\ r.node \in Node /\ r.bytes \in Nat /\ r.slots \in Nat /\ r.generation \in Nat
      /\ ClaimsAccel(r) => r.accel \in Accelerator
  BY <1>1 DEF Reservation, ClaimsAccel
<1>4. StoreTypeOK'
  <2>1. CASE RestoreRefused(id, r)
    <3>1. Touch(node_mem, r.node) \in Map(Node, Word)
      BY <1>3, TouchType, ZenonT(60) DEF RecInv, StoreTypeOK
    <3>2. QED
      BY <2>1, <3>1, ZenonT(60) DEF RestoreRefused, RecInv, StoreTypeOK
  <2>2. CASE RestoreAdmitted(id, r)
    <3>1. /\ node_mem' \in Map(Node, Word)
          /\ node_slots' \in Map(Node, SlotWord)
          /\ accel_mem' \in Map(Accelerator, Word)
      BY <1>3, <2>2, PlusType, ZenonT(60) DEF RestoreAdmitted, Claim, RecInv, StoreTypeOK
    <3>2. watermark' \in Nat /\ next_id' = next_id
      BY <1>3, <2>2, ZenonT(60) DEF RestoreAdmitted, RecInv, StoreTypeOK
    <3>3. reservations' \in [ReservationId -> Reservation \cup {NoReservation}]
      BY <1>1, <2>2, ZenonT(60) DEF RestoreAdmitted, RecInv, StoreTypeOK
    <3>4. QED
      BY <3>1, <3>2, <3>3, ZenonT(60) DEF RecInv, StoreTypeOK
  <2>3. QED
    BY <2>1, <2>2, ZenonT(60) DEF RestoreOneReservation
<1>5. \A i \in ReservationId :
        \/ reservations'[i] = reservations[i]
        \/ i = id /\ reservations'[i] = disk.reservations[i]
  BY Zenon DEF RestoreOneReservation, RestoreRefused, RestoreAdmitted, RecInv, StoreTypeOK
<1>6. Whole(disk)'
  BY <1>1, Zenon DEF Whole, SavedWorkers, SavedReservations
<1>7. PartlyRestored'
  BY <1>1, <1>2, <1>5, <1>6, ZenonT(60) DEF PartlyRestored
<1>8. QED
  BY <1>1, <1>2, <1>4, <1>6, <1>7, ZenonT(60) DEF RecInv

LEMMA RecInductive ==
  ASSUME RecInv, [RecNext]_allVars
  PROVE  RecInv'
<1>1. CASE UNCHANGED allVars
  <2>1. UNCHANGED <<registryVars, storeVars>> /\ workers' = workers
        /\ next_boot' = next_boot /\ reservations' = reservations
        /\ UNCHANGED <<epoch, phase, image, disk, todo>> /\ UNCHANGED storeVars
    BY <1>1, ZenonT(60) DEF allVars, registryVars, storeVars, recoveryVars
  <2>2. RegistryTypeOK' /\ BootsDistinct' /\ StoreTypeOK'
    BY <2>1, RegistryQuiet, StoreQuiet, ZenonT(60) DEF RecInv
  <2>3. phase' = "down" => RegistryInit' /\ StoreInit'
    BY <2>1, ZenonT(60) DEF RecInv, RegistryInit, StoreInit, storeVars
  <2>4. phase' = "restoring" => PartlyRestored'
    BY <2>1, ZenonT(60) DEF RecInv, PartlyRestored, Whole, SavedWorkers, SavedReservations
  <2>5. QED
    BY <2>1, <2>2, <2>3, <2>4, ZenonT(60) DEF RecInv, Whole, SavedWorkers, SavedReservations
<1>2. CASE RecNext
  BY <1>2, RegisterKeeps, LoseKeeps, RestoreWorkerKeeps, UseStoreKeeps, AdvanceEpochKeeps,
     CopyWorkersKeeps, CopyReservationsKeeps, SaveKeeps, CrashKeeps, StartKeeps,
     LoadKeeps, RestoreReservationKeeps, Zenon DEF RecNext
<1>3. QED
  BY <1>1, <1>2, ZenonT(60)

LEMMA RecAlways == RecSpec => []RecInv
<1>1. RecInit => RecInv
  BY RecInitial, Zenon
<1>2. RecInv /\ [RecNext]_allVars => RecInv'
  BY RecInductive, Zenon
<1>3. QED
  BY <1>1, <1>2, PTL DEF RecSpec

(* Across crashes and recoveries, every boot in the registry was handed    *)
(* out and no two workers carry the same one.                              *)
THEOREM RecBootsDistinct == RecSpec => []BootsDistinct
<1>1. RecInv => BootsDistinct
  BY Zenon DEF RecInv
<1>2. QED
  BY <1>1, RecAlways, PTL

-----------------------------------------------------------------------------
(* What the reservations of one table claim from an accelerator. *)
Table == [ReservationId -> Reservation \cup {NoReservation}]

(* The bytes of the claimants, as the function Claimed adds up. *)
Shares(res, a) == [id \in Claimants(res, a) |-> res[id].bytes]

LEMMA ClaimantFacts ==
  ASSUME NEW res \in Table, NEW a
  PROVE  /\ IsFiniteSet(Claimants(res, a))
         /\ Claimants(res, a) \subseteq ReservationId
         /\ \A id \in Claimants(res, a) :
              Shares(res, a)[id] = res[id].bytes /\ Shares(res, a)[id] \in Nat
         /\ Claimed(res, a) = SumFunctionOnSet(Shares(res, a), Claimants(res, a))
         /\ Claimed(res, a) \in Nat
<1>1. Claimants(res, a) \subseteq ReservationId
  BY Zenon DEF Claimants
<1>2. IsFiniteSet(ReservationId)
  BY ReservationConstants, FS_Interval DEF ReservationId
<1>3. IsFiniteSet(Claimants(res, a))
  BY <1>1, <1>2, FS_Subset, ZenonT(60)
<1>4. \A id \in Claimants(res, a) : res[id] \in Reservation
  BY DEF Claimants, Table, NoReservation
<1>5. \A id \in Claimants(res, a) :
        Shares(res, a)[id] = res[id].bytes /\ Shares(res, a)[id] \in Nat
  BY <1>4, ReservationConstants DEF Shares, Reservation
<1>6. Claimed(res, a) = SumFunctionOnSet(Shares(res, a), Claimants(res, a))
  BY Zenon DEF Claimed, Shares
<1>7. SumFunctionOnSet(Shares(res, a), Claimants(res, a)) \in Nat
  BY <1>3, <1>5, SumNat, ZenonT(60)
<1>8. QED
  BY <1>1, <1>3, <1>5, <1>6, <1>7, ZenonT(60)

(* Fewer claimants claim no more. *)
LEMMA ClaimedWithin ==
  ASSUME NEW res \in Table, NEW other \in Table, NEW a,
         \A id \in Claimants(res, a) : id \in Claimants(other, a) /\ res[id] = other[id]
  PROVE  Claimed(res, a) <= Claimed(other, a)
<1>1. Claimants(res, a) \in SUBSET Claimants(other, a)
  BY Zenon
<1> DEFINE g == Shares(other, a)
           h == Shares(res, a)
           C == Claimants(res, a)
           D == Claimants(other, a)
<1>2. (\A id \in C : h[id] = res[id].bytes) /\ Claimed(res, a) = SumFunctionOnSet(h, C)
  BY ClaimantFacts, ZenonT(60)
<1>3. /\ IsFiniteSet(D) /\ \A id \in D : g[id] = other[id].bytes /\ g[id] \in Nat
      /\ Claimed(other, a) = SumFunctionOnSet(g, D)
  BY ClaimantFacts, ZenonT(60)
<1>4. C \in SUBSET D /\ \A id \in C : h[id] = g[id]
  BY <1>1, <1>2, <1>3, ZenonT(60)
<1> HIDE DEF g, h, C, D
<1>5. SumFunctionOnSet(h, C) <= SumFunctionOnSet(g, D)
  BY <1>3, <1>4, SumWithin, ZenonT(60)
<1>6. QED
  BY <1>2, <1>3, <1>5, ZenonT(60)

(* A reservation written over another, or over none. *)
Written(new, res, id, r) ==
  /\ res \in Table /\ new \in Table /\ id \in ReservationId
  /\ r \in Reservation /\ r.status = "active"
  /\ new = [res EXCEPT ![id] = r]

(* What that does to the claims: the bytes of a reservation that claims the accelerator *)
(* are added, exactly where nothing was overwritten.                                   *)
Accounted(new, res, id, r) ==
  \A a : LET claims == ClaimsAccel(r) /\ r.accel = a
         IN  /\ claims => Claimed(new, a) <= Claimed(res, a) + r.bytes
             /\ ~claims => Claimed(new, a) <= Claimed(res, a)
             /\ res[id] = NoReservation /\ claims => Claimed(new, a) = Claimed(res, a) + r.bytes
             /\ res[id] = NoReservation /\ ~claims => Claimed(new, a) = Claimed(res, a)

LEMMA ClaimedWritten ==
  ASSUME NEW new, NEW res, NEW id, NEW r, Written(new, res, id, r)
  PROVE  Accounted(new, res, id, r)
<1> SUFFICES ASSUME NEW a
             PROVE  /\ ClaimsAccel(r) /\ r.accel = a => Claimed(new, a) <= Claimed(res, a) + r.bytes
                    /\ ~(ClaimsAccel(r) /\ r.accel = a) => Claimed(new, a) <= Claimed(res, a)
                    /\ res[id] = NoReservation /\ ClaimsAccel(r) /\ r.accel = a =>
                         Claimed(new, a) = Claimed(res, a) + r.bytes
                    /\ res[id] = NoReservation /\ ~(ClaimsAccel(r) /\ r.accel = a) =>
                         Claimed(new, a) = Claimed(res, a)
  BY Zenon DEF Accounted
<1> DEFINE g == Shares(res, a)
           h == Shares(new, a)
           C == Claimants(res, a)
           D == Claimants(new, a)
           Claims == ClaimsAccel(r) /\ r.accel = a
<1> USE DEF Written
<1>1. new[id] = r /\ \A i \in ReservationId \ {id} : new[i] = res[i]
  BY ZenonT(60) DEF Table
<1>2. /\ D \subseteq C \cup {id}
      /\ id \in D <=> Claims
      /\ \A i \in ReservationId \ {id} : i \in D <=> i \in C
      /\ res[id] = NoReservation => id \notin C
  BY <1>1 DEF Claimants, NoReservation
<1>3. /\ IsFiniteSet(C) /\ C \subseteq ReservationId
      /\ \A i \in C : g[i] = res[i].bytes /\ g[i] \in Nat
      /\ Claimed(res, a) = SumFunctionOnSet(g, C) /\ Claimed(res, a) \in Nat
  BY ClaimantFacts, ZenonT(60)
<1>4. /\ IsFiniteSet(D) /\ D \subseteq ReservationId
      /\ \A i \in D : h[i] = new[i].bytes /\ h[i] \in Nat
      /\ Claimed(new, a) = SumFunctionOnSet(h, D)
  BY ClaimantFacts, ZenonT(60)
<1>5. r.bytes \in Nat
  BY ReservationConstants, SMTT(30) DEF Reservation
<1> HIDE DEF g, h, C, D, Claims, Written
<1>6. /\ \A i \in D \ {id} : i \in C /\ h[i] = g[i]
      /\ id \in D => h[id] = r.bytes
  <2>1. \A i \in D \ {id} : i \in ReservationId \ {id} /\ i \in C
    BY <1>2, <1>4, ZenonT(60)
  <2>2. QED
    BY <1>1, <1>3, <1>4, <2>1, ZenonT(60)
<1>7. Claims => Claimed(new, a) <= Claimed(res, a) + r.bytes
  <2>1. SUFFICES ASSUME id \in D
                 PROVE  SumFunctionOnSet(h, D) <= SumFunctionOnSet(g, C) + h[id]
    BY <1>2, <1>3, <1>4, <1>6, ZenonT(60)
  <2>2. QED
    BY <1>2, <1>3, <1>4, <1>6, <2>1, SumReplace, ZenonT(60)
<1>8. ~Claims => Claimed(new, a) <= Claimed(res, a)
  <2>1. SUFFICES ASSUME id \notin D
                 PROVE  SumFunctionOnSet(h, D) <= SumFunctionOnSet(g, C)
    BY <1>2, <1>3, <1>4, ZenonT(60)
  <2>2. D \in SUBSET C /\ \A i \in D : h[i] = g[i]
    BY <1>2, <1>6, <2>1, ZenonT(60)
  <2>3. QED
    BY <1>3, <2>2, SumWithin, ZenonT(60)
<1>9. ASSUME res[id] = NoReservation
      PROVE  /\ Claims => Claimed(new, a) = Claimed(res, a) + r.bytes
             /\ ~Claims => Claimed(new, a) = Claimed(res, a)
  <2>1. id \notin C
    BY <1>2, <1>9, ZenonT(60)
  <2>2. CASE Claims
    <3>1. D = C \cup {id} /\ id \in D
      BY <1>2, <1>3, <1>4, <2>2, ZenonT(60)
    <3>2. \A i \in C : g[i] \in Nat /\ h[i] = g[i]
      BY <1>3, <1>6, <2>1, <3>1, ZenonT(60)
    <3>3. h[id] = r.bytes /\ h[id] \in Nat
      BY <1>5, <1>6, <3>1, ZenonT(60)
    <3>4. SumFunctionOnSet(h, D) = SumFunctionOnSet(g, C) + h[id]
      BY <1>3, <2>1, <3>1, <3>2, <3>3, SumJoin, SMTT(30)
    <3>5. QED
      BY <1>3, <1>4, <2>2, <3>3, <3>4, ZenonT(60)
  <2>3. CASE ~Claims
    <3>1. D = C
      <4>1. id \notin D
        BY <1>2, <2>3, ZenonT(60)
      <4>2. \A i \in D : i \in C
        BY <1>2, <4>1
      <4>3. \A i \in C : i \in D
        BY <1>2, <1>3, <2>1, ZenonT(60)
      <4>4. QED
        BY <4>2, <4>3
    <3>2. \A i \in C : h[i] = g[i]
      BY <1>6, <2>1, <3>1, ZenonT(60)
    <3>3. SumFunctionOnSet(h, D) = SumFunctionOnSet(g, C)
      BY <1>3, <3>1, <3>2, SumAgree, ZenonT(60)
    <3>4. QED
      BY <1>3, <1>4, <2>3, <3>3, ZenonT(60)
  <2>4. QED
    BY <2>2, <2>3, ZenonT(60)
<1>10. QED
  BY <1>7, <1>8, <1>9, ZenonT(60) DEF Claims

LEMMA ClaimedReleased ==
  ASSUME NEW res \in Table, NEW id \in ReservationId, res[id].status = "active", NEW a,
         NEW new \in Table, new = [res EXCEPT ![id].status = "released"]
  PROVE  /\ ClaimsAccel(res[id]) /\ res[id].accel = a =>
              /\ Claimed(new, a) = Claimed(res, a) - res[id].bytes
              /\ res[id].bytes <= Claimed(res, a)
         /\ ~(ClaimsAccel(res[id]) /\ res[id].accel = a) => Claimed(new, a) <= Claimed(res, a)
<1> DEFINE g == Shares(res, a)
           h == Shares(new, a)
           C == Claimants(res, a)
           D == Claimants(new, a)
<1>1. res[id] \in Reservation
  BY DEF Table, NoReservation
<1>2. new[id].status = "released" /\ \A i \in ReservationId \ {id} : new[i] = res[i]
  BY <1>1, SMTT(30) DEF Table, Reservation
<1>3. D = C \ {id} /\ (id \in C <=> ClaimsAccel(res[id]) /\ res[id].accel = a)
  BY <1>2 DEF Claimants
<1>4. \A i \in D : new[i] = res[i] /\ i \in C
  BY <1>2, <1>3, ZenonT(60) DEF Claimants
<1>5. Claimed(new, a) <= Claimed(res, a)
  BY <1>4, ClaimedWithin, ZenonT(60)
<1>6. /\ IsFiniteSet(C)
      /\ \A i \in C : g[i] = res[i].bytes /\ g[i] \in Nat
      /\ Claimed(res, a) = SumFunctionOnSet(g, C)
  BY ClaimantFacts, Zenon
<1>7. /\ \A i \in D : h[i] = new[i].bytes
      /\ Claimed(new, a) = SumFunctionOnSet(h, D)
  BY ClaimantFacts, ZenonT(60)
<1> HIDE DEF g, h, C, D
<1>8. \A i \in D : h[i] = g[i]
  BY <1>4, <1>6, <1>7
<1>9. ASSUME id \in C
      PROVE  Claimed(new, a) = Claimed(res, a) - res[id].bytes /\ res[id].bytes <= Claimed(res, a)
  <2>1. SumFunctionOnSet(h, D) = SumFunctionOnSet(g, C) - g[id]
    BY <1>3, <1>6, <1>8, <1>9, SumLeave, SMTT(30)
  <2>2. g[id] <= SumFunctionOnSet(g, C)
    BY <1>6, <1>9, SumCovers, ZenonT(60)
  <2>3. QED
    BY <1>6, <1>7, <1>9, <2>1, <2>2, ZenonT(60)
<1>10. QED
  BY <1>3, <1>5, <1>9, ZenonT(60)

-----------------------------------------------------------------------------
(* Within the ceiling of every accelerator. *)
WithinCeiling(res) == \A a \in Accelerator : Claimed(res, a) <= AccelCeiling

(* recover does not check the ceiling again.  It need not: what a          *)
(* container claims was within it, since accel_mem covers the active       *)
(* reservations at every moment, and equals them while they are restored.  *)
(* (After a recovery it may exceed them, where a new reservation took the  *)
(* id of a restored one.)                                                  *)
AccelInv ==
  /\ CapacityHonoured
  /\ HasEntries(accel_mem, Accelerator)
  /\ \A a \in Accelerator : Claimed(reservations, a) <= accel_mem.val[a]
  /\ disk # NoSave => WithinCeiling(disk.reservations)
  /\ phase \in {"copied", "written"} => WithinCeiling(image.reservations)
  /\ phase = "restoring" =>
       \A a \in Accelerator : Claimed(reservations, a) = accel_mem.val[a]

LEMMA TableNow ==
  ASSUME StoreTypeOK
  PROVE  reservations \in Table
BY ZenonT(60) DEF StoreTypeOK, Table

LEMMA TableNext ==
  ASSUME StoreTypeOK'
  PROVE  reservations' \in Table
BY ZenonT(60) DEF StoreTypeOK, Table

LEMMA NothingClaimed ==
  ASSUME NEW res \in Table, \A id \in ReservationId : res[id] = NoReservation, NEW a
  PROVE  Claimed(res, a) = 0
<1>1. Claimants(res, a) = {}
  BY DEF Claimants, NoReservation
<1>2. QED
  BY <1>1, ClaimantFacts, SumEmpty, ZenonT(60)

LEMMA AccelInitial ==
  ASSUME RecInit, RecInv
  PROVE  AccelInv
<1>1. \A a \in Accelerator : Claimed(reservations, a) = 0 /\ accel_mem.val[a] = 0
  BY NothingClaimed, TableNow, ZenonT(60) DEF RecInit, StoreInit, EmptyMap, RecInv
<1>2. CapacityHonoured /\ HasEntries(accel_mem, Accelerator)
  BY ReservationConstants DEF RecInit, StoreInit, EmptyMap, CapacityHonoured, HasEntries
<1>3. disk # NoSave => WithinCeiling(disk.reservations)
  BY RecoveryConstants, ZenonT(60) DEF RecInit, Container, WithinCeiling
<1>4. phase = "down"
  BY Zenon DEF RecInit
<1>5. QED
  BY <1>1, <1>2, <1>3, <1>4, SMTT(30) DEF AccelInv

(* Steps that leave the store alone. *)
LEMMA AccelQuiet ==
  ASSUME AccelInv, UNCHANGED storeVars,
         disk' = disk \/ WithinCeiling(disk'.reservations),
         phase' \in {"copied", "written"} => WithinCeiling(image'.reservations),
         phase' = "restoring" =>
           \A a \in Accelerator : Claimed(reservations, a) = accel_mem.val[a]
  PROVE  AccelInv'
<1>1. reservations' = reservations /\ node_mem' = node_mem /\ accel_mem' = accel_mem
  BY Zenon DEF storeVars
<1>2. CapacityHonoured' /\ HasEntries(accel_mem', Accelerator)
  BY <1>1, ZenonT(60) DEF AccelInv, CapacityHonoured, HasEntries
<1>3. disk' # NoSave => WithinCeiling(disk'.reservations)
  BY Zenon DEF AccelInv
<1>4. /\ \A a \in Accelerator : Claimed(reservations', a) <= accel_mem'.val[a]
      /\ phase' = "restoring" =>
           \A a \in Accelerator : Claimed(reservations', a) = accel_mem'.val[a]
  BY <1>1, ZenonT(60) DEF AccelInv
<1>5. QED
  BY <1>2, <1>3, <1>4, ZenonT(60) DEF AccelInv, HasEntries, WithinCeiling, Claimed, Claimants, ClaimsAccel

LEMMA AccelReserve ==
  ASSUME \A s \in Sizes : AccelCeiling + s < Word,
         RecInv, RecInv', AccelInv, UseStore, NEW req \in Request, Reserve(req)
  PROVE  AccelInv'
<1> USE ReservationConstants
<1>1. /\ StoreTypeOK /\ CapacityHonoured /\ reservations \in Table /\ reservations' \in Table
      /\ accel_mem \in Map(Accelerator, Word)
  BY TableNow, TableNext, ZenonT(60) DEF RecInv, AccelInv, StoreTypeOK
<1>2. CapacityHonoured'
  BY <1>1, ReserveCapacity, ZenonT(60)
<1>3. /\ HasEntries(accel_mem', Accelerator)
      /\ \A a \in Accelerator : Claimed(reservations', a) <= accel_mem'.val[a]
  <2>1. CASE ReserveRefusedByNode(req) \/ ReserveRefusedByAccelerator(req)
    <3>1. /\ reservations' = reservations /\ accel_mem'.val = accel_mem.val
          /\ accel_mem.keys \subseteq accel_mem'.keys
      BY <2>1 DEF ReserveRefusedByNode, ReserveRefusedByAccelerator, Touch
    <3>2. QED
      BY <3>1, ZenonT(60) DEF AccelInv, HasEntries
  <2>2. CASE ReserveAdmitted(req)
    <3> DEFINE r == [status |-> "active", generation |-> watermark + 1, node |-> req.node,
                     bytes |-> req.bytes, slots |-> req.slots, accel |-> req.accel,
                     accel_capacity |-> req.accel_capacity]
    <3>1. r \in Reservation /\ next_id \in ReservationId /\ req.bytes \in Nat /\ req.bytes \in Sizes
      BY <1>1, <2>2, RequestFields, SMTT(30)
      DEF Reservation, StoreTypeOK, ReserveAdmitted, TakeIdentity, ReservationId, Request
    <3>2. /\ r.status = "active" /\ r.bytes = req.bytes /\ r.accel = req.accel
          /\ ClaimsAccel(r) = ClaimsAccel(req)
    BY Zenon DEF ClaimsAccel
    <3>3. Written(reservations', reservations, next_id, r)
      BY <1>1, <2>2, <3>1, <3>2, ZenonT(60) DEF ReserveAdmitted, Written
    <3> HIDE DEF r
    <3>4. ASSUME NEW a \in Accelerator
          PROVE  /\ ClaimsAccel(req) /\ req.accel = a =>
                      Claimed(reservations', a) <= Claimed(reservations, a) + req.bytes
                 /\ ~(ClaimsAccel(req) /\ req.accel = a) =>
                      Claimed(reservations', a) <= Claimed(reservations, a)
      <4>1. Accounted(reservations', reservations, next_id, r)
        BY <3>3, ClaimedWritten, ZenonT(60)
      <4>2. QED
        BY <3>2, <4>1, ZenonT(60) DEF Accounted
    <3>5. CASE ~ClaimsAccel(req)
      <4>1. accel_mem' = accel_mem
        BY <2>2, <3>5, ZenonT(60) DEF ReserveAdmitted, Claim
      <4>2. ASSUME NEW a \in Accelerator
            PROVE  Claimed(reservations', a) <= accel_mem'.val[a]
        <5>1. Claimed(reservations', a) <= Claimed(reservations, a)
              /\ Claimed(reservations, a) <= accel_mem.val[a]
          BY <3>4, <3>5, ZenonT(60) DEF AccelInv
        <5>2. Claimed(reservations', a) \in Nat /\ Claimed(reservations, a) \in Nat
              /\ accel_mem.val[a] \in Nat
          BY <1>1, ClaimantFacts, SMTT(30) DEF Map
        <5>3. QED
          BY <4>1, <5>1, <5>2, SMTT(30)
      <4>3. QED
        BY <4>1, <4>2, ZenonT(60) DEF AccelInv
    <3>6. CASE ClaimsAccel(req)
      <4>1. req.accel \in Accelerator
        BY <3>6, RequestFields, ZenonT(60) DEF ClaimsAccel
      <4>2. accel_mem' = Plus(accel_mem, req.accel, req.bytes, Word)
        BY <2>2, <3>6, ZenonT(60) DEF ReserveAdmitted, Claim
      <4>3. accel_mem.val[req.accel] + req.bytes \in 0 .. Word - 1
        BY <1>1, <3>1, <4>1, SMTT(30) DEF CapacityHonoured, Map
      <4>4. ASSUME NEW a \in Accelerator
            PROVE  Claimed(reservations', a) <= accel_mem'.val[a]
        <5>1. accel_mem'.val[a] = IF a = req.accel THEN accel_mem.val[a] + req.bytes
                                  ELSE accel_mem.val[a]
          BY <1>1, <3>1, <4>1, <4>2, <4>3, PlusExact, SMTT(30)
        <5>2. Claimed(reservations, a) <= accel_mem.val[a]
          BY ZenonT(60) DEF AccelInv
        <5>3. Claimed(reservations', a) \in Nat /\ Claimed(reservations, a) \in Nat
              /\ accel_mem.val[a] \in Nat
          BY <1>1, ClaimantFacts DEF Map
        <5>4. QED
          BY <3>1, <3>4, <3>6, <5>1, <5>2, <5>3, SMTT(30)
      <4>5. HasEntries(accel_mem', Accelerator)
        BY <1>1, <3>1, <4>1, <4>2, PlusEntries, ZenonT(60) DEF AccelInv
      <4>6. QED
        BY <4>4, <4>5, ZenonT(60)
    <3>7. QED
      BY <3>5, <3>6, ZenonT(60)
  <2>3. QED
    BY <2>1, <2>2, ZenonT(60) DEF Reserve
<1>4. phase' = phase /\ phase # "restoring" /\ disk' = disk /\ image' = image
  BY DEF UseStore, recoveryVars, Running
<1>5. QED
  BY <1>2, <1>3, <1>4, ZenonT(60)
  DEF AccelInv, HasEntries, WithinCeiling, Claimed, Claimants, ClaimsAccel

LEMMA AccelRelease ==
  ASSUME RecInv, RecInv', AccelInv, UseStore, NEW id \in ReservationId, Release(id, {})
  PROVE  AccelInv'
<1> USE ReservationConstants
<1> DEFINE r == reservations[id]
<1>1. /\ StoreTypeOK /\ StoreTypeOK' /\ CapacityHonoured
      /\ reservations \in Table /\ reservations' \in Table
      /\ accel_mem \in Map(Accelerator, Word) /\ HasEntries(accel_mem, Accelerator)
  BY TableNow, TableNext, ZenonT(60) DEF RecInv, AccelInv, StoreTypeOK
<1>2. CapacityHonoured'
  BY <1>1, ReleaseCapacity, ZenonT(60)
<1>3. \A a \in Accelerator :
        /\ Claimed(reservations, a) <= accel_mem.val[a]
        /\ Claimed(reservations, a) \in Nat /\ Claimed(reservations', a) \in Nat
        /\ accel_mem.val[a] \in Nat
  <2>1. \A a \in Accelerator :
          Claimed(reservations, a) \in Nat /\ Claimed(reservations', a) \in Nat
    BY <1>1, ClaimantFacts, ZenonT(60)
  <2>2. \A a \in Accelerator : accel_mem.val[a] \in Nat
    BY <1>1 DEF Map
  <2>3. QED
    BY <2>1, <2>2, ZenonT(60) DEF AccelInv
<1>4. /\ HasEntries(accel_mem', Accelerator)
      /\ \A a \in Accelerator : Claimed(reservations', a) <= accel_mem'.val[a]
  <2>1. CASE ~Releasable(r)
    <3>1. reservations' = reservations /\ accel_mem' = accel_mem
      BY <2>1, ZenonT(60) DEF Release
    <3>2. QED
      BY <1>1, <1>3, <3>1, ZenonT(60)
  <2>2. CASE Releasable(r)
    <3>1. /\ r.status = "active"
          /\ reservations' = [reservations EXCEPT ![id].status = "released"]
      BY <2>2, ZenonT(60) DEF Release, Active
    <3>2. \A a \in Accelerator :
            /\ ClaimsAccel(r) /\ r.accel = a =>
                 /\ Claimed(reservations', a) = Claimed(reservations, a) - r.bytes
                 /\ r.bytes <= Claimed(reservations, a)
            /\ ~(ClaimsAccel(r) /\ r.accel = a) =>
                 Claimed(reservations', a) <= Claimed(reservations, a)
      BY <1>1, <3>1, ClaimedReleased, ZenonT(60)
    <3>3. r \in Reservation
      BY <1>1, <3>1, SMTT(30) DEF Table, NoReservation
    <3>4. r.bytes \in Nat /\ (ClaimsAccel(r) => r.accel \in Accelerator)
      BY <3>3 DEF Reservation, ClaimsAccel
    <3>5. CASE ~ClaimsAccel(r)
      <4>1. accel_mem' = accel_mem
        BY <3>5, ZenonT(60) DEF Release
      <4>2. ASSUME NEW a \in Accelerator
            PROVE  Claimed(reservations', a) <= accel_mem'.val[a]
        <5>1. Claimed(reservations', a) <= Claimed(reservations, a)
          BY <3>2, <3>5, ZenonT(60)
        <5>2. QED
          BY <1>3, <4>1, <5>1, SMTT(30)
      <4>3. QED
        BY <1>1, <4>1, <4>2, ZenonT(60)
    <3>6. CASE ClaimsAccel(r)
      <4>1. accel_mem' = Minus(accel_mem, r.accel, r.bytes)
        BY <2>2, <3>6, ZenonT(60) DEF Release
      <4>2. r.bytes <= accel_mem.val[r.accel]
        <5>1. r.bytes <= Claimed(reservations, r.accel)
          BY <3>2, <3>4, <3>6, ZenonT(60)
        <5>2. QED
          BY <1>3, <3>4, <3>6, <5>1, SMTT(30)
      <4>3. ASSUME NEW a \in Accelerator
            PROVE  Claimed(reservations', a) <= accel_mem'.val[a]
        <5>1. accel_mem'.val[a] = IF a = r.accel THEN accel_mem.val[a] - r.bytes
                                  ELSE accel_mem.val[a]
          BY <1>1, <3>4, <3>6, <4>1, <4>2, MinusExact, SMTT(30)
        <5>2. CASE a = r.accel
          <6>1. Claimed(reservations', a) = Claimed(reservations, a) - r.bytes
            BY <3>2, <3>6, <5>2, ZenonT(60)
          <6>2. accel_mem'.val[a] = accel_mem.val[a] - r.bytes
            BY <5>1, <5>2, ZenonT(60)
          <6>3. QED
            BY <1>3, <3>4, <6>1, <6>2, SMTT(30)
        <5>3. CASE a # r.accel
          <6>1. Claimed(reservations', a) <= Claimed(reservations, a)
            BY <3>2, <5>3, ZenonT(60)
          <6>2. accel_mem'.val[a] = accel_mem.val[a]
            BY <5>1, <5>3, ZenonT(60)
          <6>3. QED
            BY <1>3, <6>1, <6>2, SMTT(30)
        <5>4. QED
          BY <5>2, <5>3, ZenonT(60)
      <4>4. HasEntries(accel_mem', Accelerator)
        BY <1>1, <3>4, <3>6, <4>1, <4>2, MinusEntries, ZenonT(60)
      <4>5. QED
        BY <4>3, <4>4, ZenonT(60)
    <3>7. QED
      BY <3>5, <3>6, ZenonT(60)
  <2>3. QED
    BY <2>1, <2>2, ZenonT(60)
<1>5. phase' = phase /\ phase # "restoring" /\ disk' = disk /\ image' = image
  BY DEF UseStore, recoveryVars, Running
<1>6. QED
  BY <1>2, <1>4, <1>5, ZenonT(60)
  DEF AccelInv, HasEntries, WithinCeiling, Claimed, Claimants, ClaimsAccel

(* While reservations are restored: what is there is part of what the      *)
(* container holds.                                                        *)
LEMMA RestoredPart ==
  ASSUME RecInv', phase' = "restoring", NEW a
  PROVE  Claimed(reservations', a) <= Claimed(disk'.reservations, a)
<1>1. PartlyRestored' /\ reservations' \in Table
  BY TableNext, ZenonT(60) DEF RecInv
<1>2. disk'.reservations \in Table
  BY <1>1, ZenonT(60) DEF PartlyRestored, Whole, SavedReservations, Table
<1>3. \A id \in Claimants(reservations', a) :
        id \in ReservationId /\ reservations'[id] # NoReservation
  BY DEF Claimants, NoReservation
<1>4. \A id \in Claimants(reservations', a) : reservations'[id] = disk'.reservations[id]
  BY <1>1, <1>3, ZenonT(60) DEF PartlyRestored
<1>5. \A id \in Claimants(reservations', a) :
        id \in Claimants(disk'.reservations, a) /\ reservations'[id] = disk'.reservations[id]
  BY <1>4, ZenonT(60) DEF Claimants
<1>6. QED
  BY <1>1, <1>2, <1>5, ClaimedWithin, ZenonT(60)

LEMMA AccelRestore ==
  ASSUME RecInv, RecInv', AccelInv, NEW id \in ReservationId, RestoreOneReservation(id)
  PROVE  AccelInv'
<1> USE ReservationConstants
<1> DEFINE r == disk.reservations[id]
<1>1. /\ phase = "restoring" /\ phase' = "restoring" /\ disk' = disk
      /\ r \in Reservation /\ r.status = "active" /\ reservations[id] = NoReservation
      /\ Whole(disk)
  BY RestoredFacts, ZenonT(60)
<1>2. disk # NoSave
  BY DEF RecInv, Whole, NoSave, RestoreOneReservation, PartlyRestored
<1>3. WithinCeiling(disk.reservations)
  BY <1>2, ZenonT(60) DEF AccelInv
<1>4. /\ reservations \in Table /\ reservations' \in Table /\ disk.reservations \in Table
      /\ node_mem \in Map(Node, Word) /\ accel_mem \in Map(Accelerator, Word)
  BY <1>1, TableNow, TableNext, ZenonT(60)
  DEF RecInv, StoreTypeOK, Whole, SavedReservations, Table
<1>5. r.node \in Node /\ r.bytes \in Nat /\ (ClaimsAccel(r) => r.accel \in Accelerator)
  BY <1>1, SMTT(30) DEF Reservation, ClaimsAccel
<1>6. \A a \in Accelerator :
        /\ accel_mem.val[a] = Claimed(reservations, a)
        /\ Claimed(reservations', a) <= AccelCeiling
        /\ Claimed(reservations, a) \in Nat /\ Claimed(reservations', a) \in Nat
  <2> TAKE a \in Accelerator
  <2>1. Claimed(reservations', a) <= Claimed(disk.reservations, a)
    BY <1>1, RestoredPart, ZenonT(60)
  <2>2. Claimed(disk.reservations, a) <= AccelCeiling
    BY <1>3, ZenonT(60) DEF WithinCeiling
  <2>3. Claimed(disk.reservations, a) \in Nat
        /\ Claimed(reservations, a) \in Nat /\ Claimed(reservations', a) \in Nat
    BY <1>4, ClaimantFacts, ZenonT(60)
  <2>4. accel_mem.val[a] = Claimed(reservations, a)
    BY <1>1, ZenonT(60) DEF AccelInv
  <2>5. QED
    BY <2>1, <2>2, <2>3, <2>4, SMTT(30)
<1> HIDE DEF r
<1>7. /\ \A n \in Node : Capacity[n] # 0 => node_mem'.val[n] <= Capacity[n]
      /\ HasEntries(accel_mem', Accelerator)
      /\ \A a \in Accelerator : Claimed(reservations', a) = accel_mem'.val[a]
  <2>1. CASE RestoreRefused(id, r)
    <3>1. reservations' = reservations /\ accel_mem' = accel_mem /\ node_mem'.val = node_mem.val
      BY <2>1, ZenonT(60) DEF RestoreRefused, Touch
    <3>2. QED
      BY <1>6, <3>1, ZenonT(60) DEF AccelInv, CapacityHonoured
  <2>2. CASE RestoreAdmitted(id, r)
    <3>1. ASSUME NEW n \in Node, Capacity[n] # 0
          PROVE  node_mem'.val[n] <= Capacity[n]
      <4>1. node_mem.val[n] <= Capacity[n]
        BY <3>1, ZenonT(60) DEF AccelInv, CapacityHonoured
      <4>2. CASE r.bytes = 0
        BY <2>2, <4>1, <4>2, ZenonT(60) DEF RestoreAdmitted, Claim
      <4>3. CASE r.bytes # 0
        <5>1. node_mem' = Plus(node_mem, r.node, r.bytes, Word)
          BY <2>2, <4>3, ZenonT(60) DEF RestoreAdmitted, Claim
        <5>2. node_mem'.val[n] = IF n = r.node THEN (node_mem.val[r.node] + r.bytes) % Word
                                 ELSE node_mem.val[n]
          BY <1>4, <1>5, <5>1, PlusValue, SMTT(30)
        <5>3. n = r.node => (node_mem.val[r.node] + r.bytes) % Word <= Capacity[n]
          BY <2>2, <3>1, <4>3, ZenonT(60) DEF RestoreAdmitted
        <5>4. QED
          BY <4>1, <5>2, <5>3, ZenonT(60)
      <4>4. QED
        BY <4>2, <4>3, ZenonT(60)
    <3>2. \A a \in Accelerator :
            /\ ClaimsAccel(r) /\ r.accel = a =>
                 Claimed(reservations', a) = Claimed(reservations, a) + r.bytes
            /\ ~(ClaimsAccel(r) /\ r.accel = a) =>
                 Claimed(reservations', a) = Claimed(reservations, a)
      <4>1. Written(reservations', reservations, id, r) /\ reservations[id] = NoReservation
        BY <1>1, <1>4, <2>2, ZenonT(60) DEF RestoreAdmitted, Written, r
      <4>2. Accounted(reservations', reservations, id, r)
        BY <4>1, ClaimedWritten, ZenonT(60)
      <4>3. QED
        BY <4>1, <4>2, ZenonT(60) DEF Accounted
    <3>3. CASE ~ClaimsAccel(r)
      <4>1. accel_mem' = accel_mem
        BY <2>2, <3>3, ZenonT(60) DEF RestoreAdmitted, Claim
      <4>2. \A a \in Accelerator : Claimed(reservations', a) = accel_mem'.val[a]
        BY <1>6, <3>2, <3>3, <4>1, ZenonT(60)
      <4>3. QED
        BY <3>1, <4>1, <4>2, ZenonT(60) DEF AccelInv
    <3>4. CASE ClaimsAccel(r)
      <4>1. accel_mem' = Plus(accel_mem, r.accel, r.bytes, Word) /\ r.accel \in Accelerator
        BY <1>5, <2>2, <3>4, ZenonT(60) DEF RestoreAdmitted, Claim
      <4>2. accel_mem.val[r.accel] + r.bytes \in 0 .. Word - 1
        <5>1. Claimed(reservations', r.accel) = Claimed(reservations, r.accel) + r.bytes
          BY <3>2, <3>4, <4>1, ZenonT(60)
        <5>2. QED
          BY <1>5, <1>6, <4>1, <5>1, SMTT(30)
      <4>3. ASSUME NEW a \in Accelerator
            PROVE  Claimed(reservations', a) = accel_mem'.val[a]
        <5>1. accel_mem'.val[a] = IF a = r.accel THEN accel_mem.val[a] + r.bytes
                                  ELSE accel_mem.val[a]
          BY <1>4, <1>5, <4>1, <4>2, PlusExact, SMTT(30)
        <5>2. CASE a = r.accel
          <6>1. Claimed(reservations', a) = Claimed(reservations, a) + r.bytes
            BY <3>2, <3>4, <5>2, ZenonT(60)
          <6>2. QED
            BY <1>6, <5>1, <5>2, <6>1, ZenonT(60)
        <5>3. CASE a # r.accel
          <6>1. Claimed(reservations', a) = Claimed(reservations, a)
            BY <3>2, <5>3, ZenonT(60)
          <6>2. QED
            BY <1>6, <5>1, <5>3, <6>1, ZenonT(60)
        <5>4. QED
          BY <5>2, <5>3, ZenonT(60)
      <4>4. HasEntries(accel_mem', Accelerator)
        BY <1>4, <1>5, <4>1, PlusEntries, ZenonT(60) DEF AccelInv
      <4>5. QED
        BY <3>1, <4>3, <4>4, ZenonT(60)
    <3>5. QED
      BY <3>3, <3>4, ZenonT(60)
  <2>3. QED
    BY <2>1, <2>2, ZenonT(60) DEF RestoreOneReservation, r
<1>8. CapacityHonoured'
  BY <1>6, <1>7, ZenonT(60) DEF CapacityHonoured
<1>9. \A a \in Accelerator : Claimed(reservations', a) <= accel_mem'.val[a]
  BY <1>6, <1>7, SMTT(30)
<1>10. WithinCeiling(disk'.reservations)
  BY <1>1, <1>3, ZenonT(60)
<1>11. phase' \notin {"copied", "written"}
  BY <1>1
<1>12. QED
  BY <1>7, <1>8, <1>9, <1>10, <1>11, ZenonT(60)
  DEF AccelInv, HasEntries, WithinCeiling, Claimed, Claimants, ClaimsAccel

LEMMA AccelInductive ==
  ASSUME \A s \in Sizes : AccelCeiling + s < Word,
         RecInv, RecInv', AccelInv, [RecNext]_allVars
  PROVE  AccelInv'
<1>1. ASSUME UNCHANGED storeVars, disk' = disk, image' = image, phase' = phase
      PROVE  AccelInv'
    BY <1>1, AccelQuiet, ZenonT(60) DEF AccelInv
<1>2. ASSUME UNCHANGED storeVars, disk' = disk,
             phase' \in {"serving", "workers", "down"}
      PROVE  AccelInv'
  <2>1. phase' \notin {"copied", "written"} /\ phase' # "restoring"
    BY <1>2
  <2>2. QED
    BY <1>2, <2>1, AccelQuiet, ZenonT(60)
<1>3. CASE UNCHANGED allVars
  BY <1>1, <1>3, ZenonT(60) DEF allVars, recoveryVars
<1>4. ASSUME NEW w \in WorkerId, Register(w) \/ Lose(w) \/ RestoreOneWorker(w)
      PROVE  AccelInv'
  BY <1>1, <1>4, ZenonT(60) DEF Register, Lose, RestoreOneWorker, recoveryVars
<1>5. CASE UseStore
  BY <1>5, AccelReserve, AccelRelease, ZenonT(60) DEF UseStore
<1>6. CASE AdvanceEpoch
  BY <1>1, <1>6, ZenonT(60) DEF AdvanceEpoch
<1>7. CASE CopyWorkers \/ SaveFails \/ StartFresh \/ Serve
  BY <1>2, <1>7, ZenonT(60) DEF CopyWorkers, SaveFails, StartFresh, Serve
<1>8. CASE CopyReservations
  <2>1. /\ UNCHANGED storeVars /\ disk' = disk /\ phase' = "copied"
        /\ image'.reservations = [id \in ReservationId |-> SavedReservation(id)]
    BY <1>8, ZenonT(60) DEF CopyReservations
  <2>2. image'.reservations \in Table /\ reservations \in Table
        /\ accel_mem \in Map(Accelerator, Word)
    BY <1>8, <2>1, CopyReservationsKeeps, TableNow, ZenonT(60)
    DEF SavedReservations, Table, RecInv, StoreTypeOK
  <2>3. ASSUME NEW a \in Accelerator
        PROVE  Claimed(image'.reservations, a) <= AccelCeiling
    <3>1. \A id \in Claimants(image'.reservations, a) :
            id \in Claimants(reservations, a) /\ image'.reservations[id] = reservations[id]
      BY <2>1 DEF Claimants, SavedReservation, NoReservation, Active
    <3>2. Claimed(image'.reservations, a) <= Claimed(reservations, a)
      BY <2>2, <3>1, ClaimedWithin, ZenonT(60)
    <3>3. Claimed(reservations, a) <= accel_mem.val[a] /\ accel_mem.val[a] <= AccelCeiling
      BY ZenonT(60) DEF AccelInv, CapacityHonoured
    <3>4. /\ Claimed(image'.reservations, a) \in Nat /\ Claimed(reservations, a) \in Nat
          /\ accel_mem.val[a] \in Nat /\ AccelCeiling \in Nat
      BY <2>2, ClaimantFacts, ReservationConstants, SMTT(30) DEF Map
    <3>5. QED
      BY <3>2, <3>3, <3>4, SMTT(30)
  <2>4. phase' # "restoring"
    BY <2>1
  <2>5. QED
    BY <2>1, <2>3, <2>4, AccelQuiet, ZenonT(60) DEF WithinCeiling
<1>9. CASE WriteTemp
  <2>1. /\ UNCHANGED storeVars /\ disk' = disk /\ image' = image
        /\ phase \in {"copied", "written"} /\ phase' # "restoring"
    BY <1>9, SMTT(30) DEF WriteTemp
  <2>2. QED
    BY <2>1, AccelQuiet, ZenonT(60) DEF AccelInv
<1>10. CASE Rename
  <2>1. /\ UNCHANGED storeVars /\ disk' = image
        /\ phase = "written" /\ phase' = "serving"
    BY <1>10, ZenonT(60) DEF Rename
  <2>2. phase \in {"copied", "written"} /\ phase' \notin {"copied", "written"}
        /\ phase' # "restoring"
    BY <2>1, ZenonT(60)
  <2>3. QED
    BY <2>1, <2>2, AccelQuiet, ZenonT(60) DEF AccelInv
<1>11. CASE Crash
  <2>1. /\ reservations' = [id \in ReservationId |-> NoReservation]
        /\ node_mem' = EmptyMap(Node) /\ accel_mem' = EmptyMap(Accelerator)
        /\ disk' = disk /\ phase' = "down"
    BY <1>11, ZenonT(60) DEF Crash
  <2>2. \A a \in Accelerator : Claimed(reservations', a) = 0 /\ accel_mem'.val[a] = 0
    BY <2>1, NothingClaimed, TableNext, ZenonT(60) DEF EmptyMap, RecInv
  <2>3. CapacityHonoured' /\ HasEntries(accel_mem', Accelerator)
    BY <2>1, ReservationConstants, SMTT(30) DEF EmptyMap, CapacityHonoured, HasEntries
  <2>4. \A a \in Accelerator : Claimed(reservations', a) <= accel_mem'.val[a]
    BY <2>2, SMTT(30)
  <2>5. phase' \notin {"copied", "written", "restoring"}
    BY <2>1
  <2>6. QED
    BY <2>1, <2>3, <2>4, <2>5, ZenonT(60)
    DEF AccelInv, HasEntries, WithinCeiling, Claimed, Claimants, ClaimsAccel
<1>12. CASE Load
  <2>1. /\ UNCHANGED storeVars /\ disk' = disk /\ phase' \notin {"copied", "written"}
        /\ StoreInit
    BY <1>12 DEF Load, RecInv
  <2>2. \A a \in Accelerator : Claimed(reservations, a) = 0 /\ accel_mem.val[a] = 0
    BY <2>1, NothingClaimed, TableNow, ZenonT(60) DEF StoreInit, EmptyMap, RecInv
  <2>3. QED
    BY <2>1, <2>2, AccelQuiet, ZenonT(60)
<1>13. ASSUME NEW id \in ReservationId, RestoreOneReservation(id)
       PROVE  AccelInv'
  BY <1>13, AccelRestore, ZenonT(60)
<1>14. QED
  BY <1>3, <1>4, <1>5, <1>6, <1>7, <1>8, <1>9, <1>10, <1>11, <1>12, <1>13, ZenonT(60) DEF RecNext

(* If no request on top of a full accelerator wraps around, no recovery    *)
(* brings back more than a node or an accelerator holds, although recover  *)
(* checks the capacity of nodes only.                                      *)
THEOREM RecCapacity ==
  ASSUME \A s \in Sizes : AccelCeiling + s < Word
  PROVE  RecSpec => []CapacityHonoured
<1>1. RecInit /\ RecInv => AccelInv
  BY AccelInitial, ZenonT(60)
<1>2. RecInv /\ RecInv' /\ AccelInv /\ [RecNext]_allVars => AccelInv'
  BY AccelInductive, ZenonT(60)
<1>3. AccelInv => CapacityHonoured
  BY Zenon DEF AccelInv
<1>4. QED
  BY <1>1, <1>2, <1>3, RecAlways, PTL DEF RecSpec

-----------------------------------------------------------------------------
(* The nodes' counters while reservations are restored. *)
NodesExact ==
  \A n \in Node : node_mem.val[n] = NodeBytes(n) /\ node_slots.val[n] = NodeSlots(n)

(* Nothing asks for more than b bytes and c slots, nor did the containers  *)
(* of the past, and so no sum over the ids wraps around.                   *)
Bounds(b, c) ==
  /\ b \in Nat /\ c \in Nat
  /\ Sizes \subseteq 0 .. b /\ MaxId * b < Word
  /\ SlotCounts \subseteq 0 .. c /\ MaxId * c < SlotWord
  /\ \A save \in EarlierSaves \ {NoSave} : Small(save.reservations, b, c)

(* What recover has been through, it has restored wherever the node still  *)
(* holds all that was saved on it; the counters are exact all the while.   *)
ExactInv(b, c) ==
  /\ Small(reservations, b, c)
  /\ disk # NoSave => Small(disk.reservations, b, c)
  /\ phase \in {"copied", "written"} => Small(image.reservations, b, c)
  /\ phase = "restoring" =>
       /\ NodesExact
       /\ \A n \in Node : Fits(n) =>
            \A id \in SavedOn(n) \ todo.reservations :
              reservations[id] = disk.reservations[id]

LEMMA OnNodeFinite ==
  ASSUME StoreTypeOK, NEW n
  PROVE  /\ OnNode(n) \subseteq ActiveIds /\ OnNode(n) \subseteq ReservationId
         /\ IsFiniteSet(OnNode(n)) /\ IsFiniteSet(ReservationId)
         /\ Cardinality(ReservationId) = MaxId
<1>1. IsFiniteSet(ReservationId) /\ Cardinality(ReservationId) = MaxId
  BY ReservationConstants, FS_Interval, SMTT(30) DEF ReservationId
<1>2. OnNode(n) \subseteq ActiveIds /\ OnNode(n) \subseteq ReservationId
  BY ZenonT(60) DEF OnNode, ActiveIds
<1>3. QED
  BY <1>1, <1>2, FS_Subset, ZenonT(60)

(* A reservation r recorded under an id that had none. *)
Recorded(id, r) ==
  /\ StoreTypeOK
  /\ id \in ReservationId /\ ~Present(id)
  /\ r \in Reservation /\ r.status = "active"
  /\ reservations' = [reservations EXCEPT ![id] = r]

LEMMA RecordedIds ==
  ASSUME NEW id, NEW r, Recorded(id, r)
  PROVE  /\ id \notin ActiveIds
         /\ \A i \in ActiveIds : Bytes'[i] = Bytes[i] /\ Slots'[i] = Slots[i]
         /\ Bytes'[id] = r.bytes /\ Slots'[id] = r.slots
         /\ r.bytes \in Nat /\ r.slots \in Nat
         /\ \A n : OnNode(n)' = IF n = r.node THEN OnNode(n) \cup {id} ELSE OnNode(n)
<1>1. id \in ReservationId /\ id \notin ActiveIds
  BY DEF Recorded, ActiveIds, Active, Present
<1>2. /\ reservations'[id] = r
      /\ \A i \in ReservationId \ {id} : reservations'[i] = reservations[i]
  BY <1>1, ZenonT(60) DEF Recorded, StoreTypeOK
<1>3. ActiveIds' = ActiveIds \cup {id}
  BY <1>1, <1>2, ZenonT(60) DEF ActiveIds, Active, Recorded
<1>4. \A i \in ActiveIds : i \in ReservationId \ {id}
  BY <1>1, ZenonT(60) DEF ActiveIds
<1>5. /\ \A i \in ActiveIds : Bytes'[i] = Bytes[i] /\ Slots'[i] = Slots[i]
      /\ Bytes'[id] = r.bytes /\ Slots'[id] = r.slots
  BY <1>2, <1>3, <1>4, ZenonT(60) DEF Bytes, Slots
<1>6. \A n : OnNode(n)' = IF n = r.node THEN OnNode(n) \cup {id} ELSE OnNode(n)
  BY <1>2, <1>3, <1>4, ZenonT(60) DEF OnNode
<1>7. r.bytes \in Nat /\ r.slots \in Nat
  BY ReservationConstants DEF Recorded, Reservation
<1>8. QED
  BY <1>1, <1>5, <1>6, <1>7, ZenonT(60)

LEMMA RecordedSums ==
  ASSUME NEW id, NEW r, Recorded(id, r), NEW n
  PROVE  /\ n = r.node => NodeBytes(n)' = NodeBytes(n) + r.bytes
         /\ n = r.node => NodeSlots(n)' = NodeSlots(n) + r.slots
         /\ n # r.node => NodeBytes(n)' = NodeBytes(n) /\ NodeSlots(n)' = NodeSlots(n)
<1>1. StoreTypeOK
  BY Zenon DEF Recorded
<1>2. OnNode(n) \subseteq ActiveIds /\ IsFiniteSet(OnNode(n))
  BY <1>1, OnNodeFinite, ZenonT(60)
<1>3. \A i \in OnNode(n) : /\ Bytes[i] \in Nat /\ Slots[i] \in Nat
                           /\ Bytes'[i] = Bytes[i] /\ Slots'[i] = Slots[i]
  BY <1>1, <1>2, ActiveFacts, RecordedIds, ZenonT(60)
<1>4. /\ id \notin OnNode(n) /\ Bytes'[id] = r.bytes /\ Slots'[id] = r.slots
      /\ r.bytes \in Nat /\ r.slots \in Nat
      /\ OnNode(n)' = IF n = r.node THEN OnNode(n) \cup {id} ELSE OnNode(n)
  BY <1>2, RecordedIds, ZenonT(60)
<1>5. ASSUME n = r.node
      PROVE  NodeBytes(n)' = NodeBytes(n) + r.bytes /\ NodeSlots(n)' = NodeSlots(n) + r.slots
  <2>1. OnNode(n)' = OnNode(n) \cup {id}
    BY <1>4, <1>5, ZenonT(60)
  <2>2. SumFunctionOnSet(Bytes', OnNode(n)') = SumFunctionOnSet(Bytes, OnNode(n)) + Bytes'[id]
    BY <1>2, <1>3, <1>4, <2>1, SumJoin, SMTT(30)
  <2>3. SumFunctionOnSet(Slots', OnNode(n)') = SumFunctionOnSet(Slots, OnNode(n)) + Slots'[id]
    BY <1>2, <1>3, <1>4, <2>1, SumJoin, SMTT(30)
  <2>4. QED
    BY <1>4, <2>2, <2>3, SumsNow, Zenon
<1>6. ASSUME n # r.node
      PROVE  NodeBytes(n)' = NodeBytes(n) /\ NodeSlots(n)' = NodeSlots(n)
  <2>1. OnNode(n)' = OnNode(n)
    BY <1>4, <1>6, ZenonT(60)
  <2>2. SumFunctionOnSet(Bytes', OnNode(n)) = SumFunctionOnSet(Bytes, OnNode(n))
    BY <1>2, <1>3, SumAgree, ZenonT(60)
  <2>3. SumFunctionOnSet(Slots', OnNode(n)) = SumFunctionOnSet(Slots, OnNode(n))
    BY <1>2, <1>3, SumAgree, ZenonT(60)
  <2>4. QED
    BY <2>1, <2>2, <2>3, SumsNow, ZenonT(60)
<1>7. QED
  BY <1>5, <1>6, ZenonT(60)

(* One more term of up to b on top of a sum over the other ids. *)
LEMMA RoomForOne ==
  ASSUME NEW k \in Nat, NEW m \in Nat, k + 1 <= m, NEW b \in Nat, NEW x \in 0 .. b,
         NEW w \in Nat, m * b < w, NEW v \in Nat, v <= k * b
  PROVE  v + x < w
<1>1. (k + 1) * b = k * b + b /\ k * b \in Nat
  OBVIOUS
<1>2. (k + 1) * b <= m * b
  OBVIOUS
<1>3. QED
  BY <1>1, <1>2, SMTT(30)

LEMMA RecordedFits ==
  ASSUME NEW b, NEW c, Bounds(b, c), Small(reservations, b, c),
         NEW id, NEW r, Recorded(id, r), r.bytes <= b, r.slots <= c, NEW n
  PROVE  /\ NodeBytes(n) \in Nat /\ NodeBytes(n) + r.bytes < Word
         /\ NodeSlots(n) \in Nat /\ NodeSlots(n) + r.slots < SlotWord
<1> DEFINE S == OnNode(n)
           k == Cardinality(S)
<1>1. StoreTypeOK /\ id \in ReservationId
  BY ZenonT(60) DEF Recorded
<1>2. /\ S \subseteq ActiveIds /\ S \subseteq ReservationId /\ IsFiniteSet(S)
      /\ IsFiniteSet(ReservationId) /\ Cardinality(ReservationId) = MaxId
  BY <1>1, OnNodeFinite, ZenonT(60)
<1>3. id \notin S
  BY <1>2, RecordedIds, ZenonT(60)
<1>4. /\ \A i \in S : Bytes[i] \in Nat /\ Bytes[i] = reservations[i].bytes
      /\ \A i \in S : Slots[i] \in Nat /\ Slots[i] = reservations[i].slots
      /\ \A i \in S : reservations[i].bytes <= b /\ reservations[i].slots <= c
  BY <1>1, <1>2, ActiveFacts, ZenonT(60) DEF Small, ActiveIds, Active
<1>5. b \in Nat /\ c \in Nat /\ MaxId * b < Word /\ MaxId * c < SlotWord
      /\ r.bytes \in 0 .. b /\ r.slots \in 0 .. c
      /\ Word \in Nat /\ SlotWord \in Nat /\ MaxId \in Nat
  BY RecordedIds, ReservationConstants, SMTT(30) DEF Bounds
<1>6. \A i \in S : Bytes[i] \in 0 .. b /\ Slots[i] \in 0 .. c
  BY <1>4, <1>5, SMTT(30)
<1> HIDE DEF S
<1>7. k \in Nat /\ k + 1 <= MaxId
  <2>1. S \cup {id} \subseteq ReservationId
    BY <1>1, <1>2, ZenonT(60)
  <2>2. IsFiniteSet(S \cup {id}) /\ Cardinality(S \cup {id}) = k + 1 /\ k \in Nat
    BY <1>2, <1>3, FS_AddElement, FS_CardinalityType, ZenonT(60)
  <2>3. Cardinality(S \cup {id}) <= Cardinality(ReservationId)
    BY <1>2, <2>1, FS_Subset, ZenonT(60)
  <2>4. QED
    BY <1>2, <2>2, <2>3, ZenonT(60)
<1>8. /\ SumFunctionOnSet(Bytes, S) \in Nat /\ SumFunctionOnSet(Bytes, S) <= k * b
      /\ SumFunctionOnSet(Slots, S) \in Nat /\ SumFunctionOnSet(Slots, S) <= k * c
  BY <1>2, <1>4, <1>5, <1>6, SumNat, SumBound, ZenonT(60)
<1>9. NodeBytes(n) = SumFunctionOnSet(Bytes, S) /\ NodeSlots(n) = SumFunctionOnSet(Slots, S)
  BY SumsNow, ZenonT(60) DEF S
<1> HIDE DEF k
<1>10. SumFunctionOnSet(Bytes, S) + r.bytes < Word
  BY <1>5, <1>7, <1>8, RoomForOne, ZenonT(60)
<1>11. SumFunctionOnSet(Slots, S) + r.slots < SlotWord
  BY <1>5, <1>7, <1>8, RoomForOne, ZenonT(60)
<1>12. QED
  BY <1>8, <1>9, <1>10, <1>11, ZenonT(60)

LEMMA RecordedExact ==
  ASSUME NEW b, NEW c, Bounds(b, c), Small(reservations, b, c), NodesExact,
         NEW id, NEW r, Recorded(id, r), r.bytes <= b, r.slots <= c, Claim(r)
  PROVE  NodesExact'
<1>1. /\ node_mem \in Map(Node, Word) /\ node_slots \in Map(Node, SlotWord)
      /\ r.node \in Node /\ r.bytes \in Nat /\ r.slots \in Nat
      /\ Word \in Nat \ {0} /\ SlotWord \in Nat \ {0}
  BY RecordedIds, ReservationConstants, ZenonT(60) DEF Recorded, StoreTypeOK, Reservation
<1>2. /\ node_mem.val[r.node] + r.bytes \in 0 .. Word - 1
      /\ node_slots.val[r.node] + r.slots \in 0 .. SlotWord - 1
  <2>1. /\ NodeBytes(r.node) \in Nat /\ NodeBytes(r.node) + r.bytes < Word
        /\ NodeSlots(r.node) \in Nat /\ NodeSlots(r.node) + r.slots < SlotWord
    BY RecordedFits, ZenonT(60)
  <2>2. QED
    BY <1>1, <2>1, SMTT(30) DEF NodesExact
<1>3. ASSUME NEW n \in Node
      PROVE  node_mem'.val[n] = NodeBytes(n)' /\ node_slots'.val[n] = NodeSlots(n)'
  <2>1. node_mem.val[n] = NodeBytes(n) /\ node_slots.val[n] = NodeSlots(n)
    BY ZenonT(60) DEF NodesExact
  <2>2. node_mem.val[n] \in Nat /\ node_slots.val[n] \in Nat
    BY <1>1 DEF Map
  <2>3. node_mem'.val[n] = IF n = r.node THEN node_mem.val[n] + r.bytes ELSE node_mem.val[n]
    <3>1. CASE r.bytes = 0
      BY <2>2, <3>1, SMTT(30) DEF Claim
    <3>2. CASE r.bytes # 0
      <4>1. node_mem' = Plus(node_mem, r.node, r.bytes, Word)
        BY <3>2, ZenonT(60) DEF Claim
      <4>2. QED
        BY <1>1, <1>2, <4>1, PlusExact, SMTT(30)
    <3>3. QED
      BY <3>1, <3>2, ZenonT(60)
  <2>4. node_slots'.val[n] = IF n = r.node THEN node_slots.val[n] + r.slots
                             ELSE node_slots.val[n]
    <3>1. CASE r.slots = 0
      BY <2>2, <3>1, SMTT(30) DEF Claim
    <3>2. CASE r.slots # 0
      <4>1. node_slots' = Plus(node_slots, r.node, r.slots, SlotWord)
        BY <3>2, ZenonT(60) DEF Claim
      <4>2. QED
        BY <1>1, <1>2, <4>1, PlusExact, SMTT(30)
    <3>3. QED
      BY <3>1, <3>2, ZenonT(60)
  <2>5. /\ n = r.node => NodeBytes(n)' = NodeBytes(n) + r.bytes
        /\ n = r.node => NodeSlots(n)' = NodeSlots(n) + r.slots
        /\ n # r.node => NodeBytes(n)' = NodeBytes(n) /\ NodeSlots(n)' = NodeSlots(n)
    BY RecordedSums, ZenonT(60)
  <2>6. QED
    BY <2>1, <2>3, <2>4, <2>5, ZenonT(60)
<1>4. QED
  BY <1>3, ZenonT(60) DEF NodesExact

(* A reservation of a node that still holds all that was saved on it is    *)
(* not refused.                                                            *)
LEMMA FittingNotRefused ==
  ASSUME RecInv, NodesExact, NEW id \in ReservationId, RestoreOneReservation(id),
         Fits(disk.reservations[id].node)
  PROVE  ~RestoreRefused(id, disk.reservations[id])
<1> DEFINE r == disk.reservations[id]
           n == r.node
           S == OnNode(n)
           T == S \cup {id}
           g == [i \in SavedOn(n) |-> disk.reservations[i].bytes]
<1> USE ReservationConstants
<1>1. /\ PartlyRestored /\ Whole(disk) /\ r \in Reservation /\ StoreTypeOK
      /\ id \notin ActiveIds
  <2>1. reservations[id] = NoReservation => id \notin ActiveIds
    BY SMTT(30) DEF ActiveIds, Active, NoReservation
  <2>2. QED
    BY <2>1, RestoredFacts, ZenonT(60) DEF RecInv
<1>2. n \in Node /\ r.bytes \in Nat /\ r # NoReservation
  BY <1>1 DEF Reservation, NoReservation
<1>3. S \subseteq ActiveIds /\ S \subseteq ReservationId /\ IsFiniteSet(S)
      /\ IsFiniteSet(ReservationId)
  BY <1>1, OnNodeFinite, ZenonT(60)
<1>4. \A i \in S : /\ reservations[i].node = n /\ reservations[i] # NoReservation
                   /\ Bytes[i] = reservations[i].bytes /\ Bytes[i] \in Nat
  <2>1. \A i \in S : reservations[i].node = n /\ reservations[i].status = "active"
    BY ZenonT(60) DEF OnNode, ActiveIds, Active
  <2>2. \A i \in S : reservations[i] # NoReservation
    BY <2>1 DEF NoReservation
  <2>3. QED
    BY <1>1, <1>3, <2>1, <2>2, ActiveFacts, ZenonT(60)
<1>5. \A i \in S : reservations[i] = disk.reservations[i]
  BY <1>1, <1>3, <1>4, ZenonT(60) DEF PartlyRestored
<1>6. SavedOn(n) \subseteq ReservationId /\ id \in SavedOn(n) /\ T \in SUBSET SavedOn(n)
  <2>1. id \in SavedOn(n)
    BY <1>2, ZenonT(60) DEF SavedOn
  <2>2. \A i \in S : i \in SavedOn(n)
    BY <1>3, <1>4, <1>5, ZenonT(60) DEF SavedOn
  <2>3. QED
    BY <2>1, <2>2, ZenonT(60) DEF SavedOn
<1>7. IsFiniteSet(SavedOn(n))
  BY <1>3, <1>6, FS_Subset, ZenonT(60)
<1>8. \A i \in SavedOn(n) : g[i] = disk.reservations[i].bytes /\ g[i] \in Nat
  <2>1. \A i \in SavedOn(n) : disk.reservations[i] \in Reservation
    BY <1>1, ZenonT(60) DEF SavedOn, Whole, SavedReservations
  <2>2. QED
    BY <2>1 DEF Reservation
<1>9. SavedBytes(n) = SumFunctionOnSet(g, SavedOn(n))
  BY Zenon DEF SavedBytes
<1>10. g[id] = r.bytes /\ \A i \in S : g[i] = Bytes[i]
  BY <1>4, <1>5, <1>6, <1>8, ZenonT(60)
<1>11. id \notin S
  BY <1>1, <1>3, ZenonT(60)
<1> HIDE DEF g, S
<1>12. SumFunctionOnSet(g, T) = SumFunctionOnSet(Bytes, S) + g[id]
  <2>1. g[id] \in Nat /\ \A i \in S : Bytes[i] \in Nat /\ g[i] = Bytes[i]
    BY <1>2, <1>4, <1>10, ZenonT(60)
  <2>2. QED
    BY <1>3, <1>11, <2>1, SumJoin, SMTT(30)
<1> HIDE DEF T
<1>13. SumFunctionOnSet(g, T) \in Nat /\ SumFunctionOnSet(g, T) <= SumFunctionOnSet(g, SavedOn(n))
  BY <1>6, <1>7, <1>8, SumWithin, ZenonT(60)
<1>14. node_mem.val[n] = SumFunctionOnSet(Bytes, S)
  BY <1>2, SumsNow, ZenonT(60) DEF NodesExact, S
<1>15. SumFunctionOnSet(g, SavedOn(n)) \in Nat
  BY <1>7, <1>8, SumNat, ZenonT(60)
<1> HIDE DEF n, r
<1>16. /\ node_mem.val[n] + r.bytes \in Nat
       /\ Capacity[n] # 0 => node_mem.val[n] + r.bytes <= Capacity[n]
  <2>1. node_mem.val[n] + r.bytes = SumFunctionOnSet(g, T)
    BY <1>10, <1>12, <1>14, ZenonT(60)
  <2>2. Capacity[n] # 0 => SumFunctionOnSet(g, SavedOn(n)) <= Capacity[n]
    BY <1>9, ZenonT(60) DEF Fits, n, r
  <2>3. Capacity[n] \in Nat
    BY <1>2, SMTT(30)
  <2>4. QED
    BY <1>13, <1>15, <2>1, <2>2, <2>3, SMTT(30)
<1>17. Capacity[n] \in 0 .. Word - 1
  BY <1>2, ZenonT(60)
<1>18. Capacity[n] # 0 => (node_mem.val[n] + r.bytes) % Word <= Capacity[n]
  BY <1>16, <1>17, SMTT(30)
<1>19. SUFFICES ASSUME RestoreRefused(id, r)
                PROVE  FALSE
  BY DEF r
<1>20. Capacity[n] # 0 /\ (node_mem.val[n] + r.bytes) % Word > Capacity[n]
  BY <1>19, ZenonT(60) DEF RestoreRefused, n
<1>21. (node_mem.val[n] + r.bytes) % Word \in Nat
  BY <1>16, SMTT(30)
<1>22. QED
  BY <1>17, <1>18, <1>20, <1>21, SMTT(30)

-----------------------------------------------------------------------------
LEMMA ExactInitial ==
  ASSUME NEW b, NEW c, Bounds(b, c), RecInit
  PROVE  ExactInv(b, c)
<1>1. Small(reservations, b, c)
  BY DEF RecInit, StoreInit, Small, NoReservation
<1>2. disk # NoSave => Small(disk.reservations, b, c)
  BY ZenonT(60) DEF RecInit, Bounds
<1>3. phase = "down"
  BY ZenonT(60) DEF RecInit
<1>4. QED
  BY <1>1, <1>2, <1>3, ZenonT(60) DEF ExactInv

(* Steps after which nothing is being restored. *)
LEMMA ExactQuiet ==
  ASSUME NEW b, NEW c, ExactInv(b, c), Small(reservations', b, c),
         disk' = disk \/ Small(disk'.reservations, b, c),
         phase' \in {"copied", "written"} => Small(image'.reservations, b, c),
         phase' # "restoring"
  PROVE  ExactInv(b, c)'
<1>1. disk' # NoSave => Small(disk'.reservations, b, c)
  BY ZenonT(60) DEF ExactInv
<1>2. QED
  BY <1>1, ZenonT(60) DEF ExactInv, Small

LEMMA SmallReserve ==
  ASSUME NEW b, NEW c, Bounds(b, c), StoreTypeOK, Small(reservations, b, c),
         NEW req \in Request, Reserve(req)
  PROVE  Small(reservations', b, c)
<1>1. req.bytes <= b /\ req.slots <= c
  <2>1. req.bytes \in Sizes /\ req.slots \in SlotCounts
    BY DEF Request
  <2>2. req.bytes \in 0 .. b /\ req.slots \in 0 .. c
    BY <2>1, ZenonT(60) DEF Bounds
  <2>3. QED
    BY <2>2, SMTT(30) DEF Bounds
<1>2. CASE reservations' = reservations
  BY <1>2, ZenonT(60)
<1>3. CASE ReserveAdmitted(req)
  <2> DEFINE new == [status |-> "active", generation |-> watermark + 1,
                     node |-> req.node, bytes |-> req.bytes, slots |-> req.slots,
                     accel |-> req.accel, accel_capacity |-> req.accel_capacity]
  <2>1. new.bytes = req.bytes /\ new.slots = req.slots
    BY ZenonT(60)
  <2>2. \A i \in ReservationId :
          reservations'[i] = reservations[i] \/ reservations'[i] = new
    BY <1>3, ZenonT(60) DEF ReserveAdmitted, StoreTypeOK
  <2> HIDE DEF new
  <2>3. QED
    BY <1>1, <2>1, <2>2, ZenonT(60) DEF Small
<1>4. QED
  BY <1>2, <1>3, ZenonT(60) DEF Reserve, ReserveRefusedByNode, ReserveRefusedByAccelerator

LEMMA SmallRelease ==
  ASSUME NEW b, NEW c, StoreTypeOK, Small(reservations, b, c),
         NEW id \in ReservationId, Release(id, {})
  PROVE  Small(reservations', b, c)
<1>1. CASE reservations' = reservations
  BY <1>1, ZenonT(60)
<1>2. CASE reservations' = [reservations EXCEPT ![id].status = "released"]
  <2>1. reservations[id] \in Reservation
    BY ActiveFacts, ZenonT(60) DEF Release, ActiveIds
  <2>2. reservations'[id].status = "released"
        /\ \A i \in ReservationId \ {id} : reservations'[i] = reservations[i]
    BY <1>2, <2>1, ZenonT(60) DEF StoreTypeOK, Reservation
  <2>3. QED
    BY <2>2, ZenonT(60) DEF Small
<1>3. QED
  BY <1>1, <1>2, ZenonT(60) DEF Release

LEMMA ExactRestore ==
  ASSUME NEW b, NEW c, Bounds(b, c), RecInv, ExactInv(b, c),
         NEW id \in ReservationId, RestoreOneReservation(id)
  PROVE  ExactInv(b, c)'
<1> DEFINE r == disk.reservations[id]
<1>1. /\ phase = "restoring" /\ phase' = "restoring" /\ disk' = disk
      /\ r \in Reservation /\ r.status = "active" /\ reservations[id] = NoReservation
      /\ todo'.reservations = todo.reservations \ {id} /\ Whole(disk) /\ StoreTypeOK
  BY RestoredFacts, ZenonT(60) DEF RecInv
<1>2. disk # NoSave
  BY <1>1, SMTT(30) DEF Whole, NoSave, RecInv, RestoreOneReservation, PartlyRestored
<1>3. /\ Small(reservations, b, c) /\ Small(disk.reservations, b, c) /\ NodesExact
      /\ \A n \in Node : Fits(n) =>
           \A i \in SavedOn(n) \ todo.reservations : reservations[i] = disk.reservations[i]
  BY <1>1, <1>2, ZenonT(60) DEF ExactInv
<1>4. r.bytes <= b /\ r.slots <= c
  BY <1>1, <1>3, ZenonT(60) DEF Small
<1>5. \A n : (Fits(n)' <=> Fits(n)) /\ SavedOn(n)' = SavedOn(n)
  BY <1>1, ZenonT(60) DEF Fits, SavedBytes, SavedOn
<1>6. /\ Small(reservations', b, c) /\ NodesExact'
      /\ \A n \in Node : Fits(n) =>
           \A i \in SavedOn(n) \ todo'.reservations : reservations'[i] = disk.reservations[i]
  <2>1. CASE RestoreRefused(id, r)
    <3>1. /\ reservations' = reservations /\ node_mem'.val = node_mem.val
          /\ node_slots' = node_slots
      BY <2>1, ZenonT(60) DEF RestoreRefused, Touch
    <3>2. NodesExact'
      BY <1>3, <3>1, ZenonT(60)
      DEF NodesExact, NodeBytes, NodeSlots, OnNode, Bytes, Slots, ActiveIds, Active
    <3>3. ASSUME NEW n \in Node, Fits(n), NEW i \in SavedOn(n) \ todo'.reservations
          PROVE  reservations'[i] = disk.reservations[i]
      <4>1. n # r.node
        BY <1>3, <2>1, <3>3, FittingNotRefused, ZenonT(60)
      <4>2. i # id
        BY <3>3, <4>1, ZenonT(60) DEF SavedOn
      <4>3. i \in SavedOn(n) \ todo.reservations
        BY <1>1, <3>3, <4>2, SMTT(30)
      <4>4. QED
        BY <1>3, <3>1, <3>3, <4>3, ZenonT(60)
    <3>4. QED
      BY <1>3, <3>1, <3>2, <3>3, ZenonT(60)
  <2>2. CASE RestoreAdmitted(id, r)
    <3>1. Recorded(id, r) /\ Claim(r)
      BY <1>1, <2>2, ZenonT(60) DEF RestoreAdmitted, Recorded
    <3>2. NodesExact'
      BY <1>3, <1>4, <3>1, RecordedExact, ZenonT(60)
    <3>3. /\ reservations'[id] = disk.reservations[id]
          /\ \A i \in ReservationId \ {id} : reservations'[i] = reservations[i]
      BY <1>1, <2>2, ZenonT(60) DEF RestoreAdmitted, StoreTypeOK
    <3>4. Small(reservations', b, c)
      BY <1>3, <3>3, ZenonT(60) DEF Small
    <3>5. ASSUME NEW n \in Node, Fits(n), NEW i \in SavedOn(n) \ todo'.reservations
          PROVE  reservations'[i] = disk.reservations[i]
      <4>1. i \in ReservationId
        BY <3>5, ZenonT(60) DEF SavedOn
      <4>2. CASE i = id
        BY <3>3, <4>2, ZenonT(60)
      <4>3. CASE i # id
        <5>1. i \in SavedOn(n) \ todo.reservations
          BY <1>1, <3>5, <4>3, SMTT(30)
        <5>2. QED
          BY <1>3, <3>3, <3>5, <4>1, <4>3, <5>1, SMTT(30)
      <4>4. QED
        BY <4>2, <4>3, ZenonT(60)
    <3>6. QED
      BY <3>2, <3>4, <3>5, ZenonT(60)
  <2>3. QED
    BY <2>1, <2>2, ZenonT(60) DEF RestoreOneReservation
<1>7. phase' \notin {"copied", "written"} /\ Small(disk'.reservations, b, c)
  BY <1>1, <1>3, SMTT(30)
<1>8. \A n \in Node : Fits(n)' =>
        \A i \in SavedOn(n)' \ todo'.reservations : reservations'[i] = disk'.reservations[i]
  BY <1>1, <1>5, <1>6, ZenonT(60)
<1>9. QED
  BY <1>6, <1>7, <1>8, ZenonT(60) DEF ExactInv, Small

(* recover has restored some of the workers, or is about to begin. *)
LEMMA ExactLoad ==
  ASSUME NEW b, NEW c, RecInv, ExactInv(b, c), Load
  PROVE  ExactInv(b, c)'
<1>1. /\ StoreInit /\ phase' = "restoring" /\ disk' = disk /\ UNCHANGED storeVars
      /\ todo'.reservations = {id \in ReservationId : disk.reservations[id] # NoReservation}
      /\ disk # NoSave
  BY ZenonT(60) DEF Load, RecInv
<1>2. UNCHANGED <<reservations, node_mem, node_slots>>
  BY <1>1, ZenonT(60) DEF storeVars
<1>3. ActiveIds' = {}
  BY <1>1, <1>2, SMTT(30) DEF StoreInit, ActiveIds, Active, NoReservation
<1>4. \A n : OnNode(n)' = {}
  BY <1>3, ZenonT(60) DEF OnNode
<1>5. NodesExact'
  BY <1>1, <1>2, <1>4, SumEmpty, SumsNow, ZenonT(60) DEF StoreInit, EmptyMap, NodesExact
<1>6. \A n : SavedOn(n)' \ todo'.reservations = {}
  BY <1>1 DEF SavedOn
<1>7. Small(reservations', b, c) /\ Small(disk'.reservations, b, c)
  BY <1>1, <1>2, ZenonT(60) DEF ExactInv
<1>8. phase' \notin {"copied", "written"}
  BY <1>1, SMTT(30)
<1>9. QED
  BY <1>5, <1>6, <1>7, <1>8, ZenonT(60) DEF ExactInv, Small

LEMMA ExactStutter ==
  ASSUME NEW b, NEW c, ExactInv(b, c), UNCHANGED storeVars,
         UNCHANGED <<disk, phase, image>>, todo'.reservations = todo.reservations
  PROVE  ExactInv(b, c)'
<1>1. UNCHANGED <<reservations, node_mem, node_slots>>
  BY ZenonT(60) DEF storeVars
<1>2. NodesExact => NodesExact'
  BY <1>1, ZenonT(60)
  DEF NodesExact, NodeBytes, NodeSlots, OnNode, Bytes, Slots, ActiveIds, Active
<1>3. \A n : (Fits(n)' <=> Fits(n)) /\ SavedOn(n)' = SavedOn(n)
  BY Zenon DEF Fits, SavedBytes, SavedOn
<1>4. QED
  BY <1>1, <1>2, <1>3, ZenonT(60) DEF ExactInv, Small

LEMMA ExactInductive ==
  ASSUME NEW b, NEW c, Bounds(b, c), RecInv, RecInv', ExactInv(b, c), [RecNext]_allVars
  PROVE  ExactInv(b, c)'
<1>1. Small(reservations, b, c)
  BY Zenon DEF ExactInv
<1>2. ASSUME UNCHANGED storeVars, disk' = disk,
             phase' \in {"serving", "workers", "down"}
      PROVE  ExactInv(b, c)'
  <2>1. phase' \notin {"copied", "written"} /\ phase' # "restoring"
    BY <1>2
  <2>2. QED
    BY <1>1, <1>2, <2>1, ExactQuiet, ZenonT(60) DEF storeVars
<1>3. CASE UNCHANGED allVars
  BY <1>3, ExactStutter, ZenonT(60) DEF allVars, recoveryVars
<1>4. ASSUME NEW w \in WorkerId, Register(w) \/ Lose(w)
      PROVE  ExactInv(b, c)'
  BY <1>4, ExactStutter, ZenonT(60) DEF Register, Lose, recoveryVars
<1>5. ASSUME NEW w \in WorkerId, RestoreOneWorker(w)
      PROVE  ExactInv(b, c)'
  <2>1. todo'.reservations = todo.reservations
    BY <1>5, SMTT(30) DEF RestoreOneWorker, RecInv, PartlyRestored
  <2>2. QED
    BY <1>5, <2>1, ExactStutter, ZenonT(60) DEF RestoreOneWorker
<1>6. CASE UseStore
  <2>1. Small(reservations', b, c)
    BY <1>1, <1>6, SmallReserve, SmallRelease, ZenonT(60) DEF UseStore, RecInv
  <2>2. UNCHANGED <<phase, disk, image>> /\ phase # "restoring"
    BY <1>6, SMTT(30) DEF UseStore, recoveryVars, Running
  <2>3. QED
    BY <2>1, <2>2, ExactQuiet, ZenonT(60) DEF ExactInv
<1>7. CASE AdvanceEpoch
  BY <1>7, ExactStutter, ZenonT(60) DEF AdvanceEpoch
<1>8. CASE CopyWorkers \/ SaveFails \/ StartFresh \/ Serve
  BY <1>2, <1>8, ZenonT(60) DEF CopyWorkers, SaveFails, StartFresh, Serve
<1>9. CASE CopyReservations
  <2>1. /\ UNCHANGED storeVars /\ disk' = disk /\ phase' = "copied"
        /\ image'.reservations = [id \in ReservationId |-> SavedReservation(id)]
    BY <1>9, ZenonT(60) DEF CopyReservations
  <2>2. Small(image'.reservations, b, c)
    BY <1>1, <2>1, SMTT(30) DEF Small, SavedReservation, NoReservation
  <2>3. phase' # "restoring"
    BY <2>1
  <2>4. QED
    BY <1>1, <2>1, <2>2, <2>3, ExactQuiet, ZenonT(60) DEF storeVars
<1>10. CASE WriteTemp \/ Rename
  <2>1. /\ UNCHANGED storeVars /\ phase \in {"copied", "written"} /\ phase' # "restoring"
        /\ disk' = disk \/ disk' = image
        /\ image' = image \/ phase' \notin {"copied", "written"}
    BY <1>10 DEF WriteTemp, Rename
  <2>2. Small(image.reservations, b, c)
    BY <2>1, ZenonT(60) DEF ExactInv
  <2>3. QED
    BY <1>1, <2>1, <2>2, ExactQuiet, ZenonT(60) DEF storeVars
<1>11. CASE Crash
  <2>1. /\ reservations' = [id \in ReservationId |-> NoReservation]
        /\ disk' = disk /\ phase' = "down"
    BY <1>11, ZenonT(60) DEF Crash
  <2>2. Small(reservations', b, c) /\ phase' \notin {"copied", "written"}
        /\ phase' # "restoring"
    BY <2>1, SMTT(30) DEF Small, NoReservation
  <2>3. QED
    BY <2>1, <2>2, ExactQuiet, ZenonT(60)
<1>12. CASE Load
  BY <1>12, ExactLoad, ZenonT(60)
<1>13. ASSUME NEW id \in ReservationId, RestoreOneReservation(id)
       PROVE  ExactInv(b, c)'
  BY <1>13, ExactRestore, ZenonT(60)
<1>14. QED
  BY <1>3, <1>4, <1>5, <1>6, <1>7, <1>8, <1>9, <1>10, <1>11, <1>12, <1>13, ZenonT(60) DEF RecNext

(* Claimed, of the reservations in memory, is what LedgerExact compares    *)
(* accel_mem with.                                                         *)
LEMMA ClaimedIsBooked ==
  ASSUME StoreTypeOK, NEW a
  PROVE  Claimed(reservations, a) = AccelBytes(a)
<1>1. reservations \in Table
  BY TableNow, ZenonT(60)
<1>2. Claimants(reservations, a) = OnAccel(a)
  BY ZenonT(60) DEF Claimants, OnAccel, ActiveIds, Active
<1>3. OnAccel(a) \subseteq ActiveIds
  BY ZenonT(60) DEF OnAccel
<1> DEFINE g == Shares(reservations, a)
           S == OnAccel(a)
<1>4. /\ IsFiniteSet(S) /\ \A i \in S : g[i] = reservations[i].bytes
      /\ Claimed(reservations, a) = SumFunctionOnSet(g, S)
  BY <1>1, <1>2, ClaimantFacts, ZenonT(60)
<1>5. \A i \in S : g[i] = Bytes[i]
  BY <1>3, <1>4, ActiveFacts, ZenonT(60)
<1> HIDE DEF g, S
<1>6. SumFunctionOnSet(g, S) = SumFunctionOnSet(Bytes, S)
  BY <1>4, <1>5, SumAgree, SMTT(30)
<1>7. QED
  BY <1>4, <1>6, SumsNow, ZenonT(60) DEF S

LEMMA ServedIsSaved ==
  ASSUME NEW b, NEW c, RecInv, AccelInv, ExactInv(b, c), [RecNext]_allVars,
         phase = "restoring", phase' = "serving"
  PROVE  /\ epoch = disk.epoch
         /\ workers = disk.workers
         /\ \A id \in ReservationId :
              reservations[id] \in {disk.reservations[id], NoReservation}
         /\ \A n \in Node : Fits(n) =>
              \A id \in SavedOn(n) : reservations[id] = disk.reservations[id]
         /\ LedgerExact
<1>1. todo = NothingToDo
  <2>1. phase # phase' /\ phase \notin {"serving", "workers", "copied", "written"}
        /\ phase # "down"
    BY ZenonT(60)
  <2>2. ~UNCHANGED allVars
    BY <2>1, ZenonT(60) DEF allVars, recoveryVars
  <2>3. Serve
    BY <2>1, <2>2, ZenonT(60)
    DEF RecNext, Register, Lose, RestoreOneWorker, UseStore, AdvanceEpoch, CopyWorkers,
        CopyReservations, WriteTemp, Rename, SaveFails, Crash, StartFresh, Load, Serve,
        RestoreOneReservation, Running
  <2>4. QED
    BY <2>3, ZenonT(60) DEF Serve
<1>2. todo.workers = {} /\ todo.reservations = {} /\ PartlyRestored
  BY <1>1, SMTT(30) DEF NothingToDo, RecInv
<1>3. workers = disk.workers
  <2>1. /\ workers \in [WorkerId -> Worker \cup {NoWorker}]
        /\ disk.workers \in [WorkerId -> Worker \cup {NoWorker}]
        /\ \A w \in WorkerId : workers[w] = disk.workers[w]
    BY <1>2, ZenonT(60) DEF RecInv, RegistryTypeOK, PartlyRestored, Whole, SavedWorkers
  <2>2. QED
    BY <2>1
<1>4. /\ NodesExact
      /\ \A n \in Node : Fits(n) =>
           \A id \in SavedOn(n) : reservations[id] = disk.reservations[id]
  BY <1>2 DEF ExactInv
<1>5. \A a \in Accelerator : accel_mem.val[a] = AccelBytes(a)
  BY ClaimedIsBooked, ZenonT(60) DEF AccelInv, RecInv
<1>6. LedgerExact
  BY <1>4, <1>5, ZenonT(60) DEF NodesExact, LedgerExact
<1>7. QED
  BY <1>2, <1>3, <1>4, <1>6, ZenonT(60) DEF PartlyRestored

(* The container changes only by the rename of a complete image. *)
LEMMA ReplacedIsWhole ==
  ASSUME RecInv, AccelInv, [RecNext]_allVars, disk' # disk
  PROVE  disk' \in Container
<1>1. Rename
  <2>1. ~UNCHANGED allVars
    BY ZenonT(60) DEF allVars, recoveryVars
  <2>2. QED
    BY <2>1, ZenonT(60)
    DEF RecNext, Register, Lose, RestoreOneWorker, UseStore, AdvanceEpoch, CopyWorkers,
        CopyReservations, WriteTemp, SaveFails, Crash, StartFresh, Load, Serve,
        RestoreOneReservation, recoveryVars
<1>2. disk' = image /\ phase \in {"copied", "written"}
  BY <1>1 DEF Rename
<1>3. Whole(image) /\ WithinCeiling(image.reservations)
  BY <1>2, ZenonT(60) DEF RecInv, AccelInv
<1>4. image \in [epoch: 1 .. MaxEpoch, workers: [WorkerId -> Worker \cup {NoWorker}],
                 reservations: [ReservationId -> Reservation \cup {NoReservation}]]
  BY <1>3, ZenonT(60) DEF Whole, SavedWorkers, SavedReservations
<1>5. QED
  BY <1>2, <1>3, <1>4, ZenonT(60)
  DEF Container, Whole, SavedWorkers, SavedReservations, WithinCeiling

(* Wherever a crash hits, the container is one that a coordinator wrote as *)
(* a whole, and a coordinator that has recovered serves what it holds,     *)
(* with exact counters.                                                    *)
THEOREM RecRestoresSave ==
  ASSUME NoSumWraps
  PROVE  RecSpec => RecoveryRestoresSave
<1>1. PICK b, c : Bounds(b, c)
  <2>1. PICK b \in 0 .. Word - 1, c \in 0 .. SlotWord - 1 :
          /\ Sizes \subseteq 0 .. b /\ MaxId * b < Word
          /\ SlotCounts \subseteq 0 .. c /\ MaxId * c < SlotWord
          /\ \A save \in EarlierSaves \ {NoSave} : Small(save.reservations, b, c)
    BY ZenonT(60) DEF NoSumWraps
  <2>2. b \in Nat /\ c \in Nat
    BY ReservationConstants, SMTT(30)
  <2>3. QED
    BY <2>1, <2>2, ZenonT(60) DEF Bounds
<1>2. RecInit => ExactInv(b, c)
  BY <1>1, ExactInitial, ZenonT(60)
<1>3. RecInv /\ RecInv' /\ ExactInv(b, c) /\ [RecNext]_allVars => ExactInv(b, c)'
  BY <1>1, ExactInductive, ZenonT(60)
<1>4. /\ RecInit /\ RecInv => AccelInv
      /\ RecInv /\ RecInv' /\ AccelInv /\ [RecNext]_allVars => AccelInv'
  BY AccelInitial, AccelInductive, ZenonT(60) DEF NoSumWraps
<1>5. RecInv /\ AccelInv /\ ExactInv(b, c) /\ [RecNext]_allVars =>
        [/\ disk' # disk => disk' \in Container
         /\ phase = "restoring" /\ phase' = "serving" =>
              /\ epoch = disk.epoch
              /\ workers = disk.workers
              /\ \A id \in ReservationId :
                   reservations[id] \in {disk.reservations[id], NoReservation}
              /\ \A n \in Node : Fits(n) =>
                   \A id \in SavedOn(n) : reservations[id] = disk.reservations[id]
              /\ LedgerExact]_allVars
  BY ServedIsSaved, ReplacedIsWhole, ZenonT(60)
<1>6. QED
  BY <1>2, <1>3, <1>4, <1>5, RecAlways, PTL DEF RecSpec, RecoveryRestoresSave
=============================================================================
