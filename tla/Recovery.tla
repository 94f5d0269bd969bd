------------------------------ MODULE Recovery -------------------------------
(***************************************************************************)
(* Runtime::persist and Runtime::recover (runtime.cpp) with the container  *)
(* file of persistence_store.cpp, across crashes of the coordinator.       *)
(*                                                                         *)
(* persist copies the workers and then the reservations, under the         *)
(* runtime's mutex but between other threads' calls of the registry and    *)
(* of the store; it writes a temporary file and renames it over the old    *)
(* container.  A crash loses everything but the container.  The next       *)
(* process recovers from it, record by record, before it serves.           *)
(***************************************************************************)
EXTENDS WorkerRegistry, ReservationAccounting

CONSTANTS
  EarlierSaves,  \* containers left by coordinators of the past
  MaxEpoch,      \* bound: the last coordinator epoch
  MaxCrash,      \* bound: crashes
  MaxPersist     \* bound: calls of persist

VARIABLES
  epoch,    \* Runtime::epoch_
  phase,    \* what the process is doing
  image,    \* the PersistedState being built or written
  disk,     \* the container under its final name
  todo,     \* recover: records not yet restored
  issued,   \* every <<worker, boot>> ever answered to a registration
  crashes,  \* crashes so far
  persists  \* calls of persist so far

counters == <<crashes, persists>>
recoveryVars == <<epoch, phase, image, disk, todo, issued, counters>>
allVars == <<registryVars, storeVars, recoveryVars>>

NoSave == [epoch |-> 0]
NothingToDo == [workers |-> {}, reservations |-> {}]

(* The reservations of res that claim accelerator a, and what they claim. *)
Claimants(res, a) ==
  {id \in ReservationId : /\ res[id].status = "active"
                          /\ ClaimsAccel(res[id])
                          /\ res[id].accel = a}

Claimed(res, a) ==
  SumFunctionOnSet([id \in Claimants(res, a) |-> res[id].bytes], Claimants(res, a))

(* A container that a coordinator wrote: no two of its workers carry the   *)
(* same boot, its reservations are active, and they are within the ceiling *)
(* of every accelerator, a constant of the code.                           *)
Container ==
  {save \in [epoch: 1 .. MaxEpoch, workers: [WorkerId -> Worker \cup {NoWorker}],
             reservations: [ReservationId -> Reservation \cup {NoReservation}]] :
     /\ \A w, v \in WorkerId : w # v /\ save.workers[w] # NoWorker =>
          save.workers[w].boot # save.workers[v].boot
     /\ \A id \in ReservationId : save.reservations[id].status # "released"
     /\ \A a \in Accelerator : Claimed(save.reservations, a) <= AccelCeiling}

ASSUME RecoveryConstants ==
  /\ MaxEpoch \in Nat \ {0}
  /\ MaxCrash \in Nat
  /\ MaxPersist \in Nat
  /\ EarlierSaves \ {NoSave} \subseteq Container

(* The active reservations of res claim at most b bytes and c slots each. *)
Small(res, b, c) ==
  \A id \in ReservationId : res[id].status = "active" =>
    res[id].bytes <= b /\ res[id].slots <= c

(* No sum of claims can wrap around: not a request on top of a full        *)
(* accelerator, nor all the reservations of a container on one node.       *)
NoSumWraps ==
  /\ \A s \in Sizes : AccelCeiling + s < Word
  /\ \E b \in 0 .. Word - 1, c \in 0 .. SlotWord - 1 :
       /\ Sizes \subseteq 0 .. b /\ MaxId * b < Word
       /\ SlotCounts \subseteq 0 .. c /\ MaxId * c < SlotWord
       /\ \A save \in EarlierSaves \ {NoSave} : Small(save.reservations, b, c)

RecInit ==
  /\ RegistryInit
  /\ StoreInit
  /\ epoch = 1
  /\ phase = "down"
  /\ image = NoSave
  /\ disk \in EarlierSaves \cup {NoSave}
  /\ todo = NothingToDo
  /\ issued = {}
  /\ crashes = 0
  /\ persists = 0

Running == phase \in {"serving", "workers", "copied", "written"}

-----------------------------------------------------------------------------
(* The process at work, also while persist is under way. *)
Register(w) ==
  /\ Running
  /\ RegisterWorker(w) \/ RestartWorker(w)
  /\ issued' = issued \cup {<<w, next_boot>>}
  /\ UNCHANGED <<storeVars, epoch, phase, image, disk, todo, counters>>

Lose(w) ==
  /\ Running
  /\ Known(w)
  /\ MarkDead(w, workers[w].boot)
  /\ UNCHANGED <<storeVars, recoveryVars>>

UseStore ==
  /\ Running
  /\ \/ \E req \in Request : Reserve(req)
     \/ \E id \in ReservationId : Release(id, {})
  /\ UNCHANGED <<registryVars, recoveryVars>>

(* advance_epoch waits for the mutex that persist holds while it copies. *)
AdvanceEpoch ==
  /\ Running /\ phase # "workers"
  /\ epoch < MaxEpoch
  /\ epoch' = epoch + 1
  /\ UNCHANGED <<registryVars, storeVars, phase, image, disk, todo, issued, counters>>

-----------------------------------------------------------------------------
(* persist.  Of a binding only node and generation are saved; of the       *)
(* reservations only the active ones are.                                  *)
SavedWorker(w) ==
  IF Known(w)
  THEN [workers[w] EXCEPT !.bound = FALSE, !.requested = NoNode, !.current = NoNode]
  ELSE NoWorker

SavedReservation(id) == IF Active(id) THEN reservations[id] ELSE NoReservation

CopyWorkers ==
  /\ phase = "serving"
  /\ persists < MaxPersist
  /\ persists' = persists + 1
  /\ phase' = "workers"
  /\ image' = [epoch |-> epoch, workers |-> [w \in WorkerId |-> SavedWorker(w)]]
  /\ UNCHANGED <<registryVars, storeVars, epoch, disk, todo, issued, crashes>>

CopyReservations ==
  /\ phase = "workers"
  /\ phase' = "copied"
  /\ image' = [epoch |-> image.epoch, workers |-> image.workers,
               reservations |-> [id \in ReservationId |-> SavedReservation(id)]]
  /\ UNCHANGED <<registryVars, storeVars, epoch, disk, todo, issued, counters>>

(* save: the temporary file is complete. *)
WriteTemp ==
  /\ phase = "copied"
  /\ phase' = "written"
  /\ UNCHANGED <<registryVars, storeVars, epoch, image, disk, todo, issued, counters>>

(* save: MoveFileEx replaces the container. *)
Rename ==
  /\ phase = "written"
  /\ phase' = "serving"
  /\ disk' = image
  /\ image' = NoSave
  /\ UNCHANGED <<registryVars, storeVars, epoch, todo, issued, counters>>

(* save throws: the temporary file cannot be written, or not renamed. *)
SaveFails ==
  /\ phase \in {"copied", "written"}
  /\ phase' = "serving"
  /\ image' = NoSave
  /\ UNCHANGED <<registryVars, storeVars, epoch, disk, todo, issued, counters>>

-----------------------------------------------------------------------------
Crash ==
  /\ phase # "down"
  /\ crashes < MaxCrash
  /\ crashes' = crashes + 1
  /\ phase' = "down"
  /\ workers' = [w \in WorkerId |-> NoWorker]
  /\ next_boot' = 1
  /\ reservations' = [id \in ReservationId |-> NoReservation]
  /\ node_mem' = EmptyMap(Node)
  /\ node_slots' = EmptyMap(Node)
  /\ accel_mem' = EmptyMap(Accelerator)
  /\ next_id' = 1
  /\ watermark' = 0
  /\ epoch' = 1
  /\ image' = NoSave
  /\ todo' = NothingToDo
  /\ UNCHANGED <<disk, issued, persists>>

(* The first start ever, without a container. *)
StartFresh ==
  /\ phase = "down"
  /\ disk = NoSave /\ crashes = 0
  /\ phase' = "serving"
  /\ UNCHANGED <<registryVars, storeVars, epoch, image, disk, todo, issued, counters>>

(* recover: the container is loaded and the epoch taken from it... *)
Load ==
  /\ phase = "down"
  /\ disk # NoSave
  /\ phase' = "restoring"
  /\ epoch' = disk.epoch
  /\ todo' = [workers |-> {w \in WorkerId : disk.workers[w] # NoWorker},
              reservations |-> {id \in ReservationId :
                                  disk.reservations[id] # NoReservation}]
  /\ UNCHANGED <<registryVars, storeVars, image, disk, issued, counters>>

(* ... then every worker ... *)
RestoreOneWorker(w) ==
  /\ phase = "restoring"
  /\ w \in todo.workers
  /\ RestoreWorker(w, disk.workers[w])
  /\ todo' = [todo EXCEPT !.workers = @ \ {w}]
  /\ UNCHANGED <<storeVars, epoch, phase, image, disk, issued, counters>>

(* ... and every reservation, by id; one the store refuses is dropped. *)
RestoreOneReservation(id) ==
  /\ phase = "restoring"
  /\ todo.workers = {}
  /\ id \in todo.reservations
  /\ \A other \in todo.reservations : id <= other
  /\ \/ RestoreRefused(id, disk.reservations[id])
     \/ RestoreAdmitted(id, disk.reservations[id])
  /\ todo' = [todo EXCEPT !.reservations = @ \ {id}]
  /\ UNCHANGED <<registryVars, epoch, phase, image, disk, issued, counters>>

Serve ==
  /\ phase = "restoring"
  /\ todo = NothingToDo
  /\ phase' = "serving"
  /\ UNCHANGED <<registryVars, storeVars, epoch, image, disk, todo, issued, counters>>

-----------------------------------------------------------------------------
RecNext ==
  \/ \E w \in WorkerId : Register(w) \/ Lose(w) \/ RestoreOneWorker(w)
  \/ UseStore \/ AdvanceEpoch
  \/ CopyWorkers \/ CopyReservations \/ WriteTemp \/ Rename \/ SaveFails
  \/ Crash \/ StartFresh \/ Load \/ Serve
  \/ \E id \in ReservationId : RestoreOneReservation(id)

RecSpec == RecInit /\ [][RecNext]_allVars

-----------------------------------------------------------------------------
(* The bytes the container promises on node n. *)
SavedOn(n) ==
  {id \in ReservationId : /\ disk.reservations[id] # NoReservation
                          /\ disk.reservations[id].node = n}

SavedBytes(n) ==
  SumFunctionOnSet([id \in SavedOn(n) |-> disk.reservations[id].bytes], SavedOn(n))

Fits(n) == Capacity[n] = 0 \/ SavedBytes(n) <= Capacity[n]

(* Wherever a crash hits persist, and whatever other threads do between    *)
(* its copies, the container is only ever replaced by a whole one, with    *)
(* boots that differ and claims that were admitted together.  A process    *)
(* that has recovered serves exactly what it holds: its epoch and workers, *)
(* and every reservation under its old identity and generation.  Only on a *)
(* node that has become too small may one be missing, and none is altered. *)
RecoveryRestoresSave ==
  [][/\ disk' # disk => disk' \in Container
     /\ phase = "restoring" /\ phase' = "serving" =>
          /\ epoch = disk.epoch
          /\ workers = disk.workers
          /\ \A id \in ReservationId :
               reservations[id] \in {disk.reservations[id], NoReservation}
          /\ \A n \in Node : Fits(n) =>
               \A id \in SavedOn(n) : reservations[id] = disk.reservations[id]
          /\ LedgerExact]_allVars

(* "preserving identity + generation" (reservation_store.hpp): as long as  *)
(* the process lives, a reservation is only ever released, never replaced  *)
(* by another under the same id.                                           *)
RestoredKept ==
  [][phase' # "down" => \A id \in ReservationId : Active(id) =>
       reservations'[id] \in {reservations[id],
                             [reservations[id] EXCEPT !.status = "released"]}
    ]_allVars

(* "Returns false with no mutation if capacity no longer permits it"       *)
(* (reservation_store.hpp): a reservation that restore does not admit      *)
(* leaves the accounting as it was.                                        *)
RefusalChangesNothing ==
  [][phase = "restoring" /\ reservations' = reservations =>
       UNCHANGED <<node_mem, node_slots, accel_mem>> \/ phase' = "down"]_allVars

(* "Recovery never claims the current worker boot ... without              *)
(* revalidation" (persistence_store.hpp): when a recovered process begins  *)
(* to serve, no boot of before the crash is accepted yet.                  *)
RecoveredNotCurrent ==
  [][phase = "restoring" /\ phase' = "serving" =>
       \A w \in WorkerId : ~ValidBoot(w, workers[w].boot)]_allVars

(* "A restarted logical worker carries a fresh WorkerBootId" (README): no  *)
(* worker is ever given a boot it was given before.                        *)
BootsFresh ==
  [][\A w \in WorkerId :
       Running /\ phase' # "down" /\ workers'[w].boot # workers[w].boot =>
         <<w, workers'[w].boot>> \notin issued]_allVars
=============================================================================
