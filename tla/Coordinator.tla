----------------------------- MODULE Coordinator -----------------------------
(***************************************************************************)
(* The coordinator (coordinator.cpp) over the worker registry and the      *)
(* reservation store of its runtime (runtime.cpp).                         *)
(*                                                                         *)
(* Each TCP connection has a thread that receives a frame, runs            *)
(* handle_frame on it, sends the reply and receives the next one; when the *)
(* peer is gone it marks the worker recorded for the connection dead.      *)
(* Threads interleave between the points where handle_frame takes and      *)
(* drops a lock or reads through an unlocked pointer: pc names the next    *)
(* such step of each thread.  The two loads of validate_authority          *)
(* (w->alive, w->boot_id) and the stores of bind_worker happen in program  *)
(* order and each is atomic; at such a store pc names the field.           *)
(* A handler that refuses or throws answers with an Error frame and the    *)
(* thread goes back to "recv".  Ping, Discover and unknown frames change   *)
(* nothing and are left out.                                               *)
(***************************************************************************)
EXTENDS WorkerRegistry, ReservationStore

CONSTANTS
  ConnId,      \* connection ids, never reused
  Controller,  \* the ones made by open_controller, without a socket
  Ops,         \* the frame types the peers send
  MaxEpoch,    \* bound: the last coordinator epoch
  MaxFrames    \* bound: frames received over all connections

MutableOps == {"reserve", "release", "bind", "migrate", "observe"}
AllOps == MutableOps \cup {"register", "place", "revalidate"}

ASSUME CoordinatorConstants ==
  /\ Controller \subseteq ConnId
  /\ Ops \subseteq AllOps
  /\ MaxEpoch \in Nat \ {0}
  /\ MaxFrames \in Nat

VARIABLES
  epoch,             \* Runtime::epoch_
  next_observation,  \* Runtime::next_observation_
  conns,             \* conns_: what each connection registered
  link,              \* the TCP connection below it: "up" or "down"
  pc,                \* the next step of the connection's thread
  frame,             \* the frame in its hands
  local,             \* its local: the boot branded, or the generation read
  told,              \* the epoch its last RegisterAck carried
  frames             \* frames received so far (bounds the model)

threadVars == <<conns, link, pc, frame, local, told, frames>>
runtimeVars == <<epoch, next_observation>>
coordVars == <<registryVars, storeVars, runtimeVars, threadVars>>

(* ConnState{}: nothing registered; also what a missing entry reads as. *)
Unregistered == [boot |-> 0]

NoFrame == [op |-> "none"]

(* arg is the node of a bind, the id of a release (0 is invalid), the      *)
(* request of a reserve (NoNode if it names an invalid node).  The last    *)
(* two record, for the properties, whether the claimed boot was valid and  *)
(* the claimed epoch current when the frame was received.                  *)
Frame(op, w, boot, e, arg) ==
  [op |-> op, worker |-> w, boot |-> boot, epoch |-> e, arg |-> arg,
   bootCurrent |-> ValidBoot(w, boot), epochCurrent |-> e = epoch]

Args(op) ==
  CASE op = "bind"    -> BindNode \cup {NoNode}
    [] op = "release" -> ReservationId \cup {0}
    [] op = "reserve" -> Request \cup {NoNode}
    [] OTHER          -> {NoNode}

(* A Register frame carries no boot; the others any boot that some         *)
(* RegisterAck carried, on this connection or another.                     *)
Acknowledged(boot) == \A c \in ConnId : pc[c] = "record" => local[c] # boot

Boots(op) ==
  IF op = "register" THEN {0} ELSE {b \in 1 .. next_boot - 1 : Acknowledged(b)}

CoordInit ==
  /\ RegistryInit
  /\ StoreInit
  /\ epoch = 1
  /\ next_observation = 1
  /\ conns = [c \in ConnId |-> Unregistered]
  /\ link = [c \in ConnId |-> "down"]
  /\ pc = [c \in ConnId |-> "idle"]
  /\ frame = [c \in ConnId |-> NoFrame]
  /\ local = [c \in ConnId |-> 0]
  /\ told = [c \in ConnId |-> 0]
  /\ frames = 0

-----------------------------------------------------------------------------
(* Moves of a thread that leave the registry, the store and the runtime    *)
(* alone, and the end of a handler: the reply is sent, the locals die.     *)
Goto(c, step) == pc' = [pc EXCEPT ![c] = step]

Reply(c) ==
  /\ Goto(c, "recv")
  /\ frame' = [frame EXCEPT ![c] = NoFrame]
  /\ local' = [local EXCEPT ![c] = 0]
  /\ UNCHANGED <<link, frames>>

Proceed(c, step) ==
  /\ Goto(c, step)
  /\ UNCHANGED <<frame, local, conns, told, link, frames>>

Answer(c) == Reply(c) /\ UNCHANGED <<conns, told>>

(* A check of the handler: refuse with an Error frame, or go on. *)
Check(c, ok, step) ==
  /\ IF ok THEN Proceed(c, step) ELSE Answer(c)
  /\ UNCHANGED <<registryVars, storeVars, runtimeVars>>

-----------------------------------------------------------------------------
(* accept, or open_controller: a new ConnState{} and a thread to serve it. *)
Accept(c) ==
  /\ pc[c] = "idle"
  /\ Goto(c, "recv")
  /\ link' = [link EXCEPT ![c] = "up"]
  /\ conns' = [conns EXCEPT ![c] = Unregistered]
  /\ UNCHANGED <<registryVars, storeVars, runtimeVars, frame, local, told, frames>>

(* The decoder yields a frame; handle_frame dispatches on its type.  Only  *)
(* PlacementRequest has room for the epoch e on the wire.                  *)
Receive(c, op, w, boot, e, arg) ==
  /\ pc[c] = "recv"
  /\ link[c] = "up"
  /\ frames < MaxFrames
  /\ frames' = frames + 1
  /\ frame' = [frame EXCEPT ![c] = Frame(op, w, boot, e, arg)]
  /\ Goto(c, CASE op = "register" -> "lookup"
               [] op = "place"    -> "epoch"
               [] OTHER           -> "alive")
  /\ UNCHANGED <<registryVars, storeVars, runtimeVars, conns, link, local, told>>

(* Register: runtime_.worker(id) == nullptr decides between the two calls. *)
Lookup(c) ==
  /\ pc[c] = "lookup"
  /\ Check(c, TRUE, IF Known(frame[c].worker) THEN "restart" ELSE "register")

(* register_worker throws when another thread registered the id meanwhile. *)
RegisterRaced(c) ==
  /\ pc[c] = "register"
  /\ Known(frame[c].worker)
  /\ Check(c, FALSE, "recv")

Brand(c) ==
  /\ \/ pc[c] = "register" /\ RegisterWorker(frame[c].worker)
     \/ pc[c] = "restart" /\ RestartWorker(frame[c].worker)
  /\ local' = [local EXCEPT ![c] = next_boot]
  /\ Goto(c, "record")
  /\ UNCHANGED <<storeVars, runtimeVars, conns, link, frame, told, frames>>

(* conns_[conn_id] = {worker, boot, true}; the RegisterAck carries the     *)
(* boot and the epoch of this moment.                                      *)
Record(c) ==
  /\ pc[c] = "record"
  /\ conns' = [conns EXCEPT ![c] = [worker |-> frame[c].worker, boot |-> local[c]]]
  /\ told' = [told EXCEPT ![c] = epoch]
  /\ Reply(c)
  /\ UNCHANGED <<registryVars, storeVars, runtimeVars>>

(* PlacementRequest only: the frame's epoch. *)
CheckEpoch(c) ==
  /\ pc[c] = "epoch"
  /\ Check(c, frame[c].epoch = epoch, "alive")

(* validate_authority, in its two loads. *)
ReadAlive(c) ==
  /\ pc[c] = "alive"
  /\ Check(c, workers[frame[c].worker].alive, "boot")

(* A placement is planned and answered, a revalidation acknowledged,       *)
(* without any further step.                                               *)
Granted(op) ==
  CASE op \in {"bind", "migrate"}     -> "validate"
    [] op = "observe"                 -> "check"
    [] op \in {"reserve", "release"}  -> "act"
    [] OTHER                          -> "recv"

(* Faulty variant: any boot passes. *)
ReadBootIgnored(c) ==
  /\ pc[c] = "boot"
  /\ Check(c, Granted(frame[c].op) # "recv", Granted(frame[c].op))

ReadBoot(c) ==
  LET f == frame[c] IN
  /\ pc[c] = "boot"
  /\ Check(c, workers[f.worker].boot = f.boot /\ Granted(f.op) # "recv",
           Granted(f.op))

(* Runtime::bind_worker and Runtime::migrate call validate_boot again; a   *)
(* bind then also wants a node of the topology.                            *)
Validate(c) ==
  LET f == frame[c] IN
  /\ pc[c] = "validate"
  /\ Check(c, ValidBoot(f.worker, f.boot) /\ (f.op = "bind" => f.arg # NoNode),
           IF f.op = "bind" THEN "read" ELSE "act")

(* bind_worker: the binding generation is read through find_mut... *)
ReadBinding(c) ==
  /\ pc[c] = "read"
  /\ Goto(c, "generation")
  /\ local' = [local EXCEPT ![c] = workers[frame[c].worker].binding_generation + 1]
  /\ UNCHANGED <<registryVars, storeVars, runtimeVars, conns, link, frame, told, frames>>

(* ... and its successor stored, then the node and the other fields, in no *)
(* lock: a restart, or another bind, may come between any two stores.      *)
NextField ==
  [generation |-> "node", node |-> "bound", bound |-> "requested", requested |-> "current"]

StoreBinding(c) ==
  /\ pc[c] \in BindingFields
  /\ WriteBinding(frame[c].worker, pc[c], frame[c].arg, local[c])
  /\ IF pc[c] = "current" THEN Answer(c) ELSE Proceed(c, NextField[pc[c]])
  /\ UNCHANGED <<storeVars, runtimeVars>>

(* Runtime::observe compares the boot, takes a number and stores it under  *)
(* the runtime's mutex, which advance_epoch takes too and the registry     *)
(* does not.                                                               *)
Observing == {"stamp", "observe"}
RuntimeMutexFree == \A d \in ConnId : pc[d] \notin Observing

(* Faulty variant: the mutex is not taken. *)
CompareBootUnlocked(c) ==
  /\ pc[c] = "check"
  /\ Check(c, workers[frame[c].worker].boot = frame[c].boot, "stamp")

CompareBoot(c) ==
  /\ pc[c] = "check"
  /\ RuntimeMutexFree
  /\ Check(c, workers[frame[c].worker].boot = frame[c].boot, "stamp")

(* next_observation_++ ... *)
Stamp(c) ==
  /\ pc[c] = "stamp"
  /\ Goto(c, "observe")
  /\ local' = [local EXCEPT ![c] = next_observation]
  /\ next_observation' = next_observation + 1
  /\ UNCHANGED <<registryVars, storeVars, epoch, conns, link, frame, told, frames>>

(* ... and the store of its old value through find_mut. *)
Observe(c) ==
  /\ pc[c] = "observe"
  /\ WriteObservation(frame[c].worker, local[c])
  /\ Answer(c)
  /\ UNCHANGED <<storeVars, runtimeVars>>

(* The request of a reserve that asks for nothing. *)
AsksNothing(req) == req.bytes = 0 /\ req.slots = 0 /\ ~req.accel_capacity

(* Faulty variant: a released reservation keeps its claims. *)
CallStoreKeepingClaims(c) ==
  LET f == frame[c] IN
  /\ pc[c] = "act"
  /\ \/ f.op = "reserve" /\ f.arg # NoNode /\ Reserve(f.arg)
     \/ /\ f.op = "release" /\ f.arg # 0 /\ Active(f.arg)
        /\ reservations' = [reservations EXCEPT ![f.arg].status = "released"]
        /\ UNCHANGED <<node_mem, node_slots, accel_mem, next_id, watermark>>
  /\ Answer(c)
  /\ UNCHANGED <<registryVars, runtimeVars>>

(* reserve and release on the store; a call the store rejects throws and   *)
(* is answered with an Error frame.  What a migrate does to its region is  *)
(* module Migration's.                                                     *)
CallStore(c) ==
  LET f == frame[c] IN
  /\ pc[c] = "act"
  /\ \/ f.op = "reserve" /\ f.arg # NoNode /\ Reserve(f.arg)
     \/ f.op = "release" /\ f.arg # 0 /\ Release(f.arg, {})
     \/ /\ f.op = "reserve" /\ f.arg # NoNode => AsksNothing(f.arg)
        /\ f.op = "release" /\ f.arg # 0 => ~Active(f.arg)
        /\ UNCHANGED storeVars
  /\ Answer(c)
  /\ UNCHANGED <<registryVars, runtimeVars>>

-----------------------------------------------------------------------------
(* The peer closes, is killed or resets: recv or send fails from now on. *)
Drop(c) ==
  /\ pc[c] # "idle"
  /\ c \notin Controller
  /\ link[c] = "up"
  /\ link' = [link EXCEPT ![c] = "down"]
  /\ UNCHANGED <<registryVars, storeVars, runtimeVars, conns, pc, frame, local,
                 told, frames>>

(* recv returns no bytes: the thread leaves its loop, lost = true. *)
Lose(c) ==
  /\ pc[c] = "recv"
  /\ link[c] = "down"
  /\ Check(c, TRUE, "lost")

(* Faulty variant: the loss is not reported to the registry. *)
MarkLostForgotten(c) == pc[c] = "lost" /\ Check(c, TRUE, "erase")

(* mark_worker_dead for what this connection registered last. *)
MarkLost(c) ==
  /\ pc[c] = "lost"
  /\ IF conns[c] = Unregistered
     THEN UNCHANGED registryVars
     ELSE MarkDead(conns[c].worker, conns[c].boot)
  /\ Proceed(c, "erase")
  /\ UNCHANGED <<storeVars, runtimeVars>>

(* conns_.erase, by the thread or by close_controller. *)
Erase(c) ==
  /\ \/ pc[c] = "erase"
     \/ pc[c] = "recv" /\ c \in Controller
  /\ conns' = [conns EXCEPT ![c] = Unregistered]
  /\ Goto(c, "done")
  /\ UNCHANGED <<registryVars, storeVars, runtimeVars, link, frame, local, told, frames>>

AdvanceEpoch ==
  /\ RuntimeMutexFree
  /\ epoch < MaxEpoch
  /\ epoch' = epoch + 1
  /\ UNCHANGED <<registryVars, storeVars, next_observation, threadVars>>

-----------------------------------------------------------------------------
HandleStep(c) ==
  \/ Lookup(c) \/ RegisterRaced(c) \/ Brand(c) \/ Record(c)
  \/ CheckEpoch(c) \/ ReadAlive(c) \/ ReadBoot(c) \/ Validate(c)
  \/ ReadBinding(c) \/ StoreBinding(c) \/ CompareBoot(c) \/ Stamp(c)
  \/ Observe(c) \/ CallStore(c)

LossStep(c) == Lose(c) \/ MarkLost(c) \/ (pc[c] = "erase" /\ Erase(c))

(* Peers present the epoch they were told. *)
CoordNext ==
  \/ AdvanceEpoch
  \/ \E c \in ConnId :
       \/ Accept(c) \/ Drop(c) \/ Lose(c) \/ MarkLost(c) \/ Erase(c)
       \/ HandleStep(c)
       \/ \E op \in Ops, w \in WorkerId :
            \E boot \in Boots(op), arg \in Args(op) :
              Receive(c, op, w, boot, told[c], arg)

CoordSpec == CoordInit /\ [][CoordNext]_coordVars

-----------------------------------------------------------------------------
Steps ==
  {"idle", "recv", "lookup", "register", "restart", "record", "epoch", "alive",
   "boot", "validate", "act", "read", "check", "lost", "erase", "done"}
  \cup BindingFields \cup Observing

(* Steps of a handler whose authority was accepted. *)
PrivilegedSteps == {"validate", "act", "read", "check"} \cup BindingFields \cup Observing

FrameOf(op) ==
  [op: {op}, worker: WorkerId, boot: Nat, epoch: Nat, arg: Args(op),
   bootCurrent: BOOLEAN, epochCurrent: BOOLEAN]

(* The coordinator's variables hold what their C++ types allow, and the    *)
(* argument of a frame is one its handler can parse.                       *)
CoordTypeOK ==
  /\ RegistryTypeOK
  /\ StoreTypeOK
  /\ epoch \in 1 .. MaxEpoch
  /\ next_observation \in Nat \ {0}
  /\ conns \in [ConnId -> [worker: WorkerId, boot: 1 .. MaxBoot] \cup {Unregistered}]
  /\ link \in [ConnId -> {"up", "down"}]
  /\ pc \in [ConnId -> Steps]
  /\ frame = [c \in ConnId |-> frame[c]]
  /\ \A c \in ConnId :
       frame[c] = NoFrame \/ \E op \in AllOps : frame[c] \in FrameOf(op)
  /\ local \in [ConnId -> Nat]
  /\ told \in [ConnId -> 0 .. MaxEpoch]
  /\ frames \in 0 .. MaxFrames

(* A frame whose boot was already dead or replaced when it arrived never   *)
(* passes validate_authority, whatever registers, restarts or dies while   *)
(* its two unlocked loads are made.                                        *)
StaleNeverActs ==
  \A c \in ConnId : pc[c] \in PrivilegedSteps => frame[c].bootCurrent

(* The strengthening that makes StaleNeverActs inductive.  A claim that    *)
(* was stale on arrival stays stale, because boots are never reused; once  *)
(* the first load of validate_authority found the worker alive, it is      *)
(* because the worker carries another boot, which the second load sees.    *)
Claiming == {"epoch", "alive", "boot"} \cup PrivilegedSteps

ThreadOK(c) ==
  LET f == frame[c] IN
  /\ pc[c] \in {"lookup", "register", "restart", "record"} \cup Claiming => f # NoFrame
  /\ pc[c] = "record" => local[c] \in 1 .. next_boot - 1
  /\ pc[c] \in {"read"} \cup BindingFields => f.op = "bind" /\ f.arg # NoNode
  /\ pc[c] \in Claiming => f.boot \in 1 .. next_boot - 1
  /\ pc[c] \in Claiming /\ ~f.bootCurrent => ~ValidBoot(f.worker, f.boot)
  /\ pc[c] = "boot" /\ ~f.bootCurrent => workers[f.worker].boot # f.boot
  /\ pc[c] \in PrivilegedSteps => f.bootCurrent /\ Known(f.worker)
  /\ pc[c] = "lost" => link[c] = "down"

(* Every thread's view of its frame is one the handler's checks justify.   *)
ThreadsOK == \A c \in ConnId : ThreadOK(c)

(* A live worker is declared dead only by the thread of a connection that  *)
(* is down and that registered the boot the worker has now: the late loss  *)
(* of an old connection never takes down a restarted worker.               *)
LossFenced ==
  [][\A w \in WorkerId : workers[w].alive /\ ~workers'[w].alive =>
       \E c \in ConnId : /\ pc[c] = "lost" /\ link[c] = "down"
                         /\ conns[c] = [worker |-> w, boot |-> workers[w].boot]
    ]_coordVars

(* Observations are numbered in the order in which they reach the records: *)
(* within one boot a worker's number changes only to one past every number *)
(* on record, of any worker.  Taking a number and storing it are two       *)
(* steps, and two connections may report on one worker, or on two, at the  *)
(* same time; a restart may reset a record in between.                     *)
ObservationsOrdered ==
  [][\A w \in WorkerId : Known(w) /\ workers'[w].boot = workers[w].boot
       => \/ workers'[w].observation = workers[w].observation
          \/ \A v \in WorkerId : Known(v) => workers'[w].observation > workers[v].observation
    ]_coordVars

(* "Old authority never mutates fresh state" (README): a binding or an     *)
(* observation is stored only into the incarnation it was requested for.   *)
OldAuthorityInert ==
  [][\A c \in ConnId : pc[c] \in BindingFields \cup {"observe"} /\ pc'[c] # pc[c] =>
       workers[frame[c].worker].boot = frame[c].boot]_coordVars

(* coordinator.hpp: "fences every mutable operation against stale          *)
(* coordinator epoch": one sent by a peer that registered under an epoch   *)
(* already replaced when the frame arrived is not performed.               *)
EpochFenced ==
  \A c \in ConnId :
    /\ pc[c] \in PrivilegedSteps
    /\ frame[c].op \in MutableOps
    /\ frame[c].epoch # 0
    => frame[c].epochCurrent

(* A worker's binding generation never moves backwards within one boot.    *)
BindingNeverRollsBack ==
  [][\A w \in WorkerId : Known(w) /\ workers'[w].boot = workers[w].boot =>
       workers'[w].binding_generation >= workers[w].binding_generation]_coordVars
=============================================================================
