---------------------------- MODULE WorkerRegistry ---------------------------
(***************************************************************************)
(* The incarnation-aware worker registry (affinity/worker.hpp,             *)
(* worker_registry.cpp).                                                   *)
(*                                                                         *)
(* A logical worker keeps its WorkerId across restarts; each registration  *)
(* brands it with a boot id taken from one counter shared by all workers.  *)
(* The registry's own operations run under its mutex and are atomic.       *)
(* find_mut hands out a pointer through which the runtime writes bindings  *)
(* and observations without that mutex, one field at a time: the Write     *)
(* actions are those stores, and say nothing about who may perform them or *)
(* when.                                                                   *)
(***************************************************************************)
EXTENDS Integers

CONSTANTS
  WorkerId,       \* valid worker ids
  BindNode,       \* nodes a worker can be bound to
  NoNode,         \* NumaNodeId::invalid()
  MaxBoot,        \* bound: the last boot id the model hands out
  Generation      \* the generations bindings and observations may carry

ASSUME RegistryConstants ==
  /\ NoNode \notin BindNode
  /\ MaxBoot \in Nat
  /\ Generation \subseteq Nat

VARIABLES
  workers,    \* workers_: id -> worker
  next_boot   \* next_boot_

registryVars == <<workers, next_boot>>

(* An affinity set is known by the node whose processors it holds; NoNode  *)
(* stands for the empty one.  binding_id is stored and never looked at;    *)
(* placement and policy fields are only ever reset.                        *)
Worker ==
  [boot: 1 .. MaxBoot, incarnation: Nat, alive: BOOLEAN, bound: BOOLEAN,
   node: BindNode \cup {NoNode}, requested: BindNode \cup {NoNode},
   current: BindNode \cup {NoNode}, binding_generation: Nat, observation: Nat]

NoWorker == [boot |-> 0, alive |-> FALSE]

Known(w) == workers[w].boot # 0

(* The record of a new incarnation: live, unbound, generations restarted. *)
FreshWorker(boot, incarnation) ==
  [boot |-> boot, incarnation |-> incarnation, alive |-> TRUE,
   bound |-> FALSE, node |-> NoNode, requested |-> NoNode, current |-> NoNode,
   binding_generation |-> 0, observation |-> 0]

(* Faulty variant: counting starts at 0, the invalid boot id. *)
RegistryInitFromZero ==
  /\ workers = [w \in WorkerId |-> NoWorker]
  /\ next_boot = 0

RegistryInit ==
  /\ workers = [w \in WorkerId |-> NoWorker]
  /\ next_boot = 1

(* The next boot id, marked used; both kinds of registration take one. *)
TakeBoot ==
  /\ next_boot <= MaxBoot
  /\ next_boot' = next_boot + 1

(* A second register_worker of a known id throws and changes nothing. *)
RegisterWorker(w) ==
  /\ ~Known(w)
  /\ TakeBoot
  /\ workers' = [workers EXCEPT ![w] = FreshWorker(next_boot, 1)]

(* Faulty variant: the incarnation not advanced. *)
RestartSameIncarnation(w) ==
  /\ Known(w)
  /\ TakeBoot
  /\ workers' =
       [workers EXCEPT ![w] = FreshWorker(next_boot, workers[w].incarnation)]

RestartWorker(w) ==
  /\ Known(w)
  /\ TakeBoot
  /\ workers' =
       [workers EXCEPT ![w] = FreshWorker(next_boot, workers[w].incarnation + 1)]

(* Faulty variant: the boot is not compared. *)
MarkDeadUnfenced(w, boot) ==
  /\ workers' = IF Known(w) THEN [workers EXCEPT ![w].alive = FALSE] ELSE workers
  /\ UNCHANGED next_boot

(* mark_dead is fenced: it spares a worker that carries another boot. *)
MarkDead(w, boot) ==
  /\ workers' = IF Known(w) /\ workers[w].boot = boot
                THEN [workers EXCEPT ![w].alive = FALSE]
                ELSE workers
  /\ UNCHANGED next_boot

(* Faulty variant: the boot counter stays where it was. *)
RestoreWorkerOnly(w, saved) ==
  /\ ~workers[w].alive
  /\ workers' = [workers EXCEPT ![w] = saved]
  /\ UNCHANGED next_boot

(* restore: a live worker is kept; a boot at or past the counter moves it. *)
RestoreWorker(w, saved) ==
  /\ ~workers[w].alive
  /\ workers' = [workers EXCEPT ![w] = saved]
  /\ next_boot' = IF saved.boot >= next_boot THEN saved.boot + 1 ELSE next_boot

(* validate_boot *)
ValidBoot(w, boot) == Known(w) /\ workers[w].alive /\ workers[w].boot = boot

-----------------------------------------------------------------------------
(* Stores through the pointer of find_mut: each of the fields of a binding *)
(* by itself, in the order bind_worker writes them.                        *)
BindingFields == {"generation", "node", "bound", "requested", "current"}

WithField(r, field, node, generation) ==
  CASE field = "generation" -> [r EXCEPT !.binding_generation = generation]
    [] field = "node"       -> [r EXCEPT !.node = node]
    [] field = "bound"      -> [r EXCEPT !.bound = TRUE]
    [] field = "requested"  -> [r EXCEPT !.requested = node]
    [] field = "current"    -> [r EXCEPT !.current = node]

WriteBinding(w, field, node, generation) ==
  /\ Known(w)
  /\ workers' = [workers EXCEPT ![w] = WithField(workers[w], field, node, generation)]
  /\ UNCHANGED next_boot

WriteObservation(w, generation) ==
  /\ Known(w)
  /\ workers' = [workers EXCEPT ![w].observation = generation]
  /\ UNCHANGED next_boot

RegistryNext ==
  \E w \in WorkerId :
    \/ RegisterWorker(w)
    \/ RestartWorker(w)
    \/ \E boot \in 1 .. next_boot - 1 : MarkDead(w, boot)
    \/ \E field \in BindingFields, node \in BindNode, g \in Generation :
         WriteBinding(w, field, node, g)
    \/ \E g \in Generation : WriteObservation(w, g)

RegistrySpec == RegistryInit /\ [][RegistryNext]_registryVars

-----------------------------------------------------------------------------
(* The registry's variables hold what their C++ types allow. *)
RegistryTypeOK ==
  /\ workers \in [WorkerId -> Worker \cup {NoWorker}]
  /\ next_boot \in 1 .. MaxBoot + 1

(* A boot id names one incarnation of one worker: every boot in the table  *)
(* was handed out, and no two workers carry the same one, so validate_boot *)
(* never accepts the boot of another worker.                               *)
BootsDistinct ==
  \A w \in WorkerId : Known(w) =>
    /\ workers[w].boot < next_boot
    /\ \A v \in WorkerId \ {w} : workers[v].boot # workers[w].boot

(* Between two states of a worker: the boot only grows, it grows exactly   *)
(* when the incarnation does, and a boot that is dead or was replaced      *)
(* never becomes valid again (a restarted worker "does not inherit         *)
(* authority").                                                            *)
BootsAreFences ==
  [][\A w \in WorkerId : Known(w) =>
       /\ workers'[w].boot >= workers[w].boot
       /\ workers'[w].incarnation - workers[w].incarnation
            = IF workers'[w].boot = workers[w].boot THEN 0 ELSE 1
       /\ \A boot \in 1 .. next_boot - 1 : ValidBoot(w, boot)' => ValidBoot(w, boot)
    ]_registryVars
=============================================================================
