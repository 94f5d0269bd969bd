--------------------------------- MODULE Host ---------------------------------
(* A runtime over one backend: discovery into Runtime::topo_, bind_worker,   *)
(* the two scope guards that bind a thread for a while (ScopedThreadBinding  *)
(* in affinity/worker.hpp, ScopedAffinityApply in runtime.cpp), and the      *)
(* backend's allocate and free.                                             *)
(*                                                                          *)
(* Scopes are objects of nested lifetimes: the last one built is the first   *)
(* destroyed.  A guard may be returned from the block that built it, which   *)
(* moves it to an object that outlives the block.  A call that throws        *)
(* changes nothing and is no step.                                          *)
EXTENDS WindowsBackend, SyntheticBackend

CONSTANTS Unused,      \* the state of the backend the runtime does not have
          MaxScopes    \* bound on the guards alive at a time

ASSUME HostConstants == Unused \notin Machines /\ MaxScopes \in Nat

VARIABLES topo,        \* Runtime::topo_
          worker,      \* node, requested and current affinity of the bound worker
          scopes,      \* the guards alive, outermost first
          base         \* the affinity bound outside every guard: what must come back

runtimeVars == <<topo, worker, scopes, base>>
hostVars == <<windowsVars, syntheticVars, runtimeVars>>

Windows == machine # Unused

Unbound == [node |-> 0, requested |-> NoAffinity, current |-> NoAffinity]

HostInit ==
  /\ \/ WindowsInit /\ config = Unused /\ used = Unused /\ regionNode = Unused /\ grants = Unused
     \/ SyntheticInit /\ machine = Unused /\ osFree = Unused /\ thread = Unused
  /\ topo = NoTopology
  /\ worker = Unbound
  /\ scopes = <<>>
  /\ base = thread

-----------------------------------------------------------------------------
(* The virtual calls of the backend. *)
Applies(set) == IF Windows THEN WindowsApplies(set) ELSE SyntheticApplies(set)

Apply(set) ==
  /\ thread' = IF Windows THEN WindowsApplied(set) ELSE thread
  /\ UNCHANGED <<machine, osFree, syntheticVars>>

Quiet == UNCHANGED <<windowsVars, syntheticVars>>

(* Runtime::discover: the backend validates what it found before it returns. *)
(* The system reports the nodes in any order and the memory free just then.  *)
Found(h) == Validate(h) /\ topo' = h

Discover ==
  /\ \/ Windows /\ \E f \in Frees :
                       /\ osFree' = [n \in machine.numbers |-> f[n]]
                       /\ \E h \in WindowsReports(osFree') : Found(h)
     \/ ~Windows /\ Found(SyntheticHost) /\ UNCHANGED osFree
  /\ UNCHANGED <<machine, thread, syntheticVars, worker, scopes, base>>

(* A guard that will change the affinity when it goes. *)
Live(s) == s.active /\ s.original # NoAffinity

NoneLive == \A i \in DOMAIN scopes : ~Live(scopes[i])

(* Runtime::bind_worker for a worker of current boot: recorded whether or    *)
(* not the affinity was applied, and never taken back.                      *)
BindWorker(node, apply) ==
  LET set == NodeAffinity(topo, node)
  IN  /\ FindNode(topo, node) /\ Representable(set)
      /\ Apply(IF apply THEN set ELSE NoAffinity)
      /\ worker' = [node |-> node, requested |-> set, current |-> set]
      /\ base' = IF NoneLive THEN thread' ELSE base
      /\ UNCHANGED <<topo, scopes>>

(* The constructors: capture, then apply (the synthetic backend has no thread *)
(* to move and guards over it do nothing).  ScopedThreadBinding throws when   *)
(* the set is refused; ScopedAffinityApply stays, and will not restore.     *)
OpenScope(node, movable) ==
  LET set == NodeAffinity(topo, node)
  IN  /\ Windows /\ Len(scopes) < MaxScopes
      /\ FindNode(topo, node) /\ Representable(set)
      /\ Apply(set)
      /\ scopes' = IF Applies(set) \/ ~movable
                     THEN Append(scopes, [original |-> WindowsCurrent, active |-> Applies(set),
                                          movable |-> movable])
                     ELSE scopes
      /\ UNCHANGED <<topo, worker, base>>

(* Faulty variant: a guard that moved away or restored early restores too. *)
CloseScopeAlways ==
  /\ scopes # <<>>
  /\ Apply(scopes[Len(scopes)].original)
  /\ scopes' = SubSeq(scopes, 1, Len(scopes) - 1)
  /\ UNCHANGED <<topo, worker, base>>

(* The destructor of the innermost guard. *)
CloseScope ==
  /\ scopes # <<>>
  /\ LET last == scopes[Len(scopes)]
     IN  Apply(IF last.active THEN last.original ELSE NoAffinity)
  /\ scopes' = SubSeq(scopes, 1, Len(scopes) - 1)
  /\ UNCHANGED <<topo, worker, base>>

(* Guard i is returned from its block: the object it is moved to outlives    *)
(* it, and it keeps active_ with the empty set the move left behind.        *)
MoveScope(i) ==
  /\ Len(scopes) < MaxScopes
  /\ scopes[i].movable
  /\ LET left == [scopes EXCEPT ![i].original = NoAffinity]
     IN  scopes' = SubSeq(left, 1, i - 1) \o <<scopes[i]>> \o SubSeq(left, i, Len(left))
  /\ Quiet /\ UNCHANGED <<topo, worker, base>>

(* restore_now, on the innermost guard that is still to restore. *)
RestoreNow(i) ==
  /\ scopes[i].movable /\ scopes[i].active
  /\ \A j \in i + 1 .. Len(scopes) : ~Live(scopes[j])
  /\ Apply(scopes[i].original)
  /\ scopes' = [scopes EXCEPT ![i].active = FALSE]
  /\ UNCHANGED <<topo, worker, base>>

AnyNode == {n.id : n \in Range(topo.nodes)}

ScopeStep ==
  \/ \E node \in AnyNode, movable \in BOOLEAN : OpenScope(node, movable)
  \/ CloseScope
  \/ \E i \in DOMAIN scopes : MoveScope(i) \/ RestoreNow(i)

HostNext ==
  \/ Discover
  \/ \E node \in AnyNode, apply \in BOOLEAN : BindWorker(node, apply)
  \/ ScopeStep
  \/ ~Windows /\ SyntheticNext /\ UNCHANGED <<windowsVars, topo, worker, scopes, base>>

HostSpec == HostInit /\ [][HostNext]_hostVars

-----------------------------------------------------------------------------
(* The processors that exist, each with its group, index and node id. *)
ActualProcessors ==
  IF Windows
    THEN {<<x[1] + 1, x[2], machine.owner[x] + 1>> : x \in DOMAIN machine.owner}
    ELSE {<<(g \div GroupCap) + 1, g % GroupCap, (g \div config.perNode) + 1>> :
            g \in 0 .. config.nodes * config.perNode - 1}

(* s holds each processor id of the register in exactly one member list, in  *)
(* the entry the processor names.                                           *)
Partitions(s, field) ==
  \A p \in Range(topo.processors) : \A i \in DOMAIN s :
    p.id \in Range(s[i].processors) <=> s[i].id = p[field]

(* A discovery that is accepted is exact: the register has every active      *)
(* processor of the machine, once, under the node that owns it, and the      *)
(* member lists of nodes and groups are the register's.  A machine whose     *)
(* active bits leave gaps is refused, never misreported: discover_host        *)
(* numbers the bits of a group from 0 and validate rejects a processor no    *)
(* node owns.                                                               *)
DiscoveryExact ==
  topo # NoTopology =>
    /\ {<<p.group, p.index, p.node>> : p \in Range(topo.processors)} = ActualProcessors
    /\ Cardinality({p.id : p \in Range(topo.processors)}) = Cardinality(ActualProcessors)
    /\ Partitions(topo.nodes, "node") /\ Partitions(topo.groups, "group")

(* Discovering a host again never changes the digest of its snapshot,        *)
(* whatever the order in which the system reports the nodes and however much *)
(* memory came free or was taken in between.                                *)
DigestStable ==
  [][topo # NoTopology => SemanticDigest(topo') = SemanticDigest(topo)]_hostVars

(* When no guard is left to restore, the thread has the affinity it was last  *)
(* given for good, that is, by a bind outside every guard (a bind inside one  *)
(* is undone with it): nested scopes, early restore_now, a guard returned    *)
(* from its block and a refused set included.                               *)
AffinityRestored == NoneLive => thread = base

(* The thread is confined to processors of the node, as the system sees them. *)
ConfinedTo(node) ==
  \A b \in thread.mask : machine.owner[<<thread.group, b>>] = node - 1

(* A binding reported as applied confines the thread to processors of the     *)
(* node it names, if the node has any: whichever group the thread was in,    *)
(* and whether the binding is persistent or scoped.                         *)
BoundWithinNode ==
  [][\A node \in AnyNode :
       /\ Windows /\ (BindWorker(node, TRUE) \/ OpenScope(node, TRUE))
       /\ Applies(NodeAffinity(topo, node)) /\ NodeAffinity(topo, node) # NoAffinity
       => ConfinedTo(node)']_hostVars

(* What the synthetic backend books on a node is what its live regions there  *)
(* hold, and fits the node, as long as no interleaved allocation touched the  *)
(* node: freeing a result twice, fallback and an unknown node included.     *)
SyntheticExact ==
  ~Windows =>
    \A n \in SyntheticId(config) \ Interleaved :
      used[n] = Booked(n) /\ used[n] <= CapacityFor(n)

-----------------------------------------------------------------------------
(* Statements of the documentation that the code does not keep. *)

(* The affinity recorded as a worker's current one is the thread's, not the   *)
(* one requested (README: "Requested affinity is modeled separately from     *)
(* actual affinity").                                                       *)
CurrentAffinityActual ==
  [][Windows /\ worker' # worker => worker'.current = WindowsCurrent']_hostVars

(* Free memory recorded for a node is that node's (topology.hpp: "only set   *)
(* when genuinely measured").                                               *)
FreeMemoryOwn ==
  Windows => \A n \in Range(topo.nodes) : n.known => n.free = osFree[n.id - 1]

(* A LOCAL allocation names a node the thread may run on (enums.hpp: "prefer  *)
(* the node-local memory").                                                 *)
LocalIsLocal ==
  Windows /\ topo # NoTopology =>
    \E b \in thread.mask :
      machine.owner[<<thread.group, b>>] = WindowsObserved("local", 0, topo) - 1

(* With every region freed nothing stays booked (synthetic_backend.cpp:      *)
(* "record usage & node for later free").                                   *)
UsageReturned ==
  ~Windows /\ regionNode = <<>> => \A n \in DOMAIN used : used[n] = 0
=============================================================================
