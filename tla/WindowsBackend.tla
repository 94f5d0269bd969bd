---------------------------- MODULE WindowsBackend ----------------------------
(* The Windows backend (src/windows_backend.cpp) against the operating      *)
(* system it calls: the processors and nodes the system reports, the memory *)
(* free on each node, and the group affinity of the calling thread.         *)
(* Numbers of the system (nodes, groups) are 0-based; ids are 1-based.      *)
EXTENDS Topology

CONSTANTS Machines,    \* the machines considered
          Frees        \* the memory free on each node number, at one time or another

ASSUME WindowsConstants == \A m \in Machines : m.allowed \subseteq Nat \X Nat

VARIABLES machine,     \* owner: the node number of each active <<group, bit>>;
                       \* numbers: the nodes reported; allowed: the processors
                       \* the process may use
          osFree,      \* the memory free on each node, by number, when last asked
          thread       \* GetThreadGroupAffinity of the calling thread

windowsVars == <<machine, osFree, thread>>

(* Each machine has active processors in groups 0..k and nodes that own them.  *)
Groups(m) == {x[1] : x \in DOMAIN m.owner}

WindowsInit ==
  /\ machine \in Machines
  /\ osFree = <<>>
  /\ \E x \in machine.allowed :
       thread = [group |-> x[1], mask |-> {y[2] : y \in {z \in machine.allowed : z[1] = x[1]}}]

(* The node register and processor masks of gather_numa_nodes: nodes in the *)
(* order in which the system reports them.                                  *)
GatherNumaNodes(order) ==
  [i \in DOMAIN order |->
     [id |-> order[i] + 1, bits |-> {x \in DOMAIN machine.owner : machine.owner[x] = order[i]}]]

(* The first reported node that has the bit, or the invalid id. *)
OwnerOf(reported, g, bit) ==
  LET having == {i \in DOMAIN reported : <<g, bit>> \in reported[i].bits}
  IN  IF having = {} THEN 0
      ELSE reported[CHOOSE i \in having : \A j \in having : i <= j].id

(* p.id packs group and bit, group first. *)
ProcessorId(g, bit) == (g + 1) * 2 * MaskBits + bit + 1

ActiveCount(g) == Cardinality({x \in DOMAIN machine.owner : x[1] = g})

(* For each group, bits 0 .. GetActiveProcessorCount - 1. *)
WindowsRegister(reported) ==
  LET bits == UNION {{<<g, b>> : b \in 0 .. ActiveCount(g) - 1} : g \in Groups(machine)}
  IN  Sorted({[id |-> ProcessorId(x[1], x[2]), group |-> x[1] + 1, index |-> x[2],
               node |-> OwnerOf(reported, x[1], x[2])] : x \in bits}, ById)

(* numa_available_memory passes the 1-based id on as the node number. *)
NumaAvailableMemory(id, free) == IF id \in DOMAIN free THEN {free[id]} ELSE {}

WithMemory(n, free, single) ==
  LET available == NumaAvailableMemory(n.id, free)
  IN  [n EXCEPT !.known = available # {},
                !.free = IF available = {} THEN @ ELSE CHOOSE a \in available : TRUE,
                !.capacity = IF single THEN machine.total ELSE @]

(* discover_host before it validates, for one order of the report and the   *)
(* memory free at the time.                                                 *)
WindowsHost(order, free) ==
  LET reported == GatherNumaNodes(order)
      h == SortCanonical(
             [processors |-> WindowsRegister(reported),
              nodes  |-> [i \in DOMAIN order |-> [id |-> reported[i].id, processors |-> <<>>,
                                                  capacity |-> 0, free |-> 0, known |-> FALSE]],
              groups |-> [i \in 1 .. Cardinality(Groups(machine)) |->
                            [id |-> i, processors |-> <<>>]]])
  IN  [h EXCEPT !.nodes = [i \in DOMAIN @ |-> WithMemory(@[i], free, Len(order) = 1)]]

WindowsReports(free) == {WindowsHost(order, free) : order \in Orders(machine.numbers)}

WindowsCurrent == [g \in {thread.group + 1} |-> thread.mask]

(* Faulty variant: the first group's mask is applied in the thread's group. *)
TargetStaying(set) ==
  [group |-> thread.group,
   mask |-> IF MaskFor(set, thread.group + 1) # {} THEN set[thread.group + 1] ELSE set[FirstGroup(set)]]

(* The GROUP_AFFINITY apply_thread_affinity asks for: the mask of the       *)
(* thread's group if the set has one, else the first group of the set.      *)
Target(set) ==
  IF MaskFor(set, thread.group + 1) # {}
    THEN [group |-> thread.group, mask |-> set[thread.group + 1]]
    ELSE [group |-> FirstGroup(set) - 1, mask |-> set[FirstGroup(set)]]

(* SetThreadGroupAffinity: every processor must be open to the process. *)
SetThreadGroupAffinity(target) ==
  target.mask # {} /\ \A b \in target.mask : <<target.group, b>> \in machine.allowed

WindowsApplies(set) == set = NoAffinity \/ SetThreadGroupAffinity(Target(set))

(* The thread's affinity after apply_thread_affinity(set). *)
WindowsApplied(set) ==
  IF set # NoAffinity /\ WindowsApplies(set) THEN Target(set) ELSE thread

(* The first node, by id, with a processor in the thread's group; 0 is also *)
(* what is returned when there is none.                                     *)
NodeOfCurrentThread(h) ==
  LET those == {n \in Range(h.nodes) :
                  \E p \in Range(h.processors) :
                    p.id \in Range(n.processors) /\ p.group = thread.group + 1}
  IN  IF those = {} THEN 0 ELSE (CHOOSE n \in those : \A o \in those : n.id <= o.id).id - 1

(* observed_node of allocate, by mode; Any and Interleaved carry no node. *)
WindowsObserved(mode, node, h) ==
  CASE mode = "named" -> node
    [] mode = "local" -> NodeOfCurrentThread(h) + 1
    [] OTHER -> 0
=============================================================================
