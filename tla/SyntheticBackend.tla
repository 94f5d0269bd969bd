--------------------------- MODULE SyntheticBackend ---------------------------
(* The synthetic backend (src/synthetic_backend.cpp): the topology it makes  *)
(* up from its configuration, and the bytes it books on each node.          *)
EXTENDS Topology, FiniteSetsExt

CONSTANTS Configs,          \* the configurations considered
          DefaultCapacity,  \* kDefaultNodeCapacity
          ByteWord,         \* capacities and usage are counted modulo this
          AllocSizes,       \* the sizes asked for
          Spreads,          \* the interleave_nodes asked for
          MaxGrants         \* bound on the allocations of one behaviour

(* Every capacity fits the word; the local node is configured, or unknown.  *)
ASSUME SyntheticConstants ==
  /\ ByteWord \in Nat /\ DefaultCapacity \in 0 .. ByteWord - 1
  /\ AllocSizes \subseteq Nat /\ MaxGrants \in Nat
  /\ \A c \in Configs : /\ c.nodes \in Nat \ {0} /\ c.local \in 0 .. c.nodes
                        /\ \A n \in DOMAIN c.capacities : c.capacities[n] \in 0 .. ByteWord - 1
  /\ \A s \in Spreads : DOMAIN s = 1 .. Len(s) /\ Len(s) \in Nat

VARIABLES config,      \* SyntheticConfig: nodes, perNode, groupCap, capacities,
                       \* local, expose
          used,        \* used_, by node id (an absent entry counts as 0)
          regionNode,  \* region_node_
          grants       \* every AllocationResult handed out; region id = position

syntheticVars == <<config, used, regionNode, grants>>

(* Node ids a caller may name: the configured ones and one that is unknown. *)
SyntheticId(c) == 1 .. c.nodes + 1

SyntheticInit ==
  /\ config \in Configs
  /\ used = [n \in SyntheticId(config) |-> 0]
  /\ regionNode = <<>>
  /\ grants = <<>>

CapacityFor(n) ==
  IF n \in DOMAIN config.capacities THEN config.capacities[n] ELSE DefaultCapacity

GroupCap == Max({1, config.groupCap})

(* Processor number g of the host, counted over all nodes from 0. *)
SyntheticProcessor(g) ==
  [id |-> g + 1, group |-> g \div GroupCap + 1, index |-> g % GroupCap,
   node |-> g \div config.perNode + 1]

(* discover_host before it validates; the groups join after sort_canonical. *)
SyntheticHost ==
  LET register == [i \in 1 .. config.nodes * config.perNode |-> SyntheticProcessor(i - 1)]
      h == SortCanonical([NoTopology EXCEPT
             !.processors = register,
             !.nodes = [n \in 1 .. config.nodes |->
                          [id |-> n, processors |-> <<>>, capacity |-> CapacityFor(n),
                           free |-> CapacityFor(n), known |-> config.expose]]])
      ids == Sorted({p.group : p \in Range(register)}, <)
  IN  [h EXCEPT !.groups = [i \in DOMAIN ids |->
                              [id |-> ids[i], processors |-> Members(register, "group", ids[i])]]]

(* No thread is moved: the answer only says whether the set is empty. *)
SyntheticApplies(set) == set # NoAffinity

Remaining(n) == (CapacityFor(n) - used[n]) % ByteWord

(* The node for bytes, or 0: the target, else the lowest node with room.     *)
ChooseNodeFor(bytes, target, fallback) ==
  LET room == {n \in 1 .. config.nodes : Remaining(n) >= bytes}
  IN  IF target # 0 /\ Remaining(target) >= bytes THEN target
      ELSE IF (target # 0 /\ ~fallback) \/ room = {} THEN 0 ELSE Min(room)

(* Target node and whether another will do, by placement mode. *)
TargetNode(mode, node) ==
  CASE mode \in {"required", "preferred"} -> node
    [] mode = "local" -> config.local + 1
    [] OTHER -> 0

Grant(bytes, node, spread) ==
  /\ grants' = Append(grants, [bytes |-> bytes, node |-> node, spread |-> spread])
  /\ regionNode' = [i \in DOMAIN regionNode \cup {Len(grants) + 1} |->
                      IF i \in DOMAIN regionNode THEN regionNode[i] ELSE node]
  /\ UNCHANGED config

(* allocate, on one node; it throws where no node is chosen. *)
Allocate(mode, node, bytes) ==
  LET chosen == ChooseNodeFor(bytes, TargetNode(mode, node), mode # "required")
  IN  /\ chosen # 0
      /\ used' = [used EXCEPT ![chosen] = (@ + bytes) % ByteWord]
      /\ Grant(bytes, chosen, {})

(* allocate_interleaved: one chunk on every listed node, or on all of them; *)
(* the region is recorded on the first.                                     *)
AllocateInterleaved(nodes, bytes) ==
  LET on == IF nodes = <<>> THEN [i \in 1 .. config.nodes |-> i] ELSE nodes
      chunk == Max({1, bytes \div Len(on)})
      times(n) == Cardinality({i \in DOMAIN on : on[i] = n})
  IN  /\ Range(on) \subseteq DOMAIN used
      /\ used' = [n \in DOMAIN used |-> (used[n] + chunk * times(n)) % ByteWord]
      /\ Grant(bytes, on[1], Range(on))

(* Faulty variant: the region's node stays on record. *)
FreeForgetting(i) ==
  /\ i \in DOMAIN grants
  /\ IF i \in DOMAIN regionNode
       THEN used' = [used EXCEPT ![regionNode[i]] = Max({0, @ - grants[i].bytes})]
       ELSE UNCHANGED used
  /\ UNCHANGED <<config, grants, regionNode>>

(* free of a result handed out before: nothing for a region it forgot. *)
Free(i) ==
  /\ i \in DOMAIN grants
  /\ IF i \in DOMAIN regionNode
       THEN /\ used' = [used EXCEPT ![regionNode[i]] = Max({0, @ - grants[i].bytes})]
            /\ regionNode' = [j \in DOMAIN regionNode \ {i} |-> regionNode[j]]
       ELSE UNCHANGED <<used, regionNode>>
  /\ UNCHANGED <<config, grants>>

SyntheticNext ==
  \/ /\ Len(grants) < MaxGrants
     /\ \E bytes \in AllocSizes :
          \/ \E mode \in {"required", "preferred", "local", "any"}, node \in SyntheticId(config) :
               Allocate(mode, node, bytes)
          \/ \E nodes \in Spreads : AllocateInterleaved(nodes, bytes)
  \/ \E i \in 1 .. MaxGrants : Free(i)

(* Nodes some interleaved allocation has put a chunk on. *)
Interleaved == UNION {g.spread : g \in Range(grants)}

Booked(n) ==
  SumFunctionOnSet([i \in DOMAIN grants |-> grants[i].bytes],
                   {i \in DOMAIN regionNode : regionNode[i] = n})
=============================================================================
