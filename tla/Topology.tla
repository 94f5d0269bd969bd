------------------------------- MODULE Topology -------------------------------
(* The host topology a backend discovers (include/numafabric/topology,      *)
(* src/topology_impl.cpp) and the processor-group-aware affinity sets built *)
(* from it (include/numafabric/affinity/affinity_set.hpp), as operators.    *)
(*                                                                          *)
(* A topology is a record of three sequences: the flat processor register,  *)
(* the nodes and the groups.  Ids are 1-based and 0 is the invalid id.      *)
EXTENDS Integers, FiniteSets, Sequences, Functions, TLC

CONSTANT MaskBits      \* AffinitySet::max_group_mask_bits

(* The value of Runtime::topo_ before the first discover: HostTopology{}.   *)
NoTopology == [processors |-> <<>>, nodes |-> <<>>, groups |-> <<>>]

ById(a, b) == a.id < b.id

(* The sequences that list every element of S once, and the sorted one. *)
Orders(S) == Injection(1 .. Cardinality(S), S)

Sorted(S, Precedes(_, _)) == SortSeq(CHOOSE s \in Orders(S) : TRUE, Precedes)

(* The ids of the register's processors whose field holds id, in its order. *)
Members(register, field, id) ==
  LET those == SelectSeq(register, LAMBDA p : p[field] = id)
  IN  [i \in DOMAIN those |-> those[i].id]

(* s with every entry's member list rebuilt from the register. *)
Rebuilt(s, register, field) ==
  [i \in DOMAIN s |-> [s[i] EXCEPT !.processors = Members(register, field, s[i].id)]]

(* Faulty variant: nodes and groups left in the order they were reported. *)
SortCanonicalRegister(h) ==
  LET register == SortSeq(h.processors, ById)
  IN  [processors |-> register,
       nodes  |-> Rebuilt(h.nodes, register, "node"),
       groups |-> Rebuilt(h.groups, register, "group")]

(* HostTopology::sort_canonical. *)
SortCanonical(h) ==
  LET register == SortSeq(h.processors, ById)
  IN  [processors |-> register,
       nodes  |-> Rebuilt(SortSeq(h.nodes, ById), register, "node"),
       groups |-> Rebuilt(SortSeq(h.groups, ById), register, "group")]

FindNode(h, id) == \E n \in Range(h.nodes) : n.id = id

FindGroup(h, id) == \E g \in Range(h.groups) : g.id = id

(* The tests of validate on the ids alone; by itself a faulty variant, that  *)
(* does not ask whether a processor's node exists.                          *)
ValidateIds(h) ==
  /\ \A i, j \in DOMAIN h.processors :
       h.processors[i].id = h.processors[j].id => h.processors[i].node = h.processors[j].node
  /\ \A p \in Range(h.processors) : FindGroup(h, p.group)
  /\ \A i, j \in DOMAIN h.nodes : h.nodes[i].id # 0 /\ (h.nodes[i].id = h.nodes[j].id => i = j)

(* HostTopology::validate returns, rather than throwing. *)
Validate(h) ==
  /\ \A p \in Range(h.processors) : FindNode(h, p.node)
  /\ ValidateIds(h)

(* What semantic_digest feeds to the hash, in its order.  The hash itself    *)
(* is taken to be injective.  A node's free memory is not part of it.       *)
SemanticDigest(h) ==
  << h.processors,
     [i \in DOMAIN h.nodes |-> << h.nodes[i].id, h.nodes[i].capacity, h.nodes[i].known,
                                  h.nodes[i].processors >>],
     h.groups >>

-----------------------------------------------------------------------------
(* An AffinitySet in normal form: one mask per group, by group id. *)
NoAffinity == [g \in {} |-> {}]

MaskFor(set, g) == IF g \in DOMAIN set THEN set[g] ELSE {}

(* masks().front() of the normalised set. *)
FirstGroup(set) == CHOOSE g \in DOMAIN set : \A h \in DOMAIN set : g <= h

(* The set bind_worker builds with add_processor, for the processors of node. *)
NodeAffinity(h, node) ==
  LET those == {p \in Range(h.processors) : p.node = node}
  IN  [g \in {p.group : p \in those} |-> {p.index : p \in {q \in those : q.group = g}}]

(* add_processor throws on an index the mask has no bit for. *)
Representable(set) == \A g \in DOMAIN set : \A i \in set[g] : i < MaskBits
=============================================================================
