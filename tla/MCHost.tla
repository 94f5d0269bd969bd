------------------------------- MODULE MCHost -------------------------------
EXTENDS Host

(* Three processors in two groups, owned in every way by the nodes; number 1   *)
(* may be missing among the nodes, and bit 1 among the processors of a group.  *)
(* The process may be kept to group 0.                                       *)
Full == {<<0, 0>>, <<0, 1>>, <<1, 0>>}
Gap == {<<0, 0>>, <<0, 2>>}
Group0 == {<<0, 0>>, <<0, 1>>}

Machine(active, numbers, alloweds) ==
  {[owner |-> o, numbers |-> numbers, allowed |-> a, total |-> 9] :
     o \in [active -> numbers], a \in alloweds}

MCMachines ==
  Machine(Full, {0}, {Full}) \cup Machine(Full, {0, 1}, {Full, Group0})
    \cup Machine(Full, {0, 2}, {Group0}) \cup Machine(Gap, {0}, {Gap})

MCFrees == {[n \in 0 .. 2 |-> n + 1], [n \in 0 .. 2 |-> 3 - n]}

(* Group capacities: none given, one that splits a node, one above the mask. *)
MCConfigs ==
  {[nodes |-> 2, perNode |-> 2, groupCap |-> c[1], capacities |-> c[2], local |-> 1,
    expose |-> TRUE] : c \in {<<0, <<>>>>, <<3, <<2, 3>>>>, <<5, <<3>>>>}}

MCSpreads == {<<>>, <<2>>}
=============================================================================
