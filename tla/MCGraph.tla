-------------------------------- MODULE MCGraph --------------------------------
(***************************************************************************)
(* Small graphs: the groups of operations that programs use.               *)
(***************************************************************************)
EXTENDS Graph

Calls(ops, n, m) ==
    [calls |-> {"addNode", "addArc"} \cup ops, nodes |-> 1..n, arcs |-> 1..m]

\* With four arcs of one cost, a node with two children may have a left subtree of
\* two nodes, in which the search by comparison comes to the wrong one.
MCPrograms ==
    {Calls({"removeArc", "foreach", "arcs"}, 2, 3),
     Calls({"removeNode", "foreach", "nodes"}, 2, 3),
     Calls({"removeNode", "foreach", "arcs", "freeGraph"}, 2, 3),
     Calls({"setCost", "removeArc"}, 2, 3),
     Calls({"setArcOrdering", "removeArc"}, 2, 3),
     Calls({"setArcOrdering", "removeArc"}, 1, 4),
     Calls({"setNodeOrdering", "removeNode"}, 2, 3)}
=============================================================================
