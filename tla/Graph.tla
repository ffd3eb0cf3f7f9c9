-------------------------------- MODULE Graph ---------------------------------
(***************************************************************************)
(* The graph of graph.c: its sets of nodes and arcs, the arcs of each      *)
(* node, the map of names, and the foreach loops that run over the sets    *)
(* while nodes and arcs are added and removed (foreach.c, iterator.c and   *)
(* the iterator of set.c).                                                 *)
(*                                                                         *)
(* A loop has taken the cells of the tree when it began and reads the key  *)
(* of one at each step.  The program has one foreach variable; it does not *)
(* use nodes and arcs that it has removed.                                 *)
(*                                                                         *)
(* A set (set.c) is what its users see while they iterate and change it:   *)
(* the nodes of its tree in order, each a block of memory (a cell) with    *)
(* the key it holds now.  Module BST has the tree itself; here the shape   *)
(* of the tree is left open, and what depends on it is a choice.           *)
(***************************************************************************)
EXTENDS Integers, Sequences, SequencesExt, FiniteSets

CONSTANTS
    Names,          \* names of nodes, integers in the order of the strings
    Costs,          \* costs of arcs
    MaxNodes,       \* bound: nodes made
    MaxArcs,        \* bound: arcs made
    Programs        \* programs: the operations one calls, and the addresses that
                    \* nodes and arcs get in it

ASSUME GraphAssumption == /\ Names \subseteq Int /\ Costs \subseteq Int
                          /\ MaxNodes \in Nat /\ MaxArcs \in Nat
                          /\ Programs \subseteq [calls : SUBSET STRING,
                                                nodes : SUBSET (1..MaxNodes),
                                                arcs : SUBSET (1..MaxArcs)]

VARIABLES
    program,        \* the program that runs
    status,         \* "ok"; "error" thrown to the program; "undefined" after
                    \* a read of freed memory; "freed"
    nodes,          \* the blocks of nodes: name, set of arcs, its comparison
    arcs,           \* the blocks of arcs: start, end, cost
    nodeSet,        \* g->nodes
    arcSet,         \* g->arcs
    nameMap,        \* g->nameMap
    nodeCmpFn,      \* g->nodeCmpFn
    arcCmpFn,       \* g->arcCmpFn
    loop,           \* the foreach of the program
    removal,        \* the foreach of a removeNode in progress
    unused,         \* addresses that blocks may still get, each once
    upset,          \* history: an order was changed under the elements, or does
                    \* not tell them apart, by what the program set
    reckless        \* history: an element was removed that did not stand before
                    \* all those that the loop had yet to come to

blockVars == <<nodes, arcs>>
setVars == <<nodeSet, arcSet, nameMap, nodeCmpFn, arcCmpFn>>
vars == <<program, status, blockVars, setVars, loop, removal, unused, upset, reckless>>

------------------------------------------------------------------------------
(* Sets.  k1 -- k2 is the comparison of a set.  It may order the keys        *)
(* otherwise than they stand in the tree, since neither a new comparison     *)
(* function nor a change inside the elements moves the nodes.                *)
Entry(cell, key) == [cell |-> cell, key |-> key]
Keys(s) == {s[i].key : i \in 1..Len(s)}
Cells(s) == {s[i].cell : i \in 1..Len(s)}
KeySeq(s) == [i \in 1..Len(s) |-> s[i].key]
CellSeq(s) == [i \in 1..Len(s) |-> s[i].cell]

\* The keys stand in the order that -- gives them, and it tells them apart.
Ordered(s, _ -- _) ==
    \A i, j \in 1..Len(s) : i < j => s[i].key -- s[j].key < 0

\* findTreeNode: the search for k ends at a node whose key compares equal, or
\* between two neighbours that compare less and greater.
Hits(s, k, _ -- _) == {i \in 1..Len(s) : k -- s[i].key = 0}
Gaps(s, k, _ -- _) ==
    {j \in 0..Len(s) : /\ j = 0 \/ k -- s[j].key > 0
                       /\ j = Len(s) \/ k -- s[j + 1].key < 0}

FreshCell(s) == CHOOSE c \in 1..Len(s) + 1 : c \notin Cells(s)

\* addSet: what the set may be after it.
Added(s, k, _ -- _) ==
    (IF Hits(s, k, --) # {} THEN {s} ELSE {})
    \cup {InsertAt(s, j + 1, Entry(FreshCell(s), k)) : j \in Gaps(s, k, --)}

\* removeTargetNode: a node with two children gets the key of the node before
\* it, which removeTreeNode then takes out of its left subtree, by comparison.
\* The search may come to another node, which may have two children itself, or
\* to none.  The places that one removal comes to, from i to the left:
Descends(s, i, places, _ -- _) ==
    /\ i \in places
    /\ \A p \in places \ {i} : \E q \in places :
           /\ p < q /\ s[q - 1].key -- s[p].key = 0
           /\ \A other \in places : other <= p \/ other >= q

\* Those in moved, which have two children, get the key of the node before them.
Move(s, moved) ==
    [p \in 1..Len(s) |-> IF p \in moved THEN Entry(s[p].cell, s[p - 1].key) ELSE s[p]]
TwoChildren(s, moved, places) == \A p \in moved : p > 1 /\ p < Len(s) /\ p + 1 \notin places
Misses(s, p, _ -- _) == \E q \in 1..p - 1 : s[p - 1].key -- s[q].key < 0

\* The last of them is freed; or it got another key and no node is freed.
Unlinked(s, i, _ -- _) ==
    LET removals == {places \in SUBSET (1..i) : Descends(s, i, places, --)}
    IN {RemoveAt(Move(s, places \ {Min(places)}), Min(places)) :
            places \in {r \in removals : TwoChildren(s, r \ {Min(r)}, r)}}
       \cup {Move(s, places) :
            places \in {r \in removals : TwoChildren(s, r, r) /\ Misses(s, Min(r), --)}}

\* removeSet: what the set may be after it.
Removed(s, k, _ -- _) ==
    (IF Gaps(s, k, --) # {} THEN {s} ELSE {})
    \cup UNION {Unlinked(s, i, --) : i \in Hits(s, k, --)}

------------------------------------------------------------------------------
\* A loop: the collection, the cells still to come, the keys when it began and
\* those delivered (both history), and the node that removeNode runs it for.
NoLoop == [over |-> "none", rest |-> <<>>, want |-> <<>>, seen |-> <<>>, node |-> 0]
LoopOver(c, s, n) ==
    [over |-> c, rest |-> CellSeq(s), want |-> KeySeq(s), seen |-> <<>>, node |-> n]

Sign(a, b) == IF a < b THEN -1 ELSE IF a > b THEN 1 ELSE 0

-----------------------------------------------------------------------------
\* Comparison functions: the default orderings, and those programs set.
nodeOrdering(fn, ns, n1, n2) ==
    IF fn = "name" THEN Sign(ns[n1].name, ns[n2].name) ELSE Sign(ns[n2].name, ns[n1].name)

defaultArcOrdering(ns, as, a1, a2) ==
    LET start == Sign(ns[as[a1].start].name, ns[as[a2].start].name)
        end == Sign(ns[as[a1].end].name, ns[as[a2].end].name)
        cost == Sign(as[a1].cost, as[a2].cost)
    IN IF start # 0 THEN start ELSE IF end # 0 THEN end
       ELSE IF cost # 0 THEN cost ELSE Sign(a1, a2)

arcOrdering(fn, ns, as, a1, a2) ==
    IF fn = "default" THEN defaultArcOrdering(ns, as, a1, a2)
    ELSE Sign(as[a1].cost, as[a2].cost)

\* Sets of nodes and sets of arcs with their comparison functions: addSet,
\* removeSet, and whether the elements stand in the order the function gives.
NodesWith(s, n, fn, ns) == Added(s, n, LAMBDA n1, n2 : nodeOrdering(fn, ns, n1, n2))
NodesWithout(s, n, fn, ns) == Removed(s, n, LAMBDA n1, n2 : nodeOrdering(fn, ns, n1, n2))
NodesOrdered(s, fn, ns) == Ordered(s, LAMBDA n1, n2 : nodeOrdering(fn, ns, n1, n2))
ArcsWith(s, a, fn, ns, as) == Added(s, a, LAMBDA a1, a2 : arcOrdering(fn, ns, as, a1, a2))

\* Mutant: a node with two children gets the key of its successor.
ArcsBySuccessor(s, a, fn, ns, as) ==
    UNION {{RemoveAt(s, i)}
           \cup (IF i > 1 /\ i < Len(s)
                 THEN {RemoveAt([s EXCEPT ![i + 1].cell = s[i].cell], i)} ELSE {}) :
               i \in Hits(s, a, LAMBDA a1, a2 : arcOrdering(fn, ns, as, a1, a2))}

\* Mutant: the node whose key is copied is not removed.
ArcsLeavingOther(s, a, fn, ns, as) ==
    UNION {IF i > 1 /\ i < Len(s) THEN {Move(s, {i})} ELSE {RemoveAt(s, i)} :
               i \in Hits(s, a, LAMBDA a1, a2 : arcOrdering(fn, ns, as, a1, a2))}

ArcsWithout(s, a, fn, ns, as) ==
    Removed(s, a, LAMBDA a1, a2 : arcOrdering(fn, ns, as, a1, a2))
ArcsOrdered(s, fn, ns, as) == Ordered(s, LAMBDA a1, a2 : arcOrdering(fn, ns, as, a1, a2))

\* The orders tell all arcs of the graph, and all arcs of a node, apart.
ToldApart(ns, as, afn) ==
    \A a1, a2 \in DOMAIN as :
        a1 # a2 => /\ arcOrdering(afn, ns, as, a1, a2) # 0
                   /\ as[a1].start = as[a2].start =>
                          arcOrdering(ns[as[a1].start].cmpFn, ns, as, a1, a2) # 0

\* Every set stands in its own order.
InOrder(ns, as, nset, aset, nfn, afn) ==
    /\ NodesOrdered(nset, nfn, ns) /\ ArcsOrdered(aset, afn, ns, as)
    /\ \A n \in DOMAIN ns : ArcsOrdered(ns[n].arcs, ns[n].cmpFn, ns, as)

SetOf(over, nset, aset) ==
    CASE over = "nodes" -> nset [] over = "arcs" -> aset [] OTHER -> <<>>

\* No set and no arc refers to a block that is freed.
Intact(ns, as, nset, aset) ==
    /\ Keys(nset) \subseteq DOMAIN ns /\ Keys(aset) \subseteq DOMAIN as
    /\ \A n \in DOMAIN ns : Keys(ns[n].arcs) \subseteq DOMAIN as
    /\ \A a \in DOMAIN as : {as[a].start, as[a].end} \subseteq DOMAIN ns

\* Conjunct of every action that changes the sets: whether the next look at the
\* graph will read freed memory, and the history of the program's loop.
Outcome(outcome) ==
    LET old == SetOf(loop.over, nodeSet, arcSet)
        kept == Keys(SetOf(loop.over, nodeSet', arcSet'))
    IN /\ status' = IF Intact(nodes', arcs', nodeSet', arcSet') THEN outcome ELSE "dangling"
       /\ reckless' = \/ reckless
                      \/ \E i \in 1..Len(old) : \E j \in 1..i :
                             old[i].key \notin kept /\ old[j].cell \in ToSet(loop.rest)

\* Conjunct of what may change an order, or tell less apart.
Ordering ==
    upset' = \/ upset
             \/ ~InOrder(nodes', arcs', nodeSet', arcSet', nodeCmpFn', arcCmpFn')
             \/ ~ToldApart(nodes', arcs', arcCmpFn')

\* The program may call op now.
May(op) == status = "ok" /\ removal = NoLoop /\ op \in program.calls

-----------------------------------------------------------------------------
\* f with a value for one argument more: a block made, a name put in the map.
With(f, x, y) == [z \in DOMAIN f \cup {x} |-> IF z = x THEN y ELSE f[z]]

\* The node is in the set before the name is looked up.  Nodes are compared by
\* their names, arcs also by their addresses.
addNode(name) ==
    /\ May("addNode") /\ unused.nodes # {}
    /\ LET n == Min(unused.nodes)
           ns == With(nodes, n, [name |-> name, arcs |-> <<>>, cmpFn |-> arcCmpFn])
       IN /\ nodeSet' \in NodesWith(nodeSet, n, nodeCmpFn, ns)
          /\ nodes' = IF name \in DOMAIN nameMap /\ n \notin Keys(nodeSet') THEN nodes ELSE ns
          /\ IF name \in DOMAIN nameMap
             THEN UNCHANGED nameMap ELSE nameMap' = With(nameMap, name, n)
          /\ unused' = [unused EXCEPT !.nodes = @ \ {n}]
    /\ UNCHANGED <<program, arcs, arcSet, nodeCmpFn, arcCmpFn, loop, removal, upset>>
    /\ Outcome(IF name \in DOMAIN nameMap THEN "error" ELSE "ok")

addArc(n1, n2) ==
    /\ May("addArc") /\ n1 \in DOMAIN nodes /\ n2 \in DOMAIN nodes
    /\ \E a \in unused.arcs :
           /\ unused' = [unused EXCEPT !.arcs = @ \ {a}]
           /\ arcs' = With(arcs, a, [start |-> n1, end |-> n2, cost |-> 0])
           /\ arcSet' \in ArcsWith(arcSet, a, arcCmpFn, nodes, arcs')
           /\ \E s \in ArcsWith(nodes[n1].arcs, a, nodes[n1].cmpFn, nodes, arcs') :
                  nodes' = [nodes EXCEPT ![n1].arcs = s]
    /\ UNCHANGED <<program, nodeSet, nameMap, nodeCmpFn, arcCmpFn, loop, removal>>
    /\ upset' = (upset \/ ~ToldApart(nodes', arcs', arcCmpFn))
    /\ Outcome("ok")

\* Mutant: the arc stays in the set of the node.
TakeOutOfGraph(a) ==
    /\ arcSet' \in ArcsWithout(arcSet, a, arcCmpFn, nodes, arcs)
    /\ arcs' = [b \in DOMAIN arcs \ {a} |-> arcs[b]]
    /\ UNCHANGED nodes

\* The arc is taken out of both sets, if it is found there, and freed.
TakeOut(a) ==
    /\ arcSet' \in ArcsWithout(arcSet, a, arcCmpFn, nodes, arcs)
    /\ LET n == arcs[a].start
       IN \E s \in ArcsWithout(nodes[n].arcs, a, nodes[n].cmpFn, nodes, arcs) :
              nodes' = [nodes EXCEPT ![n].arcs = s]
    /\ arcs' = [b \in DOMAIN arcs \ {a} |-> arcs[b]]

removeArc(a) ==
    /\ May("removeArc") /\ a \in DOMAIN arcs
    /\ TakeOut(a)
    /\ UNCHANGED <<program, nodeSet, nameMap, nodeCmpFn, arcCmpFn, loop, removal, unused,
                   upset>>
    /\ Outcome("ok")

\* removeNode: a foreach over all arcs removes those that begin or end at n.
BeginRemoveNode(n) ==
    /\ May("removeNode") /\ n \in DOMAIN nodes
    /\ removal' = LoopOver("arcs", arcSet, n)
    /\ UNCHANGED <<program, status, blockVars, setVars, loop, unused, upset, reckless>>

\* The key that a step of a loop over s reads, "freed" if the cell is.
KeyAt(s, cell) ==
    IF cell \in Cells(s) THEN s[CHOOSE i \in 1..Len(s) : s[i].cell = cell].key ELSE "freed"

Advanced(l, key) == [l EXCEPT !.rest = Tail(@), !.seen = Append(@, key)]

\* Mutant: only the arcs that begin at n.
AtStart(a, n) == arcs[a].start = n

\* The arc begins or ends at n.
AtNode(a, n) == arcs[a].start = n \/ arcs[a].end = n

StepRemoveNode ==
    LET n == removal.node
        a == KeyAt(arcSet, Head(removal.rest))
    IN /\ status = "ok" /\ removal.rest # <<>>
       /\ IF Head(removal.rest) \in Cells(arcSet)
          THEN /\ removal' = Advanced(removal, a)
               /\ IF AtNode(a, n) THEN TakeOut(a) ELSE UNCHANGED <<blockVars, arcSet>>
               /\ UNCHANGED <<nodeSet, nameMap, nodeCmpFn, arcCmpFn, loop, unused, upset>>
               /\ Outcome("ok")
          ELSE /\ status' = "undefined"
               /\ UNCHANGED <<blockVars, setVars, loop, removal, unused, upset, reckless>>
       /\ UNCHANGED program

EndRemoveNode ==
    LET n == removal.node
    IN /\ status = "ok" /\ removal # NoLoop /\ removal.rest = <<>>
       /\ nodeSet' \in NodesWithout(nodeSet, n, nodeCmpFn, nodes)
       /\ nameMap' = [name \in DOMAIN nameMap \ {nodes[n].name} |-> nameMap[name]]
       /\ nodes' = [m \in DOMAIN nodes \ {n} |-> nodes[m]]
       /\ removal' = NoLoop
       /\ UNCHANGED <<program, arcs, arcSet, nodeCmpFn, arcCmpFn, loop, unused, upset>>
       /\ Outcome("ok")

-----------------------------------------------------------------------------
\* The cost is stored; the sets the arc is in keep their order.
setCost(a, cost) ==
    /\ May("setCost") /\ a \in DOMAIN arcs
    /\ arcs' = [arcs EXCEPT ![a].cost = cost]
    /\ UNCHANGED <<program, nodes, setVars, loop, removal, unused>>
    /\ Ordering /\ Outcome("ok")

setNodeOrdering(fn) ==
    /\ May("setNodeOrdering")
    /\ nodeCmpFn' = fn
    /\ UNCHANGED <<program, blockVars, nodeSet, arcSet, nameMap, arcCmpFn, loop,
                   removal, unused>>
    /\ Ordering /\ Outcome("ok")

\* The sets of arcs that the nodes have keep their comparison function.
setArcOrdering(fn) ==
    /\ May("setArcOrdering")
    /\ arcCmpFn' = fn
    /\ UNCHANGED <<program, blockVars, nodeSet, arcSet, nameMap, nodeCmpFn, loop,
                   removal, unused>>
    /\ Ordering /\ Outcome("ok")

\* Queries: a node of that name, whether an arc leads from n1 to n2, and the
\* nodes at the ends of the arcs of n.
getNode(name) == IF name \in DOMAIN nameMap THEN nameMap[name] ELSE 0
isConnected(n1, n2) ==
    \E i \in 1..Len(nodes[n1].arcs) : arcs[nodes[n1].arcs[i].key].end = n2

\* Mutant: the nodes at the starts.
NeighborsAtStart(n) ==
    LET s == nodes[n].arcs
        result[i \in 0..Len(s)] ==
            IF i = 0 THEN <<>>
            ELSE CHOOSE t \in NodesWith(result[i - 1], arcs[s[i].key].start, nodeCmpFn, nodes) :
                     TRUE
    IN result[Len(s)]

\* The set after each pass of the loop over the arcs of n.
getNeighbors(n) ==
    LET s == nodes[n].arcs
        result[i \in 0..Len(s)] ==
            IF i = 0 THEN <<>>
            ELSE CHOOSE t \in NodesWith(result[i - 1], arcs[s[i].key].end, nodeCmpFn, nodes) :
                     TRUE
    IN result[Len(s)]

-----------------------------------------------------------------------------
\* initForEach: an iterator that the variable still has is freed.
BeginLoop(over) ==
    /\ May("foreach") /\ over \in program.calls
    /\ loop' = LoopOver(over, SetOf(over, nodeSet, arcSet), 0)
    /\ reckless' = FALSE
    /\ UNCHANGED <<program, status, blockVars, setVars, removal, unused, upset>>

\* stepForEach reads the key of the next cell, or ends the loop.
StepLoop ==
    LET s == SetOf(loop.over, nodeSet, arcSet)
    IN /\ May("foreach") /\ loop # NoLoop
       /\ IF loop.rest = <<>> THEN loop' = NoLoop /\ UNCHANGED status
          ELSE IF Head(loop.rest) \in Cells(s)
          THEN loop' = Advanced(loop, KeyAt(s, Head(loop.rest))) /\ UNCHANGED status
          ELSE status' = "undefined" /\ UNCHANGED loop
       /\ UNCHANGED <<program, blockVars, setVars, removal, unused, upset, reckless>>

\* The program goes on after an error that it catches.
Catch == /\ status = "error" /\ status' = "ok"
         /\ UNCHANGED <<program, blockVars, setVars, loop, removal, unused, upset, reckless>>

freeGraph ==
    /\ May("freeGraph") /\ loop = NoLoop
    /\ status' = "freed"
    /\ nodes' = <<>> /\ arcs' = <<>> /\ nodeSet' = <<>> /\ arcSet' = <<>> /\ nameMap' = <<>>
    /\ UNCHANGED <<program, nodeCmpFn, arcCmpFn, loop, removal, unused, upset, reckless>>

-----------------------------------------------------------------------------
\* newGraph
Init ==
    /\ program \in Programs /\ status = "ok"
    /\ nodes = <<>> /\ arcs = <<>>
    /\ nodeSet = <<>> /\ arcSet = <<>> /\ nameMap = <<>>
    /\ nodeCmpFn = "name" /\ arcCmpFn = "default"
    /\ loop = NoLoop /\ removal = NoLoop
    /\ unused = [nodes |-> program.nodes, arcs |-> program.arcs]
    /\ upset = FALSE /\ reckless = FALSE

Next ==
    \/ \E name \in Names : addNode(name)
    \/ \E n1, n2 \in DOMAIN nodes : addArc(n1, n2)
    \/ \E a \in DOMAIN arcs : removeArc(a) \/ \E c \in Costs : setCost(a, c)
    \/ \E n \in DOMAIN nodes : BeginRemoveNode(n)
    \/ StepRemoveNode \/ EndRemoveNode
    \/ \E fn \in {"name", "reverse"} : setNodeOrdering(fn)
    \/ \E fn \in {"default", "cost"} : setArcOrdering(fn)
    \/ \E over \in {"nodes", "arcs"} : BeginLoop(over)
    \/ StepLoop \/ Catch \/ freeGraph

Spec == Init /\ [][Next]_vars

-----------------------------------------------------------------------------
\* Types.  No cell of a tree stands in two places; no element does as long as the
\* program has not changed an order under the elements: from then on a removal may
\* copy a key, find no node by it, and leave it in two places.
TypeOK ==
    /\ program \in Programs
    /\ status \in {"ok", "error", "undefined", "dangling", "freed"}
    /\ DOMAIN nodes \subseteq 1..MaxNodes /\ DOMAIN arcs \subseteq 1..MaxArcs
    /\ \A n \in DOMAIN nodes : nodes[n].name \in Names
    /\ \A a \in DOMAIN arcs : /\ arcs[a].start \in 1..MaxNodes
                             /\ arcs[a].end \in 1..MaxNodes
                             /\ arcs[a].cost \in Costs \cup {0}
    /\ \A s \in {nodeSet, arcSet} \cup {nodes[n].arcs : n \in DOMAIN nodes} :
           \A i, j \in 1..Len(s) :
               s[i].cell = s[j].cell \/ (~upset /\ s[i].key = s[j].key) => i = j
    /\ nodeCmpFn \in {"name", "reverse"} /\ arcCmpFn \in {"default", "cost"}

\* Every set stands in its order, the set of arcs of the graph is the disjoint
\* union of those of its nodes, no arc is there without its nodes, and names and
\* nodes belong to each other one by one: in the middle of a removeNode too, and
\* as long as the program has not changed an order under the elements.
Consistent ==
    ~upset /\ status # "freed" =>
        /\ InOrder(nodes, arcs, nodeSet, arcSet, nodeCmpFn, arcCmpFn)
        /\ Keys(arcSet) = DOMAIN arcs
        /\ \A a \in DOMAIN arcs : {arcs[a].start, arcs[a].end} \subseteq DOMAIN nodes
        /\ \A n \in DOMAIN nodes :
               Keys(nodes[n].arcs) = {a \in DOMAIN arcs : arcs[a].start = n}
        /\ Keys(nodeSet) = DOMAIN nodes
        /\ \A n \in DOMAIN nodes : getNode(nodes[n].name) = n
        /\ \A name \in DOMAIN nameMap : nameMap[name] \in DOMAIN nodes

\* The foreach in removeNode, which removes the arcs it runs over, comes to
\* each arc of the graph once; so does a foreach of the program to each element,
\* as long as elements are removed only in their turn or later: the tree node of
\* one removed may live on with the key of the element before it.  (An element
\* added ahead of the loop is not part of it, and still must not be removed.)
Delivers(l, s) ==
    /\ \A i \in 1..Len(l.rest) : l.rest[i] \in Cells(s)
    /\ l.want = l.seen \o [i \in 1..Len(l.rest) |-> KeyAt(s, l.rest[i])]
EachOnce ==
    ~upset =>
        /\ removal # NoLoop => Delivers(removal, arcSet)
        /\ loop # NoLoop /\ ~reckless /\ status # "freed" =>
               Delivers(loop, SetOf(loop.over, nodeSet, arcSet))

\* Freed memory is read, or is left to be read, only by a program that has
\* changed an order under its elements or removed ahead of its loop.
FreedOnlyByUpset ==
    /\ status = "dangling" => upset
    /\ status = "undefined" => upset \/ reckless

\* getNeighbors gives each node that isConnected says an arc leads to, in the
\* order of the nodes.
NeighborsConnected ==
    ~upset /\ status = "ok" /\ removal = NoLoop =>
        \A n \in DOMAIN nodes :
            /\ Keys(getNeighbors(n)) = {m \in DOMAIN nodes : isConnected(n, m)}
            /\ NodesOrdered(getNeighbors(n), nodeCmpFn, nodes)
=============================================================================
