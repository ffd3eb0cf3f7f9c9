-------------------------------- MODULE BST ---------------------------------
(***************************************************************************)
(* The balanced binary search tree of bst.c, on which maps and sets rest:  *)
(* AVL insertion and removal with the balance factors the nodes store.     *)
(*                                                                         *)
(* Of a key only its place in the order matters, so a tree of n keys has   *)
(* the keys 1..n: a key inserted at k moves those from k on up by one, a   *)
(* removed one lets the others close up.  Values are left out.             *)
(***************************************************************************)
EXTENDS Integers, Sequences

CONSTANTS
    MaxKeys,    \* bound: keys in the tree
    MaxSpoilt   \* bound: calls on a tree while its balance factors are wrong

ASSUME BoundsAssumption == MaxKeys \in Nat /\ MaxSpoilt \in Nat

VARIABLES
    root,       \* the tree
    count,      \* the number of entries the BST says it has
    status,     \* "ok"; "dangling": root points at freed nodes; the program
                \* "crashed" on a NULL pointer or is "undefined"
    spoilt      \* history: the calls since the balance factors were last right

vars == <<root, count, status, spoilt>>

Null == [key |-> 0]
Leaf(k) == [key |-> k, bf |-> 0, left |-> Null, right |-> Null]

RECURSIVE Moved(_, _, _)
Moved(t, k, by) ==      \* the keys of t from k on, moved
    IF t = Null THEN Null
    ELSE [t EXCEPT !.key = IF @ >= k THEN @ + by ELSE @,
                   !.left = Moved(@, k, by), !.right = Moved(@, k, by)]

-----------------------------------------------------------------------------
rotateLeft(t) == [t.right EXCEPT !.left = [t EXCEPT !.right = t.right.left]]
rotateRight(t) == [t.left EXCEPT !.right = [t EXCEPT !.left = t.left.right]]

\* Mutant: the balance factors of the two children exchanged.
AfterDoubleSwapped(t, old) == [t EXCEPT !.bf = 0,
                                        !.left.bf = IF old = -1 THEN 1 ELSE 0,
                                        !.right.bf = IF old = 1 THEN -1 ELSE 0]

\* The balance factors after a double rotation; old is that of the node lifted.
AfterDouble(t, old) == [t EXCEPT !.bf = 0,
                                 !.left.bf = IF old = 1 THEN -1 ELSE 0,
                                 !.right.bf = IF old = -1 THEN 1 ELSE 0]

fixLeftImbalance(t) ==
    CASE t.left.bf = 1 -> AfterDouble(rotateRight([t EXCEPT !.left = rotateLeft(@)]),
                                      t.left.right.bf)
      [] t.left.bf = 0 -> [rotateRight(t) EXCEPT !.bf = 1, !.right.bf = -1]
      [] OTHER         -> [rotateRight(t) EXCEPT !.bf = 0, !.right.bf = 0]

fixRightImbalance(t) ==
    CASE t.right.bf = -1 -> AfterDouble(rotateLeft([t EXCEPT !.right = rotateRight(@)]),
                                        t.right.left.bf)
      [] t.right.bf = 0  -> [rotateLeft(t) EXCEPT !.bf = -1, !.left.bf = 1]
      [] OTHER           -> [rotateLeft(t) EXCEPT !.bf = 0, !.left.bf = 0]

\* They follow a NULL pointer where the child or grandchild to lift is missing.
LeftFault(t) == t.left = Null \/ (t.left.bf = 1 /\ t.left.right = Null)
RightFault(t) == t.right = Null \/ (t.right.bf = -1 /\ t.right.left = Null)

-----------------------------------------------------------------------------
\* What a call on a subtree leaves: the subtree, and the change in height it
\* returns.
Fault == [ok |-> FALSE, tree |-> Null, delta |-> 0]
Subtree(t, delta) == [ok |-> TRUE, tree |-> t, delta |-> delta]

RECURSIVE insertTreeNode(_, _)
insertTreeNode(t, k) ==
    IF t = Null THEN Subtree(Leaf(k), 1)
    ELSE IF k = t.key THEN Subtree(t, 0)
    ELSE LET side == IF k < t.key THEN -1 ELSE 1
             sub  == insertTreeNode(IF k < t.key THEN t.left ELSE t.right, k)
             u    == IF k < t.key THEN [t EXCEPT !.left = sub.tree]
                                  ELSE [t EXCEPT !.right = sub.tree]
         IN  CASE ~sub.ok        -> Fault
               [] sub.delta <= 0 -> Subtree(u, 0)
               [] t.bf = -side   -> Subtree([u EXCEPT !.bf = 0], 0)
               [] t.bf = 0       -> Subtree([u EXCEPT !.bf = side], 1)
               [] OTHER ->
                    IF side = -1
                    THEN IF LeftFault(u) THEN Fault ELSE Subtree(fixLeftImbalance(u), 0)
                    ELSE IF RightFault(u) THEN Fault ELSE Subtree(fixRightImbalance(u), 0)

adjustBF(t, delta) ==
    LET u == [t EXCEPT !.bf = @ + delta]
    IN  IF u.bf < -1 THEN IF LeftFault(u) THEN Fault ELSE Subtree(fixLeftImbalance(u), 0)
        ELSE IF u.bf > 1 THEN IF RightFault(u) THEN Fault ELSE Subtree(fixRightImbalance(u), 0)
        ELSE Subtree(u, 0)

\* The balance factor of the node with key k, at the root of t or next to it:
\* the node the caller still points at after adjustBF has rotated.
BFOf(t, k) == IF k = t.key THEN t.bf ELSE IF k < t.key THEN t.left.bf ELSE t.right.bf

\* adjustBF, and the change in height the removing function then returns.
Shortened(t, delta) ==
    LET r == adjustBF(t, delta)
    IN  IF r.ok THEN [r EXCEPT !.delta = IF delta # 0 /\ BFOf(r.tree, t.key) = 0 THEN -1 ELSE 0]
                ELSE Fault

\* Mutant: the left child itself, without the loop down its right side.
LastWithoutLoop(t) == t.key

RECURSIVE Last(_)
Last(t) == IF t.right = Null THEN t.key ELSE Last(t.right)

\* removeTreeNode with removeTargetNode, which gives a node of two children the
\* greatest key on its left and removes that key there.
RECURSIVE removeTreeNode(_, _)
removeTreeNode(t, k) ==
    IF t = Null THEN Subtree(Null, 0)
    ELSE IF k < t.key
    THEN LET sub == removeTreeNode(t.left, k)
         IN  IF ~sub.ok THEN Fault
             ELSE Shortened([t EXCEPT !.left = sub.tree], IF sub.delta < 0 THEN 1 ELSE 0)
    ELSE IF k > t.key
    THEN LET sub == removeTreeNode(t.right, k)
         IN  IF ~sub.ok THEN Fault
             ELSE Shortened([t EXCEPT !.right = sub.tree], IF sub.delta < 0 THEN -1 ELSE 0)
    ELSE IF t.left = Null THEN Subtree(t.right, -1)
    ELSE IF t.right = Null THEN Subtree(t.left, -1)
    ELSE LET sub == removeTreeNode(t.left, Last(t.left))
             u   == [t EXCEPT !.key = Last(t.left), !.left = sub.tree]
         IN  IF ~sub.ok THEN Fault
             ELSE IF sub.delta < 0 THEN Shortened(u, 1) ELSE Subtree(u, 0)

RECURSIVE findTreeNode(_, _)
findTreeNode(t, k) ==
    IF t = Null \/ k = t.key THEN t
    ELSE findTreeNode(IF k < t.key THEN t.left ELSE t.right, k)

\* The keys of the tree in an order of traversal.
RECURSIVE mapTree(_, _)
mapTree(t, order) ==
    LET Visited(when) == IF order = when THEN <<t.key>> ELSE <<>>
    IN IF t = Null THEN <<>>
       ELSE Visited("PREORDER") \o mapTree(t.left, order) \o Visited("INORDER")
            \o mapTree(t.right, order) \o Visited("POSTORDER")

\* As an iterator over a map or a set gives them.
newForeachIterator(t) == mapTree(t, "INORDER")

-----------------------------------------------------------------------------
Init == /\ root = Null
        /\ count = 0
        /\ status = "ok"
        /\ spoilt = 0

RECURSIVE Height(_)
Height(t) ==
    IF t = Null THEN 0
    ELSE LET l == Height(t.left)
             r == Height(t.right)
         IN  1 + (IF l > r THEN l ELSE r)

\* Every balance factor is the difference of the heights, and at most one.
RECURSIVE Balanced(_)
Balanced(t) ==
    t = Null \/ /\ t.bf = Height(t.right) - Height(t.left)
                /\ t.bf \in -1 .. 1
                /\ Balanced(t.left) /\ Balanced(t.right)

\* cloneBST copies the nodes, with their keys and balance factors.
RECURSIVE copyTree(_)
copyTree(t) ==
    IF t = Null THEN Null ELSE [t EXCEPT !.left = copyTree(@), !.right = copyTree(@)]

\* What a call leaves: the tree, or a program that followed a NULL pointer.
Leave(result) ==
    /\ status = "ok"
    /\ spoilt < MaxSpoilt
    /\ IF result.ok THEN root' = result.tree /\ status' = "ok"
                    ELSE root' = root /\ status' = "crashed"
    /\ spoilt' = IF Balanced(root') THEN 0 ELSE spoilt + 1

\* A key that is not in the tree yet, at place k.
insertBSTNode(k) ==
    /\ count < MaxKeys
    /\ Leave(insertTreeNode(Moved(root, k, 1), k))
    /\ count' = count + 1

\* A key that is there already: its node is found on the way.
insertAgain(k) ==
    /\ Leave(insertTreeNode(root, k))
    /\ UNCHANGED count

removeBSTNode(k) ==
    /\ LET r == removeTreeNode(root, k)
       IN  Leave([r EXCEPT !.tree = Moved(@, k, -1)])
    /\ count' = count - 1

\* A key that is not in the tree and would have place k.
removeAbsent(k) ==
    /\ LET r == removeTreeNode(Moved(root, k, 1), k)
       IN  Leave([r EXCEPT !.tree = Moved(@, k, -1)])
    /\ UNCHANGED count

\* clearBST frees the nodes, and root still points at them.
clearBST ==
    /\ status = "ok"
    /\ status' = IF root = Null THEN "ok" ELSE "dangling"
    /\ count' = 0
    /\ UNCHANGED <<root, spoilt>>

\* Any operation that looks at the tree then reads freed memory.
UseAfterClear ==
    /\ status = "dangling"
    /\ status' = "undefined"
    /\ UNCHANGED <<root, count, spoilt>>

Next ==
    \/ \E k \in 1 .. count + 1 : insertBSTNode(k) \/ removeAbsent(k)
    \/ \E k \in 1 .. count : insertAgain(k) \/ removeBSTNode(k)
    \/ clearBST
    \/ UseAfterClear

Spec == Init /\ [][Next]_vars

-----------------------------------------------------------------------------
\* In the order of the keys, the tree holds each key once and no other, and
\* count says how many; each is found by its key, and no other is.  Rotations
\* at the wrong place, and balance factors that are wrong, do not disturb that.
HoldsItsKeys ==
    status = "ok" =>
        /\ newForeachIterator(root) = [i \in 1 .. count |-> i]
        /\ \A k \in 0 .. count + 1 : findTreeNode(root, k) # Null <=> k \in 1 .. count

\* While the balance factors are right, each operation leaves them right and
\* none fails, but for one: a removal that finds 12 keys or more, where the
\* value removeTreeNode returns after a double rotation below another node is
\* no longer the change in height.
SpoiltOnlyByLargeRemoval ==
    [][ Balanced(root) =>
            /\ status' # "crashed"
            /\ Balanced(root') \/ (count >= 12 /\ count' = count - 1) ]_vars

\* No operation follows a NULL pointer.
OperationsComplete == status # "crashed"
=============================================================================
