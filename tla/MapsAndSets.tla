----------------------------- MODULE MapsAndSets ------------------------------
(***************************************************************************)
(* Hash maps (hashmap.c): buckets of linked cells, a new cell at the front *)
(* of its bucket.  Sets of characters (charset.c): the bits of an array of *)
(* words.  Sets (set.c) and maps (map.c) over their search trees.  A tree  *)
(* is in module BST; here it is the list of its nodes in order, of a key   *)
(* and a value, and the comparison function is the list of the keys in the *)
(* order it gives them.                                                    *)
(***************************************************************************)
EXTENDS Integers, SequencesExt, FiniteSetsExt

CONSTANTS
    NBuckets,       \* INITIAL_BUCKET_COUNT
    hashCode(_),    \* of a key
    WordBits,       \* 64 or 32
    NWords,         \* BIT_ARRAY_SIZE: 256 bits in all
    Orders,         \* the comparison functions the program has, by name
    Rank(_, _)      \* the place of a key in an order

-------------------------------------------------------------------------------
(* Hash maps: the number of buckets never changes.                           *)
bucketOf(key) == hashCode(key) % NBuckets

\* rehash, which only a new map calls: there are no cells to move.
rehash(nBuckets) == [b \in 0..nBuckets - 1 |-> <<>>]
newHashMap == [type |-> "HashMap", buckets |-> rehash(NBuckets), count |-> 0]

\* The cell of key in its bucket, 0 if there is none.
findCell(map, key) ==
    LET chain == map.buckets[bucketOf(key)]
    IN SelectInSeq(chain, LAMBDA cell : cell.key = key)

putHashMap(map, key, value) ==
    LET at == findCell(map, key)
    IN IF at = 0
       THEN [map EXCEPT !.buckets[bucketOf(key)] = <<[key |-> key, value |-> value]>> \o @,
                        !.count = map.count + 1]
       ELSE [map EXCEPT !.buckets[bucketOf(key)][at].value = value]

getHashMap(map, key, null) ==
    LET at == findCell(map, key)
    IN IF at = 0 THEN null ELSE map.buckets[bucketOf(key)][at].value

removeHashMap(map, key) ==
    LET at == findCell(map, key)
    IN IF at = 0 THEN map
       ELSE [map EXCEPT !.buckets[bucketOf(key)] = RemoveAt(@, at), !.count = map.count - 1]

containsKeyHashMap(map, key) == findCell(map, key) # 0

clearHashMap(map) ==
    [map EXCEPT !.buckets = [b \in 0..NBuckets - 1 |-> <<>>], !.count = 0]

\* All cells in the order of the buckets.
CellsOf(map) == FlattenSeq([b \in 1..NBuckets |-> map.buckets[b - 1]])

\* cloneHashMap puts them into a new map, which turns the buckets round.
cloneHashMap(map) ==
    FoldLeft(LAMBDA new, cell : putHashMap(new, cell.key, cell.value), newHashMap,
             CellsOf(map))

\* mapHashMap, for the iterator: keys whose value is NULL are left out.
IteratedKeys(map, null) ==
    LET some == SelectSeq(CellsOf(map), LAMBDA cell : cell.value # null)
    IN [i \in 1..Len(some) |-> some[i].key]

-------------------------------------------------------------------------------
(* Sets of characters: a word is the set of its bits that are 1.             *)
Words == 0..NWords - 1
NChars == WordBits * NWords

\* (ch & 0xFF) >> BIT_SHIFT_SIZE and ch & BIT_SHIFT_MASK; char may be signed.
WordOf(ch) == (ch % NChars) \div WordBits
BitOf(ch) == ch % WordBits

\* The header that enableIteration fills is missing in the result of a union.
CharSetOf(bits, iterable) == [type |-> "CharSet", bits |-> bits, iterable |-> iterable]

newCharSet == CharSetOf([w \in Words |-> {}], TRUE)
clearCharSet(s) == [s EXCEPT !.bits = [w \in Words |-> {}]]
cloneCharSet(s) == CharSetOf(s.bits, TRUE)
containsCharSet(s, ch) == BitOf(ch) \in s.bits[WordOf(ch)]
addCharSet(s, ch) == [s EXCEPT !.bits[WordOf(ch)] = @ \cup {BitOf(ch)}]
addString(s, str) ==
    [s EXCEPT !.bits =
        [w \in Words |-> s.bits[w] \cup {BitOf(str[i]) : i \in {j \in 1..Len(str) : WordOf(str[j]) = w}}]]
removeCharSet(s, ch) == [s EXCEPT !.bits[WordOf(ch)] = @ \ {BitOf(ch)}]

\* sizeCharSet counts the bits; isEmptyCharSet tests the words.
Chars(s) == {ch \in 0..NChars - 1 : containsCharSet(s, ch)}
sizeCharSet(s) == Cardinality(Chars(s))
isEmptyCharSet(s) == \A w \in Words : s.bits[w] = {}

equalsCharSet(s1, s2) == \A w \in Words : s1.bits[w] = s2.bits[w]
isSubsetCharSet(s1, s2) == \A w \in Words : s1.bits[w] \ s2.bits[w] = {}
unionCharSet(s1, s2) == CharSetOf([w \in Words |-> s1.bits[w] \cup s2.bits[w]], FALSE)
intersectionCharSet(s1, s2) == CharSetOf([w \in Words |-> s1.bits[w] \cap s2.bits[w]], TRUE)
setDifferenceCharSet(s1, s2) == CharSetOf([w \in Words |-> s1.bits[w] \ s2.bits[w]], TRUE)

\* The iterator: advanceCharSetIterator never stores the counter it makes, so
\* the first step finds none and ends the loop.  A set without a header is no
\* collection that newIterator knows.
iteratedCharSet(s) == <<>>

-------------------------------------------------------------------------------
(* Sets and maps over trees.  clearBST frees the nodes and leaves the root   *)
(* pointing at them: nothing is known of what a later call finds.            *)
Node(key, value) == [key |-> key, value |-> value]

\* newSetFromType takes the comparison function of the base type.
newSetFromType(cmpFn) ==
    [type |-> "Set", cmpFn |-> cmpFn, nodes |-> <<>>, freed |-> FALSE]
newMap(cmpFn) == [type |-> "Map", cmpFn |-> cmpFn, nodes |-> <<>>, freed |-> FALSE]

NodeKeys(tree) == {tree.nodes[i].key : i \in 1..Len(tree.nodes)}

\* findBSTNode: the place of the node with the key, 0 if there is none.
findNode(tree, key) ==
    SelectInSeq(tree.nodes, LAMBDA node : Rank(tree.cmpFn, node.key) = Rank(tree.cmpFn, key))

\* insertBSTNode, and setNodeValue in a map.
Inserted(tree, key, value) ==
    LET at == findNode(tree, key)
        less == {i \in 1..Len(tree.nodes) :
                    Rank(tree.cmpFn, tree.nodes[i].key) < Rank(tree.cmpFn, key)}
    IN IF at # 0 THEN [tree EXCEPT !.nodes[at].value = value]
       ELSE [tree EXCEPT !.nodes = InsertAt(@, Cardinality(less) + 1, Node(key, value))]

removeNode(tree, key) ==
    LET at == findNode(tree, key)
    IN IF at = 0 THEN tree ELSE [tree EXCEPT !.nodes = RemoveAt(@, at)]

clearTree(tree) == [tree EXCEPT !.nodes = <<>>, !.freed = tree.nodes # <<>>]

\* checkBaseTypes: the base types here are the same.
SameComparison(s1, s2) == s1.cmpFn = s2.cmpFn

\* FoldLeft, halving the sequence: the first half is evaluated before the second.
FoldHalves(op(_, _), base, seq) ==
    LET RECURSIVE Fold(_, _, _)
        Fold(acc, from, to) ==
            LET mid == (from + to) \div 2
            IN IF from > to THEN acc
               ELSE IF from = to THEN op(acc, seq[from])
               ELSE CHOOSE all \in {Fold(half, mid + 1, to) : half \in {Fold(acc, from, mid)}} : TRUE
    IN Fold(base, 1, Len(seq))

\* The set made of these nodes, one after the other, with the order of s1.
Collected(s1, nodes) ==
    FoldHalves(LAMBDA set, node : Inserted(set, node.key, node.value),
             newSetFromType(s1.cmpFn), nodes)

isSubsetSet(s1, s2) == \A i \in 1..Len(s1.nodes) : findNode(s2, s1.nodes[i].key) # 0
equalsSet(s1, s2) == isSubsetSet(s1, s2) /\ isSubsetSet(s2, s1)
unionSet(s1, s2) == Collected(s1, s1.nodes \o s2.nodes)
intersectionSet(s1, s2) ==
    Collected(s1, SelectSeq(s1.nodes, LAMBDA node : findNode(s2, node.key) # 0))
setDifferenceSet(s1, s2) ==
    Collected(s1, SelectSeq(s1.nodes, LAMBDA node : findNode(s2, node.key) = 0))

\* newSetIterator and newMapIterator: the keys in order.
NodeKeySeq(tree) == [i \in 1..Len(tree.nodes) |-> tree.nodes[i].key]
===============================================================================
