------------------------------ MODULE Collections -----------------------------
(***************************************************************************)
(* A program that calls the generic operations (generic.c) on one          *)
(* collection, and on a second one of the same type that clone and the set *)
(* operations make.  Priority queues have a module of their own.           *)
(*                                                                         *)
(* error() throws an exception, which the program catches and goes on.     *)
(***************************************************************************)
EXTENDS Generic, LinearCollections, MapsAndSets
CONSTANTS
    Null,           \* NULL
    MapValues,      \* what maps hold, NULL too
    Keys,           \* keys of maps and elements of sets
    Characters,     \* of string buffers and character sets
    Conversions,    \* of formats
    Arrays,         \* what arrayToVector is called with
    MaxCount        \* bound on the size of a vector, stack, queue or string buffer

VARIABLES
    coll,           \* the two collections, NULL if there is none
    call,           \* the last operation and its arguments
    answer,         \* and what it returned
    content         \* auxiliary: the items the two collections stand for

vars == <<coll, call, answer, content>>
Both == {"first", "second"}
T(x) == coll[x].type

New == {newVector, newStack, newQueue, newStringBuffer, newHashMap, newCharSet}
       \cup {arrayToVector(array) : array \in Arrays}
       \cup {newMap("natural")} \cup {newSetFromType(order) : order \in Orders}

Nothing == [nothing |-> TRUE]
Error == [error |-> TRUE]
Number(n) == [number |-> n]
Bool(b) == [bool |-> b]
Value(v) == [value |-> v]
Several(s) == [several |-> s]

\* The items a collection stands for.
ItemsOf(c) ==
    CASE c.type = "Vector" -> vectorToArray(c)
      [] c.type = "Stack" -> [i \in 1..c.count |-> c.elements[i - 1]]
      [] c.type = "Queue" -> QueueValues(c)
      [] c.type = "StringBuffer" -> BufferChars(c)
      [] c.type = "HashMap" -> [k \in {CellsOf(c)[i].key : i \in 1..Len(CellsOf(c))} |->
                                   getHashMap(c, k, Null)]
      [] c.type = "Map" -> [k \in NodeKeys(c) |-> c.nodes[findNode(c, k)].value]
      [] c.type = "CharSet" -> Chars(c)
      [] c.type = "Set" -> NodeKeys(c)

ContentOf(c) ==
    IF c = Null THEN Null
    ELSE IF c.type = "undefined" THEN [type |-> "undefined"]
    ELSE [type |-> c.type, items |-> ItemsOf(c),
          order |-> IF c.type \in {"Set", "Map"} THEN c.cmpFn ELSE "natural"]

Init == /\ \E c \in New : coll = [first |-> c, second |-> Null]
        /\ call = Nothing /\ answer = Nothing
        /\ content = [x \in Both |-> ContentOf(coll[x])]

-------------------------------------------------------------------------------
\* What a call leaves of the block and returns.
Outcome(c, a) == [coll |-> c, answer |-> a]
Makes(c) == Outcome(c, Nothing)
Returns(x, a) == Outcome(coll[x], a)
Failed(x) == Outcome(coll[x], Error)
Undefined == Outcome([type |-> "undefined"], Nothing)
If(test, outcome, x) == IF test THEN outcome ELSE Failed(x)

\* Nothing is called with a block of which nothing is known.
Usable(x) == coll[x] # Null /\ T(x) # "undefined"
Freed(x) == T(x) \in {"Set", "Map"} /\ coll[x].freed

\* A function that gets a block of another type than its own reads what the
\* block holds as something else.
Dispatched(x, chain, outcome) ==
    LET handler == Handler(chain, T(x))
    IN IF handler = "error" THEN Failed(x)
       ELSE IF handler # T(x) \/ (Freed(x) /\ chain \notin {SizeChain, IsEmptyChain})
       THEN Undefined ELSE outcome

Call(x, made, outcome) ==
    /\ coll' = [coll EXCEPT ![x] = outcome.coll]
    /\ call' = made
    /\ answer' = outcome.answer
    /\ content' = [content EXCEPT ![x] = ContentOf(outcome.coll)]

\* The collection made is the second one from now on.
MakesSecond(x, made, outcome) ==
    IF outcome.answer = Error THEN Call(x, made, outcome)
    ELSE Call("second", made, outcome)

SizeOf(c) == CASE c.type = "CharSet" -> sizeCharSet(c)
               [] c.type \in {"Set", "Map"} -> Len(c.nodes)
               [] OTHER -> c.count
Growing == {"Vector", "Stack", "Queue", "StringBuffer"}
HasRoom(x) == IF T(x) \in Growing THEN coll[x].count < MaxCount ELSE TRUE

-------------------------------------------------------------------------------
\* Operations of all collections.

size(x) == Call(x, [size |-> x], Dispatched(x, SizeChain, Returns(x, Number(SizeOf(coll[x])))))

isEmpty(x) ==
    Call(x, [isEmpty |-> x], Dispatched(x, IsEmptyChain,
        Returns(x, Bool(IF T(x) = "CharSet" THEN isEmptyCharSet(coll[x])
                        ELSE SizeOf(coll[x]) = 0))))

clear(x) ==
    Call(x, [clear |-> x], Dispatched(x, ClearChain, Makes(
        CASE T(x) = "Vector" -> clearVector(coll[x])
          [] T(x) = "Stack" -> clearStack(coll[x])
          [] T(x) = "Queue" -> clearQueue(coll[x])
          [] T(x) = "StringBuffer" -> clearStringBuffer(coll[x])
          [] T(x) = "HashMap" -> clearHashMap(coll[x])
          [] T(x) = "CharSet" -> clearCharSet(coll[x])
          [] OTHER -> clearTree(coll[x]))))

Cloned(x) ==
    Dispatched(x, CloneChain, Makes(
        CASE T(x) = "Vector" -> cloneVector(coll[x])
          [] T(x) = "Stack" -> cloneStack(coll[x])
          [] T(x) = "Queue" -> cloneQueue(coll[x])
          [] T(x) = "HashMap" -> cloneHashMap(coll[x])
          [] T(x) = "CharSet" -> cloneCharSet(coll[x])
          [] OTHER -> coll[x]))      \* cloneMap, cloneSet: copyTree

clone(x) ==
    MakesSecond(x, [clone |-> x], Cloned(x))

\* foreach, from newIterator to the end of the loop.
foreach(x) ==
    Call(x, [foreach |-> x],
        IF Freed(x) THEN Undefined
        ELSE CASE T(x) = "Vector" -> Returns(x, Several(vectorToArray(coll[x])))
               [] T(x) = "HashMap" -> Returns(x, Several(IteratedKeys(coll[x], Null)))
               [] T(x) \in {"Set", "Map"} -> Returns(x, Several(NodeKeySeq(coll[x])))
               [] T(x) = "CharSet" -> If(coll[x].iterable,
                                         Returns(x, Several(iteratedCharSet(coll[x]))), x)
               [] OTHER -> Failed(x))

-------------------------------------------------------------------------------
\* Vectors, and maps where they share the operation.

get(x) ==
    IF T(x) = "Vector"
    THEN \E index \in -1..coll[x].count :
            Call(x, [get |-> <<x, index>>], Dispatched(x, GetChain,
                If(InRange(coll[x], index),
                   Returns(x, Value(coll[x].elements[index])), x)))
    ELSE \E key \in Keys :
            Call(x, [get |-> <<x, key>>], Dispatched(x, GetChain, Returns(x, Value(
                CASE T(x) = "HashMap" -> getHashMap(coll[x], key, Null)
                  [] T(x) = "Map" -> IF findNode(coll[x], key) = 0 THEN Null
                                     ELSE coll[x].nodes[findNode(coll[x], key)].value))))

set(x) ==
    \E index \in (IF T(x) = "Vector" THEN -1..coll[x].count ELSE {0}), value \in Values :
        Call(x, [set |-> <<x, index, value>>], Dispatched(x, SetChain,
            If(InRange(coll[x], index), Makes(setVector(coll[x], index, value)), x)))

insertAt(x) ==
    /\ T(x) = "Vector" /\ HasRoom(x)
    /\ \E index \in -1..coll[x].count + 1, value \in Values :
           Call(x, [insertAt |-> <<x, index, value>>], If(0 <= index /\ index <= coll[x].count,
                      Makes(insert(coll[x], index, value)), x))

put(x) ==
    \E key \in Keys, value \in MapValues :
        Call(x, [put |-> <<x, key, value>>], Dispatched(x, PutChain, Makes(
            CASE T(x) = "HashMap" -> putHashMap(coll[x], key, value)
              [] T(x) = "Map" -> Inserted(coll[x], key, value))))

containsKey(x) ==
    \E key \in Keys :
        Call(x, [containsKey |-> <<x, key>>], Dispatched(x, ContainsKeyChain, Returns(x, Bool(
            CASE T(x) = "HashMap" -> containsKeyHashMap(coll[x], key)
              [] T(x) = "Map" -> findNode(coll[x], key) # 0))))

\* What an operation on an element of the collection may be called with.
ElementsFor(x) == CASE T(x) = "CharSet" -> Characters
                    [] T(x) \in {"Set", "Map", "HashMap"} -> Keys
                    [] OTHER -> Values

add(x) ==
    /\ HasRoom(x)
    /\ \E value \in ElementsFor(x) :
           Call(x, [add |-> <<x, value>>], Dispatched(x, AddChain, Makes(
               CASE T(x) = "Vector" -> addVector(coll[x], value)
                 [] T(x) = "CharSet" -> addCharSet(coll[x], value)
                 [] T(x) = "Set" -> Inserted(coll[x], value, Null))))

remove(x) ==
    IF T(x) = "Vector"
    THEN \E index \in -1..coll[x].count :
            Call(x, [remove |-> <<x, index>>], Dispatched(x, RemoveChain,
                If(InRange(coll[x], index), Makes(removeVector(coll[x], index)), x)))
    ELSE \E value \in ElementsFor(x) :
            Call(x, [remove |-> <<x, value>>], Dispatched(x, RemoveChain, Makes(
                CASE T(x) = "CharSet" -> removeCharSet(coll[x], value)
                  [] T(x) = "HashMap" -> removeHashMap(coll[x], value)
                  [] OTHER -> removeNode(coll[x], value))))

-------------------------------------------------------------------------------
\* Stacks, queues and string buffers.

pushElement(x) ==
    /\ T(x) = "Stack" /\ HasRoom(x)
    /\ \E value \in Values : Call(x, [push |-> <<x, value>>], Makes(push(coll[x], value)))

popElement(x) ==
    /\ T(x) = "Stack"
    /\ Call(x, [pop |-> x], If(coll[x].count # 0,
                  Outcome(pop(coll[x]), Value(peekStack(coll[x]))), x))

enqueue(x) ==
    /\ HasRoom(x)
    /\ \E value \in Values :
           Call(x, [enqueue |-> <<x, value>>], Dispatched(x, EnqueueChain, Makes(enqueueQueue(coll[x], value))))

dequeue(x) ==
    Call(x, [dequeue |-> x], Dispatched(x, DequeueChain,
        If(coll[x].count # 0,
           Outcome(dequeueQueue(coll[x]), Value(peekQueue(coll[x]))), x)))

peek(x) ==
    Call(x, [peek |-> x], Dispatched(x, PeekChain,
        If(coll[x].count # 0,
           Returns(x, Value(IF T(x) = "Queue" THEN peekQueue(coll[x])
                            ELSE peekStack(coll[x]))), x)))

writeBuffer(x) ==
    /\ T(x) = "StringBuffer" /\ HasRoom(x)
    /\ \/ \E ch \in Characters :
             Call(x, [pushChar |-> <<x, ch>>], Makes(pushChar(coll[x], ch)))
       \/ \E c1, c2 \in Characters :
             Call(x, [appendString |-> <<x, c1, c2>>], Makes(appendString(coll[x], <<c1, c2>>)))
       \/ \E conversion \in Conversions, ch \in Characters :
             Call(x, [sbprintf |-> <<x, conversion, ch>>],
                  Makes(sbprintf(coll[x], conversion, ch)))

readBuffer(x) ==
    /\ T(x) = "StringBuffer"
    /\ \/ Call(x, [popChar |-> x], If(coll[x].count # 0,
                  Outcome(popChar(coll[x]), Value(coll[x].buffer[coll[x].count - 1])), x))
       \/ LET sb == getString(coll[x])
          IN Call(x, [getString |-> x], IF sb.type = "undefined" THEN Undefined
                                        ELSE Outcome(sb, Several(BufferChars(sb))))

-------------------------------------------------------------------------------
\* Sets.

containsElement(x) ==
    \E value \in ElementsFor(x) :
        Call(x, [contains |-> <<x, value>>], Dispatched(x, ContainsChain, Returns(x, Bool(
            IF T(x) = "CharSet" THEN containsCharSet(coll[x], value)
            ELSE findNode(coll[x], value) # 0))))

addStringTo(x) ==
    /\ T(x) = "CharSet"
    /\ \E c1, c2 \in Characters : Call(x, [addString |-> <<x, c1, c2>>], Makes(addString(coll[x], <<c1, c2>>)))

\* A set may get another comparison function; one that holds elements is
\* looked at in module Graph.
setCompareFn(x) ==
    /\ T(x) = "Set" /\ coll[x].nodes = <<>>
    /\ \E order \in Orders : Call(x, [setCompareFn |-> <<x, order>>], Makes([coll[x] EXCEPT !.cmpFn = order]))

\* Operations on two collections; the first argument decides.
Compared(x, made, chain, ofCharSets(_, _), ofSets(_, _)) ==
    LET y == IF x = "first" THEN "second" ELSE "first"
    IN /\ Usable(y)
       /\ Call(x, made, Dispatched(x, chain, IF Freed(y) THEN Undefined ELSE
              IF T(x) = "CharSet" THEN Returns(x, Bool(ofCharSets(coll[x], coll[y])))
              ELSE If(SameComparison(coll[x], coll[y]),
                      Returns(x, Bool(ofSets(coll[x], coll[y]))), x)))

Combined(x, made, chain, ofCharSets(_, _), ofSets(_, _)) ==
    LET y == IF x = "first" THEN "second" ELSE "first"
    IN /\ Usable(y)
       /\ MakesSecond(x, made, Dispatched(x, chain, IF Freed(y) THEN Undefined ELSE
              IF T(x) = "CharSet" THEN Makes(ofCharSets(coll[x], coll[y]))
              ELSE If(SameComparison(coll[x], coll[y]),
                      Makes(ofSets(coll[x], coll[y])), x)))

equals(x) == Compared(x, [equals |-> x], EqualsChain, equalsCharSet, equalsSet)
isSubset(x) == Compared(x, [isSubset |-> x], IsSubsetChain, isSubsetCharSet, isSubsetSet)
xunion(x) == Combined(x, [union |-> x], UnionChain, unionCharSet, unionSet)
intersection(x) ==
    Combined(x, [intersection |-> x], IntersectionChain, intersectionCharSet, intersectionSet)
setDifference(x) ==
    Combined(x, [setDifference |-> x], SetDifferenceChain, setDifferenceCharSet, setDifferenceSet)

Next ==
    \E x \in Both :
        /\ Usable(x)
        /\ \/ size(x) \/ isEmpty(x) \/ clear(x) \/ clone(x) \/ foreach(x)
           \/ get(x) \/ set(x) \/ insertAt(x) \/ put(x) \/ containsKey(x)
           \/ add(x) \/ remove(x) \/ pushElement(x) \/ popElement(x)
           \/ enqueue(x) \/ dequeue(x) \/ peek(x) \/ writeBuffer(x) \/ readBuffer(x)
           \/ containsElement(x) \/ addStringTo(x) \/ setCompareFn(x)
           \/ equals(x) \/ isSubset(x) \/ xunion(x) \/ intersection(x)
           \/ setDifference(x)

Spec == Init /\ [][Next]_vars

-------------------------------------------------------------------------------
P == INSTANCE Promises

\* The calls that do not keep their promise.
Spoils(x) == content' = [content EXCEPT ![x] = [type |-> "undefined"]]

\* printfCapacity, which strbuf.h calls adequate, counts less than is printed, for
\* a width where it does not look for one or for a number that is too long.
Overflows ==
    \E x \in Both, conversion \in Conversions, ch \in Characters :
        /\ Usable(x) /\ printfCapacity(conversion) < Printed(conversion)
        /\ call' = [sbprintf |-> <<x, conversion, ch>>] /\ answer' = Nothing
        /\ Spoils(x)

\* A map or a set was cleared (clearBST keeps the root), and the call reads its tree.
ReadsFreed ==
    /\ \E x \in Both : Usable(x) /\ Freed(x)
    /\ \E x \in Both : /\ call' \notin {[size |-> x], [isEmpty |-> x]} /\ answer' = Nothing
                     /\ Spoils(x)

\* No set of characters can be gone through.
IteratesNone == \E x \in Both : /\ Usable(x) /\ T(x) = "CharSet" /\ call' = [foreach |-> x]
                                /\ answer' \in {Error, Several(<<>>)} /\ UNCHANGED content

\* But for these three, every call of every interleaving of calls on a collection
\* and its clone returns and leaves what the interfaces say, also after the arrays
\* have grown (expandCapacity, ensureCapacity), cells have been freed and reused,
\* and calls have failed; the clone does not follow the original.
KeepsPromises ==
    P!Init /\ [][P!Next \/ Overflows \/ ReadsFreed \/ IteratesNone]_<<content, call, answer>>

\* What each type's functions expect of the representation they get: arrays no
\* shorter than capacity says, lists of count cells that end at tail with none
\* left over (queue.c), chains with each key once in the bucket of its hash
\* code (hashmap.c), nodes in the order of the comparison function (set.c).
WellFormed(c) ==
    CASE c.type \in {"Vector", "Stack"} ->
            DOMAIN c.elements = 0..c.capacity - 1 /\ c.count <= c.capacity
      [] c.type = "StringBuffer" ->
            DOMAIN c.buffer = 0..c.capacity - 1 /\ c.count <= c.capacity
      [] c.type = "Queue" ->
            /\ DOMAIN c.cells = {CellAt(c)[i] : i \in 0..c.count - 1}
            /\ CellAt(c)[c.count] = NoCell
            /\ c.tail = IF c.count = 0 THEN NoCell ELSE CellAt(c)[c.count - 1]
      [] c.type = "HashMap" ->
            /\ \A b \in 0..NBuckets - 1 : \A i, j \in 1..Len(c.buckets[b]) :
                  /\ bucketOf(c.buckets[b][i].key) = b
                  /\ c.buckets[b][i].key = c.buckets[b][j].key => i = j
            /\ c.count = Len(CellsOf(c))
      [] c.type \in {"Set", "Map"} ->
            \A i, j \in 1..Len(c.nodes) :
                i < j => Rank(c.cmpFn, c.nodes[i].key) < Rank(c.cmpFn, c.nodes[j].key)
      [] OTHER -> DOMAIN c.bits = Words
TypeOK == \A x \in Both : Usable(x) => T(x) \in Types /\ WellFormed(coll[x])
===============================================================================
