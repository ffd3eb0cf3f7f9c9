-------------------------------- MODULE Promises ------------------------------
(***************************************************************************)
(* What the interfaces (vector.h, stack.h, queue.h, strbuf.h, hashmap.h,   *)
(* map.h, charset.h, set.h) say of the operations on a collection, whose   *)
(* items are a sequence, a function or a set.  A call fails with an error  *)
(* when the type does not have the operation or an argument is out of      *)
(* range, and then nothing has changed.                                    *)
(***************************************************************************)
EXTENDS Integers, Sequences, FiniteSets, Functions
CONSTANTS
    Null, Values, MapValues, Keys, Characters, NChars,
    Conversions, Printed(_),    \* of formats, and the length of what they print
    Orders, Rank(_, _)          \* comparison functions and the place they give a key
VARIABLES
    content,    \* of the two collections: type, order and items, or NULL
    call,       \* the last operation and its arguments
    answer      \* and what it returned

Both == {"first", "second"}
Is(x, types) == content[x] # Null /\ content[x].type \in types
Items(x) == content[x].items

Sequential == {"Vector", "Stack", "Queue", "StringBuffer"}
Mapping == {"HashMap", "Map"}
Sets == {"CharSet", "Set"}
All == Sequential \cup Mapping \cup Sets
Elements(x) == IF Is(x, {"CharSet"}) THEN Characters
               ELSE IF Is(x, {"Set"} \cup Mapping) THEN Keys ELSE Values

\* Two elements of a set are one if the comparison function says so.
Place(x, e) == IF content[x].type = "CharSet" THEN e % NChars ELSE Rank(content[x].order, e)
Has(x, e) == \E f \in Items(x) : Place(x, f) = Place(x, e)
Stored(x, e) == IF content[x].type = "CharSet" THEN e % NChars ELSE e

\* After an operation: its value with the items as they were, or no value with
\* others.
Nothing == [nothing |-> TRUE]
Error == [error |-> TRUE]
Same == UNCHANGED content
Yields(a) == answer' = a /\ Same
Value(v) == [value |-> v]
Bool(b) == [bool |-> b]
Becomes(x, items) == content' = [content EXCEPT ![x].items = items]
Leaves(x, items) == Becomes(x, items) /\ answer' = Nothing
Second(items, of) == /\ content' = [content EXCEPT !.second = [content[of] EXCEPT !.items = items]]
                     /\ answer' = Nothing

\* The operation made, of these types; it fails when it may not.
Says(x, made, types, may, effect) ==
    /\ Is(x, types) /\ call' = made
    /\ IF may THEN effect ELSE Yields(Error)

Init == /\ DOMAIN content = Both
        /\ content.first # Null /\ content.second = Null
        /\ call = Nothing /\ answer = Nothing

Size(x) == IF Is(x, Sequential) THEN Len(Items(x))
           ELSE IF Is(x, Mapping) THEN Cardinality(DOMAIN Items(x))
           ELSE Cardinality(Items(x))
NoItems(x) == IF Is(x, Sequential) THEN <<>>
              ELSE IF Is(x, Mapping) THEN [k \in {} |-> Null] ELSE {}

\* Every element once: in order, or in any order for a hash map, whose keys
\* without a value are left out.
Visited(x, s) ==
    LET all == IF Is(x, Sets) THEN Items(x)
               ELSE IF Is(x, {"Map"}) THEN DOMAIN Items(x)
               ELSE {k \in DOMAIN Items(x) : Items(x)[k] # Null}
    IN IF Is(x, {"Vector"}) THEN s = Items(x)
       ELSE /\ Range(s) = all /\ Len(s) = Cardinality(all)
            /\ ~Is(x, {"HashMap"}) =>
                  \A i, j \in 1..Len(s) : i < j => Place(x, s[i]) < Place(x, s[j])

OfAll(x) ==
    \/ Says(x, [size |-> x], All, TRUE, Yields([number |-> Size(x)]))
    \/ Says(x, [isEmpty |-> x], All, TRUE, Yields(Bool(Size(x) = 0)))
    \/ Says(x, [clear |-> x], All, TRUE, Leaves(x, NoItems(x)))
    \/ Says(x, [clone |-> x], All \ {"StringBuffer"}, TRUE, Second(Items(x), x))
    \/ Says(x, [foreach |-> x], {"Vector"} \cup Mapping \cup Sets, TRUE,
            Same /\ "several" \in DOMAIN answer' /\ Visited(x, answer'.several))

\* Vectors count from 0.
At(x) == 0..Size(x) - 1
Inserted(s, i, v) == SubSeq(s, 1, i) \o <<v>> \o SubSeq(s, i + 1, Len(s))
Without(s, i) == SubSeq(s, 1, i) \o SubSeq(s, i + 2, Len(s))

OfVectors(x) ==
    \E index \in -1..Size(x) + 1, value \in Values :
        \/ Says(x, [get |-> <<x, index>>], {"Vector"}, index \in At(x),
                Yields(Value(Items(x)[index + 1])))
        \/ Says(x, [set |-> <<x, index, value>>], {"Vector"}, index \in At(x),
                Leaves(x, [Items(x) EXCEPT ![index + 1] = value]))
        \/ Says(x, [insertAt |-> <<x, index, value>>], {"Vector"}, index \in 0..Size(x),
                Leaves(x, Inserted(Items(x), index, value)))
        \/ Says(x, [add |-> <<x, value>>], {"Vector"}, TRUE,
                Leaves(x, Append(Items(x), value)))
        \/ Says(x, [remove |-> <<x, index>>], {"Vector"}, index \in At(x),
                Leaves(x, Without(Items(x), index)))

\* Taking the element at the end or at the beginning off, or looking at it.
Takes(x, made, types, item, items) ==
    Says(x, made, types, Items(x) # <<>>, Becomes(x, items) /\ answer' = Value(item))
Top(x) == Items(x)[Size(x)]
AllButTop(x) == SubSeq(Items(x), 1, Size(x) - 1)

OfQueuesAndStacks(x) ==
    \/ \E value \in Values :
          \/ Says(x, [push |-> <<x, value>>], {"Stack"}, TRUE,
                  Leaves(x, Append(Items(x), value)))
          \/ Says(x, [enqueue |-> <<x, value>>], {"Queue"}, TRUE,
                  Leaves(x, Append(Items(x), value)))
    \/ Takes(x, [pop |-> x], {"Stack"}, Top(x), AllButTop(x))
    \/ Takes(x, [dequeue |-> x], {"Queue"}, Head(Items(x)), Tail(Items(x)))
    \/ Takes(x, [peek |-> x], {"Queue", "Stack"},
             IF Is(x, {"Queue"}) THEN Head(Items(x)) ELSE Top(x), Items(x))

OfStringBuffers(x) ==
    \/ \E ch, c2 \in Characters :
          \/ Says(x, [pushChar |-> <<x, ch>>], {"StringBuffer"}, TRUE,
                  Leaves(x, Append(Items(x), ch)))
          \/ Says(x, [appendString |-> <<x, ch, c2>>], {"StringBuffer"}, TRUE,
                  Leaves(x, Items(x) \o <<ch, c2>>))
    \/ \E conversion \in Conversions, ch \in Characters :
          Says(x, [sbprintf |-> <<x, conversion, ch>>], {"StringBuffer"}, TRUE,
              Leaves(x, Items(x) \o [i \in 1..Printed(conversion) |-> ch]))
    \/ Takes(x, [popChar |-> x], {"StringBuffer"}, Top(x), AllButTop(x))
    \/ Says(x, [getString |-> x], {"StringBuffer"}, TRUE, Yields([several |-> Items(x)]))

OfMaps(x) ==
    \E key \in Keys :
        \/ \E value \in MapValues :
              Says(x, [put |-> <<x, key, value>>], Mapping, TRUE,
                  Leaves(x, [k \in DOMAIN Items(x) \cup {key} |->
                                IF k = key THEN value ELSE Items(x)[k]]))
        \/ Says(x, [get |-> <<x, key>>], Mapping, TRUE,
                Yields(Value(IF key \in DOMAIN Items(x) THEN Items(x)[key] ELSE Null)))
        \/ Says(x, [containsKey |-> <<x, key>>], Mapping, TRUE,
                Yields(Bool(key \in DOMAIN Items(x))))
        \/ Says(x, [remove |-> <<x, key>>], Mapping, TRUE,
                Leaves(x, Restrict(Items(x), DOMAIN Items(x) \ {key})))

OfSets(x) ==
    \/ \E e \in Elements(x) :
          \/ Says(x, [contains |-> <<x, e>>], Sets, TRUE, Yields(Bool(Has(x, e))))
          \/ Says(x, [add |-> <<x, e>>], Sets, TRUE,
                  Leaves(x, Items(x) \cup (IF Has(x, e) THEN {} ELSE {Stored(x, e)})))
          \/ Says(x, [remove |-> <<x, e>>], Sets, TRUE,
                  Leaves(x, {f \in Items(x) : Place(x, f) # Place(x, e)}))
    \/ \E c1, c2 \in Characters :
          Says(x, [addString |-> <<x, c1, c2>>], {"CharSet"}, TRUE,
              Leaves(x, Items(x) \cup {Stored(x, c1), Stored(x, c2)}))
    \/ \E order \in Orders :
          Says(x, [setCompareFn |-> <<x, order>>], {"Set"}, TRUE,
              /\ Items(x) = {} /\ answer' = Nothing
              /\ content' = [content EXCEPT ![x].order = order])

\* Operations on two sets, which must have the same comparison function; what
\* they make is the second set from now on.
OfTwoSets(x, y) ==
    LET both(e) == Has(y, e)
        Of(made, effect) == Says(x, made, Sets, content[x].order = content[y].order, effect)
        subset == \A e \in Items(x) : Has(y, e)
    IN \/ Of([isSubset |-> x], Yields(Bool(subset)))
       \/ Of([equals |-> x], Yields(Bool(subset /\ \A e \in Items(y) : Has(x, e))))
       \/ Of([union |-> x], Second(Items(x) \cup {e \in Items(y) : ~Has(x, e)}, x))
       \/ Of([intersection |-> x], Second({e \in Items(x) : Has(y, e)}, x))
       \/ Of([setDifference |-> x], Second({e \in Items(x) : ~Has(y, e)}, x))

\* An operation that the type does not have fails, whatever its arguments.
Lacks(x) ==
    LET only(types, calls) == IF Is(x, types) THEN {} ELSE calls
        arguments == {<<x, e>> : e \in Elements(x)}
        ofSets == {[isSubset |-> x], [equals |-> x], [union |-> x], [intersection |-> x],
                   [setDifference |-> x]}
    IN /\ Yields(Error)
       /\ \/ call' \in only(All \ {"StringBuffer"}, {[clone |-> x]})
          \/ call' \in only({"Vector"} \cup Mapping \cup Sets, {[foreach |-> x]})
          \/ call' \in only({"Queue"}, {[dequeue |-> x]})
          \/ call' \in only({"Queue", "Stack"}, {[peek |-> x]})
          \/ call' \in only(Sets, ofSets)
          \/ call' \in only({"Vector"} \cup Mapping, {[get |-> <<x, k>>] : k \in Keys})
          \/ call' \in only(Mapping, {[containsKey |-> <<x, k>>] : k \in Keys})
          \/ call' \in only(Mapping, {[put |-> <<x, k, v>>] : k \in Keys, v \in MapValues})
          \/ call' \in only({"Vector"}, {[set |-> <<x, 0, v>>] : v \in Values})
          \/ call' \in only({"Queue"}, {[enqueue |-> <<x, v>>] : v \in Values})
          \/ call' \in only({"Vector"} \cup Sets, {[add |-> a] : a \in arguments})
          \/ call' \in only({"Vector"} \cup Mapping \cup Sets, {[remove |-> a] : a \in arguments})
          \/ call' \in only(Sets, {[contains |-> a] : a \in arguments})

Next ==
    \E x \in Both :
        /\ content[x] # Null
        /\ \/ OfAll(x)
           \/ Is(x, {"Vector"}) /\ OfVectors(x)
           \/ Is(x, {"Queue", "Stack"}) /\ OfQueuesAndStacks(x)
           \/ Is(x, {"StringBuffer"}) /\ OfStringBuffers(x)
           \/ Is(x, Mapping) /\ OfMaps(x)
           \/ Is(x, Sets) /\ OfSets(x)
           \/ \E y \in Both \ {x} : Is(x, Sets) /\ content[y] # Null /\ OfTwoSets(x, y)
           \/ Lacks(x)

Spec == Init /\ [][Next]_<<content, call, answer>>
===============================================================================
