----------------------------- MODULE MCCollections ----------------------------
(* A program uses priority queues or one of the other collections.           *)
EXTENDS Collections, PriorityQueue
VARIABLE using      \* "collections" or "priority queue"

EitherInit ==
    /\ Init /\ PQInit
    /\ using \in {"collections", "priority queue"}
    /\ using = "priority queue" => coll.first = newStack
EitherNext ==
    /\ \/ using = "collections" /\ Next /\ UNCHANGED pqvars
       \/ using = "priority queue" /\ PQNext /\ UNCHANGED vars
    /\ UNCHANGED using
Either == EitherInit /\ [][EitherNext]_<<vars, pqvars, using>>

\* Two keys in one bucket, one in the other.
MCHash(key) == key
\* Keys 2 and 3 are one to the second comparison function.
MCRank(order, key) == IF order = "natural" THEN key ELSE IF key = 1 THEN 2 ELSE 1
MCArrays == {<<value>> : value \in Values}
MCMapValues == {"x", Null}
Conversion(letter, width, precision, length) ==
    [letter |-> letter, width |-> width, precision |-> precision, length |-> length]
\* "%s", "%2s", "%.1s" and "%1d"; of the last three ("%2.1s", "%2c" and a number of
\* more digits than MaxNumberDigits) printfCapacity counts too little.
MCConversions ==
    {Conversion("s", -1, -1, 1), Conversion("s", 2, -1, 1), Conversion("s", -1, 1, 2),
     Conversion("d", 1, -1, 2),
     Conversion("s", 2, 1, 2), Conversion("c", 2, -1, 1), Conversion("f", -1, -1, 3)}
\* char may be signed.
MCCharacters == {-1, 1, 2}
\* No operation depends on the call before it or on what that returned.
MCView == <<using, coll, heap, capacity, count, back, sequence, loop, index, wasBack>>
===============================================================================
