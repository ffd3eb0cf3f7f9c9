----------------------------- MODULE PriorityOrder ----------------------------
(***************************************************************************)
(* What pqueue.h says of a priority queue: values leave it in the order of *)
(* their priorities, and values of one priority in the order in which they *)
(* came; clear removes them all.                                           *)
(***************************************************************************)
EXTENDS Naturals
CONSTANTS
    Values,
    Arguments,      \* what a value may be passed with: a record with its priority
    MaxSequence     \* bound on the values that come
VARIABLES
    entries,    \* what is in the queue: value, priority and number
    arrived,    \* how many values have come
    last        \* the last operation, its arguments and what it returned

ordervars == <<entries, arrived, last>>

\* The entry a comes before the entry b.
Precedes(a, b) == \/ a.priority < b.priority
                  \/ a.priority = b.priority /\ a.sequence < b.sequence
IsFirst(e) == e \in entries /\ \A f \in entries \ {e} : Precedes(e, f)

OrderInit == entries = {} /\ arrived = 0 /\ last = [made |-> "new"]

Comes(value, priority) ==
    /\ arrived < MaxSequence
    /\ entries' = entries \cup {[value |-> value, priority |-> priority, sequence |-> arrived]}
    /\ arrived' = arrived + 1

Arrive(value, argument) ==
    /\ Comes(value, argument.priority)
    /\ last' = [made |-> "enqueue", value |-> value, argument |-> argument]

\* The first leaves, or is looked at.
Leave == /\ \E e \in entries : /\ IsFirst(e)
                               /\ entries' = entries \ {e}
                               /\ last' = [made |-> "dequeue", value |-> e.value]
         /\ UNCHANGED arrived
Look == /\ \E e \in entries : /\ IsFirst(e)
                              /\ \/ last' = [made |-> "peek", value |-> e.value]
                                 \/ last' = [made |-> "peekPriority", priority |-> e.priority]
        /\ UNCHANGED <<entries, arrived>>

\* An empty queue has no first entry.
Refuse == /\ entries = {}
          /\ \E call \in {"dequeue", "peek", "peekPriority"} :
                last' = [made |-> "error", call |-> call]
          /\ UNCHANGED <<entries, arrived>>

Clear == entries' = {} /\ last' = [made |-> "clear"] /\ UNCHANGED arrived
Copy == last' = [made |-> "clone"] /\ UNCHANGED <<entries, arrived>>

OrderNext ==
    \/ \E value \in Values, argument \in Arguments : Arrive(value, argument)
    \/ Leave \/ Look \/ Refuse \/ Clear \/ Copy

OrderSpec == OrderInit /\ [][OrderNext]_ordervars
===============================================================================
