----------------------------- MODULE PriorityQueue ----------------------------
(***************************************************************************)
(* Priority queues (pqueue.c): a heap in an array that doubles when it is  *)
(* full.  One step is the part of a call before its loop, or one pass of   *)
(* the loop that moves an entry up or down.                                *)
(***************************************************************************)
EXTENDS Integers, Generic, Blocks
CONSTANTS
    Priorities,
    InitialHeapCapacity,    \* INITIAL_CAPACITY
    PQCalls,                \* the operations the program calls
    MaxSequence             \* bound on the values that come

ASSUME PriorityQueueAssumption ==
    /\ Priorities \subseteq Int
    /\ InitialHeapCapacity \in Nat \ {0}
    /\ MaxSequence \in Nat

VARIABLES
    heap, capacity, count, back, sequence,     \* PriorityQueueCDT
    loop,       \* the loop that runs: "up" in enqueue, "down" in dequeue, or "none";
                \* "crashed" when the program was stopped
    index,      \* of the entry that moves
    wasBack,    \* dequeue: back was the last entry
    last        \* the last operation, its arguments and what it returns

pqvars == <<heap, capacity, count, back, sequence, loop, index, wasBack, last>>

Entries == [value : Values, priority : Priorities, sequence : Nat]

\* newPriorityQueue and clonePriorityQueue do not set back, which then is any number.
NotSet == -1

PQInit == /\ heap = [i \in 0..InitialHeapCapacity - 1 |-> Junk]
          /\ capacity = InitialHeapCapacity
          /\ count = 0 /\ sequence = 0 /\ back = NotSet
          /\ loop = "none" /\ index = 0 /\ wasBack = FALSE
          /\ last = [made |-> "new"]

\* Mutant: entries of one priority are not told apart.
takesPriorityOnly(h, i1, i2) == h[i1].priority <= h[i2].priority

takesPriority(h, i1, i2) ==
    \/ h[i1].priority < h[i2].priority
    \/ h[i1].priority = h[i2].priority /\ h[i1].sequence < h[i2].sequence

swapHeapEntries(h, i1, i2) == [h EXCEPT ![i1] = h[i2], ![i2] = h[i1]]

expandHeap(h) == [i \in 0..2 * capacity - 1 |-> IF i < count THEN h[i] ELSE Junk]

Idle(operation) == loop = "none" /\ operation \in PQCalls

\* Whether the entry at back comes before the new one at count.
BackTakesPriority(h) == IF back = NotSet THEN BOOLEAN ELSE {takesPriority(h, back, count)}

enqueuePriorityQueue(value, priority) ==
    /\ LET room == IF count = capacity THEN expandHeap(heap) ELSE heap
           added == [room EXCEPT ![count] = [value |-> value, priority |-> priority,
                                             sequence |-> sequence]]
       IN /\ heap' = added
          /\ capacity' = IF count = capacity THEN 2 * capacity ELSE capacity
          /\ IF count = 0 THEN back' = 0
             ELSE \E before \in BackTakesPriority(added) :
                     back' = IF before THEN count ELSE back
    /\ sequence' = sequence + 1
    /\ count' = count + 1 /\ index' = count /\ loop' = "up"
    /\ UNCHANGED wasBack

\* A priority is passed to enqueuePriorityQueue, which is declared with a double, or
\* to the generic enqueue, as a double or as an int.
Arguments == [passed : {"declared", "double", "int"}, priority : Priorities]

\* The generic enqueue reads its argument both as a double and as an int, and takes
\* the int if the double is near zero.  It does not find the int that was not passed,
\* nor the double that was not, but what the register holds.
Guessed(argument) == \/ argument.passed = "int"
                     \/ argument.passed = "double" /\ argument.priority = 0
PrioritiesRead(argument) == IF Guessed(argument) THEN Priorities ELSE {argument.priority}

\* heap[back] with a back that is not set may lie outside the program's memory.
ReadOutside == /\ count # 0 /\ back = NotSet
               /\ loop' = "crashed"
               /\ UNCHANGED <<heap, capacity, count, back, sequence, index, wasBack, last>>

\* Enqueuing a value by either function.
Enqueue(value, argument) ==
    /\ Idle("enqueue") /\ sequence < MaxSequence
    /\ argument.passed # "declared" =>
           Handler(EnqueueChain, "PriorityQueue") = "PriorityQueue"
    /\ \/ /\ \E priority \in PrioritiesRead(argument) : enqueuePriorityQueue(value, priority)
          /\ last' = [made |-> "enqueue", value |-> value, argument |-> argument]
       \/ ReadOutside

\* One pass of the loop of enqueue.
MoveUp ==
    /\ loop = "up"
    /\ LET parent == (index - 1) \div 2
       IN IF index = 0
          THEN loop' = "none" /\ UNCHANGED <<heap, index>>
          ELSE IF takesPriority(heap, parent, index)
          THEN loop' = "none" /\ UNCHANGED <<heap, index>>
          ELSE /\ heap' = swapHeapEntries(heap, parent, index)
               /\ index' = parent
               /\ UNCHANGED loop
    /\ UNCHANGED <<capacity, count, back, sequence, wasBack, last>>

error(call) == last' = [made |-> "error", call |-> call]
Unchanged == UNCHANGED <<heap, capacity, count, back, sequence, loop, index, wasBack>>

dequeuePriorityQueue ==
    /\ Idle("dequeue")
    /\ IF count = 0 THEN error("dequeue") /\ Unchanged
       ELSE /\ count' = count - 1
            /\ wasBack' \in IF back = NotSet THEN BOOLEAN ELSE {back = count - 1}
            /\ last' = [made |-> "dequeue", value |-> heap[0].value]
            /\ heap' = swapHeapEntries(heap, 0, count - 1)
            /\ index' = 0 /\ loop' = "down"
            /\ UNCHANGED <<capacity, back, sequence>>

\* Mutant: the left child is taken whichever comes first.
LeftChild(i) == 2 * i + 1

\* The child that comes first.
FirstChild(i) ==
    IF 2 * i + 2 < count
    THEN IF takesPriority(heap, 2 * i + 2, 2 * i + 1) THEN 2 * i + 2 ELSE 2 * i + 1
    ELSE 2 * i + 1

\* Mutant: back stays where the last entry was.
LoopEndsLeavingBack == loop' = "none" /\ UNCHANGED <<heap, index, back>>

LoopEnds == /\ loop' = "none"
            /\ back' = IF wasBack THEN index ELSE back
            /\ UNCHANGED <<heap, index>>

\* One pass of the loop of dequeue.
MoveDown ==
    /\ loop = "down"
    /\ IF 2 * index + 1 >= count THEN LoopEnds
       ELSE IF takesPriority(heap, index, FirstChild(index)) THEN LoopEnds
       ELSE /\ heap' = swapHeapEntries(heap, index, FirstChild(index))
            /\ index' = FirstChild(index)
            /\ UNCHANGED <<loop, back>>
    /\ UNCHANGED <<capacity, count, sequence, wasBack, last>>

peekPriorityQueue ==
    /\ Idle("peek")
    /\ IF count = 0 THEN error("peek")
       ELSE last' = [made |-> "peek", value |-> heap[0].value]
    /\ Unchanged

peekPriority ==
    /\ Idle("peekPriority")
    /\ IF count = 0 THEN error("peekPriority")
       ELSE last' = [made |-> "peekPriority", priority |-> heap[0].priority]
    /\ Unchanged

\* clear is called with the array of the heap, whose type it does not know.
clearPriorityQueue ==
    /\ Idle("clear")
    /\ Handler(ClearChain, "HeapEntry") = "error"
    /\ error("clear")
    /\ Unchanged

\* The program goes on with the clone, whose array holds the entries in use.
clonePriorityQueue ==
    /\ Idle("clone")
    /\ heap' = [i \in 0..capacity - 1 |-> IF i < count THEN heap[i] ELSE Junk]
    /\ back' = NotSet
    /\ last' = [made |-> "clone"]
    /\ UNCHANGED <<capacity, count, sequence, loop, index, wasBack>>

PQNext ==
    \/ \E value \in Values, argument \in Arguments : Enqueue(value, argument)
    \/ MoveUp \/ dequeuePriorityQueue \/ MoveDown
    \/ peekPriorityQueue \/ peekPriority \/ clearPriorityQueue \/ clonePriorityQueue

PQSpec == PQInit /\ [][PQNext]_pqvars
-------------------------------------------------------------------------------
InUse == 0..count - 1
Parent(i) == (i - 1) \div 2

\* index and back, unless it is not set, are places of the array.
PQTypeOK ==
    /\ capacity \in Nat \ {0} /\ count \in 0..capacity /\ sequence \in 0..MaxSequence
    /\ heap \in [0..capacity - 1 -> Entries \cup {Junk}]
    /\ \A i \in InUse : heap[i] \in Entries
    /\ back \in 0..capacity - 1 \cup {NotSet} /\ index \in 0..capacity - 1
    /\ wasBack \in BOOLEAN /\ loop \in {"none", "up", "down", "crashed"}

\* Between two calls no entry comes before its parent in the heap, whatever has
\* been put in, taken out and copied before (pqueue.c:107 and 126).
HeapOrder ==
    loop = "none" => \A i \in InUse \ {0} : takesPriority(heap, Parent(i), i)

\* back, once set, is the place of an entry in use: the comparison in enqueue
\* reads no entry that is gone or was never there (pqueue.c:107).
BackInUse == loop # "down" /\ count > 0 /\ back # NotSet => back \in InUse

EntriesInUse == {heap[i] : i \in InUse}
O == INSTANCE PriorityOrder WITH entries <- EntriesInUse, arrived <- sequence

\* Where the code does less than pqueue.h says.  clear refuses every queue and loses
\* no value (pqueue.h:126), and a value comes with another priority than the one
\* passed when the generic enqueue has to guess (pqueue.h:64).
ClearRefuses == /\ last' = [made |-> "error", call |-> "clear"]
                /\ UNCHANGED <<EntriesInUse, sequence>>
ComesMisread ==
    \E value \in Values, argument \in Arguments, priority \in Priorities :
        /\ Guessed(argument)
        /\ O!Comes(value, priority)
        /\ last' = [made |-> "enqueue", value |-> value, argument |-> argument]

\* But for these two, a call does what pqueue.h says, and returns the value whose
\* turn it is: lowest priority first, and first come, first served within one.
ServesInOrder == O!OrderInit /\ [][O!OrderNext \/ ClearRefuses \/ ComesMisread]_O!ordervars
===============================================================================
