-------------------------- MODULE LinearCollections ---------------------------
(***************************************************************************)
(* Vectors (vector.c) and stacks (stack.c): an array that doubles when it  *)
(* is full, the top of a stack at its end.  Elements from count on are     *)
(* what earlier calls left there.  Queues (queue.c): a list of linked      *)
(* cells.  String buffers (strbuf.c): a character is any value.            *)
(***************************************************************************)
EXTENDS Integers, Sequences, Functions, TLC, Blocks

CONSTANTS
    InitialCapacity,        \* of a vector
    InitialStackCapacity,
    InitialBufferCapacity,  \* of a string buffer
    MaxNumberDigits

ASSUME InitialCapacityAssumption == InitialCapacity \in Nat \ {0}

newVector ==
    [type |-> "Vector", elements |-> [i \in 0..InitialCapacity - 1 |-> Junk],
     count |-> 0, capacity |-> InitialCapacity]

arrayToVector(array) ==
    [type |-> "Vector", elements |-> [i \in 0..Len(array) - 1 |-> array[i + 1]],
     count |-> Len(array), capacity |-> Len(array)]

vectorToArray(v) == [i \in 1..v.count |-> v.elements[i - 1]]

clearVector(v) == [v EXCEPT !.count = 0]

cloneVector(v) ==
    [v EXCEPT !.elements =
        [i \in 0..v.capacity - 1 |-> IF i < v.count THEN v.elements[i] ELSE Junk]]

InRange(v, index) == 0 <= index /\ index < v.count

setVector(v, index, value) == [v EXCEPT !.elements[index] = value]

\* Mutant: the elements are not copied into the new array.
expandCapacityNoCopy(v) ==
    [v EXCEPT !.elements = [i \in 0..2 * v.capacity - 1 |-> Junk],
              !.capacity = 2 * v.capacity]

expandCapacity(v) ==
    [v EXCEPT !.elements =
                  [i \in 0..2 * v.capacity - 1 |->
                      IF i < v.count THEN v.elements[i] ELSE Junk],
              !.capacity = 2 * v.capacity]

WithRoom(v) == IF v.count = v.capacity THEN expandCapacity(v) ELSE v

addVector(v, value) ==
    [WithRoom(v) EXCEPT !.elements[v.count] = value, !.count = v.count + 1]

\* insert moves the elements from index on up by one.
insert(v, index, value) ==
    LET w == WithRoom(v)
    IN [w EXCEPT !.elements =
                     [i \in 0..w.capacity - 1 |->
                         IF index < i /\ i <= v.count THEN w.elements[i - 1]
                         ELSE IF i = index THEN value ELSE w.elements[i]],
                 !.count = v.count + 1]

\* removeVector moves the elements after index down by one.
removeVector(v, index) ==
    [v EXCEPT !.elements =
                  [i \in 0..v.capacity - 1 |->
                      IF index <= i /\ i < v.count - 1 THEN v.elements[i + 1]
                      ELSE v.elements[i]],
              !.count = v.count - 1]

-------------------------------------------------------------------------------
(* Stacks.                                                                   *)
newStack ==
    [type |-> "Stack", elements |-> [i \in 0..InitialStackCapacity - 1 |-> Junk],
     count |-> 0, capacity |-> InitialStackCapacity]

\* It copies all the array, which is full.
expandStack(s) ==
    [s EXCEPT !.elements =
                  [i \in 0..2 * s.capacity - 1 |->
                      IF i < s.capacity THEN s.elements[i] ELSE Junk],
              !.capacity = 2 * s.capacity]

StackWithRoom(s) == IF s.count = s.capacity THEN expandStack(s) ELSE s

push(s, value) ==
    [StackWithRoom(s) EXCEPT !.elements[s.count] = value, !.count = s.count + 1]

pop(s) == [s EXCEPT !.count = s.count - 1]
peekStack(s) == s.elements[s.count - 1]
clearStack(s) == [s EXCEPT !.count = 0]

cloneStack(s) ==
    [s EXCEPT !.elements =
        [i \in 0..s.capacity - 1 |-> IF i < s.count THEN s.elements[i] ELSE Junk]]

-------------------------------------------------------------------------------
(* Queues: the first cell at head and the last at tail.                      *)
NoCell == 0
NewCell(q) == CHOOSE c \in 1..q.count + 1 : c \notin DOMAIN q.cells

newQueue ==
    [type |-> "Queue", cells |-> [c \in {} |-> {}], head |-> NoCell, tail |-> NoCell,
     count |-> 0]

enqueueQueue(q, value) ==
    LET c == NewCell(q)
    IN [q EXCEPT !.cells = [d \in DOMAIN q.cells \cup {c} |->
                               IF d = c THEN [value |-> value, link |-> NoCell]
                               ELSE IF d = q.tail THEN [q.cells[d] EXCEPT !.link = c]
                               ELSE q.cells[d]],
                 !.head = IF q.tail = NoCell THEN c ELSE @,
                 !.tail = c, !.count = q.count + 1]

\* Mutant: tail stays at the last cell.
dequeueQueueTailStays(q) ==
    [q EXCEPT !.head = q.cells[q.head].link, !.count = q.count - 1,
              !.cells = Restrict(q.cells, DOMAIN q.cells \ {q.head})]

\* The cell at the head is freed.
dequeueQueue(q) ==
    LET next == q.cells[q.head].link
    IN [q EXCEPT !.head = next, !.tail = IF next = NoCell THEN NoCell ELSE @,
                 !.count = q.count - 1, !.cells = Restrict(q.cells, DOMAIN q.cells \ {q.head})]

peekQueue(q) == q.cells[q.head].value

\* The cells from the head on, and their values.
CellAt(q) == LET at[i \in 0..q.count] == IF i = 0 THEN q.head ELSE q.cells[at[i - 1]].link
             IN at
QueueValues(q) == [i \in 1..q.count |-> q.cells[CellAt(q)[i - 1]].value]

\* clearQueue takes the elements off one by one; the last leaves a new queue.
clearQueue(q) ==
    LET left[n \in 0..q.count] == IF n = q.count THEN q ELSE dequeueQueue(left[n + 1])
    IN left[0]

\* cloneQueue enqueues what it finds from the head on.
cloneQueue(q) ==
    LET copied[n \in 0..q.count] ==
            IF n = 0 THEN newQueue ELSE enqueueQueue(copied[n - 1], QueueValues(q)[n])
    IN copied[q.count]

-------------------------------------------------------------------------------
(* String buffers.                                                           *)
newStringBuffer ==
    [type |-> "StringBuffer", buffer |-> [i \in 0..InitialBufferCapacity - 1 |-> Junk],
     count |-> 0, capacity |-> InitialBufferCapacity]

\* The first doubling of the capacity that is enough.
Doubled(from, enough) ==
    LET cap[c \in from..2 * (from + enough)] == IF c >= enough THEN c ELSE cap[2 * c]
    IN cap[from]

ensureCapacity(sb, capacity) ==
    IF sb.capacity >= capacity THEN sb
    ELSE LET from == IF sb.capacity < InitialBufferCapacity THEN InitialBufferCapacity
                     ELSE sb.capacity
             cap == Doubled(from, capacity)
         IN [sb EXCEPT !.capacity = cap,
                       !.buffer = [i \in 0..cap - 1 |->
                                      IF i < sb.count THEN sb.buffer[i] ELSE Junk]]

\* The characters of str and a NUL after them, if there is one, are written
\* behind the buffer's: the same in pushChar, appendString, vsprintf and
\* getString.  Nothing is known of a block written behind its end.
Write(sb, str, nul) ==
    LET text == str \o nul
    IN IF sb.count + Len(text) > sb.capacity THEN [type |-> "undefined"]
       ELSE [sb EXCEPT !.buffer = [i \in sb.count..sb.count + Len(text) - 1 |->
                                      text[i - sb.count + 1]] @@ @,
                       !.count = sb.count + Len(str)]
Nul == <<"NUL">>

pushChar(sb, ch) == Write(ensureCapacity(sb, sb.count + 1), <<ch>>, <<>>)
popChar(sb) == [sb EXCEPT !.count = sb.count - 1]
appendString(sb, str) == Write(ensureCapacity(sb, sb.count + Len(str)), str, <<>>)

\* One conversion of a format, with the width and the precision it states (-1
\* if it does not) and the length of its argument as it is printed without them.
printfCapacity(conversion) ==
    CASE conversion.letter = "c" -> 1
      [] conversion.letter = "s" ->
            IF conversion.precision >= 0 THEN conversion.precision
            ELSE IF conversion.width > conversion.length THEN conversion.width
            ELSE conversion.length
      [] OTHER ->     \* numbers
            IF conversion.width > MaxNumberDigits THEN conversion.width ELSE MaxNumberDigits

\* vsprintf, of the C library: the characters it prints, without the NUL.
Printed(conversion) ==
    LET shown == IF conversion.letter = "s" /\ conversion.precision >= 0
                    /\ conversion.precision < conversion.length
                 THEN conversion.precision ELSE conversion.length
    IN IF conversion.width > shown THEN conversion.width ELSE shown

\* sbprintf and sbFormat: room for what printfCapacity says and a NUL.
sbprintf(sb, conversion, ch) ==
    Write(ensureCapacity(sb, sb.count + printfCapacity(conversion) + 1),
          [i \in 1..Printed(conversion) |-> ch], Nul)

clearStringBuffer(sb) == [sb EXCEPT !.count = 0]

getString(sb) == Write(ensureCapacity(sb, sb.count + 1), <<>>, Nul)

BufferChars(sb) == [i \in 1..sb.count |-> sb.buffer[i - 1]]
===============================================================================
