------------------------- MODULE EventServiceProofs -------------------------
(***************************************************************************)
(* Why the protocol gives the program the event service gevents.h          *)
(* describes: every step of the two processes is a step of EventService or *)
(* leaves it alone.  First what EventsIn, defined by recursion over the    *)
(* pipe, makes of a line added or taken; then the steps.                   *)
(***************************************************************************)
EXTENDS RepliesProofs, FiniteSetTheorems, WellFoundedInduction

\* The kinds of the events getResult queues.
QueueKinds == InputKinds \cup {"NULL"}

\* A set of numbers has a least one.
LEMMA LeastNumber ==
    ASSUME NEW S, S \subseteq Nat, S # {}
    PROVE  \E x \in S : \A y \in S : x <= y
<1> DEFINE Below == {0..x : x \in S}
<1>1. IsWellFoundedOn(StrictSubsetOrdering(Nat), FiniteSubsetsOf(Nat))
  BY FS_StrictSubsetOrderingWellFounded
<1>2. Below \subseteq FiniteSubsetsOf(Nat)
  <2> SUFFICES ASSUME NEW x \in S PROVE 0..x \in FiniteSubsetsOf(Nat)
    OBVIOUS
  <2>1. x \in Int /\ 0 \in Int /\ 0..x \subseteq Nat
    OBVIOUS
  <2>2. IsFiniteSet(0..x)
    BY <2>1, FS_Interval
  <2> QED
    BY <2>1, <2>2 DEF FiniteSubsetsOf
<1>0. Below # {}
  OBVIOUS
<1> HIDE DEF Below
<1>3. PICK m \in Below : \A b \in Below : ~ (<<b, m>> \in StrictSubsetOrdering(Nat))
  BY <1>0, <1>1, <1>2, WFMin
<1> USE DEF Below
<1>4. PICK x \in S : m = 0..x
  BY <1>3
<1>5. ASSUME NEW y \in S, y < x PROVE FALSE
  <2>1. 0..y \subseteq 0..x /\ x \in 0..x /\ x \notin 0..y
    BY <1>5
  <2>2. <<0..y, 0..x>> \in StrictSubsetOrdering(Nat)
    BY <2>1 DEF StrictSubsetOrdering
  <2> QED
    BY <2>2, <1>3, <1>4
<1> QED
  BY <1>5

-----------------------------------------------------------------------------
\* f[i] lists the events among the first i lines, for i up to n.
Then(kinds, l) == IF l.what \in InputKinds THEN Append(kinds, l.what) ELSE kinds
CountsTo(lines, n, f) ==
    f = [i \in 0 .. n |-> IF i = 0 THEN <<>> ELSE Then(f[i - 1], lines[i])]
EventsUpTo(lines) == CHOOSE f : CountsTo(lines, Len(lines), f)

\* What an entry is, from the entry before.
LEMMA CountUnfolds ==
    ASSUME NEW lines, NEW n \in Nat, NEW f, CountsTo(lines, n, f)
    PROVE  /\ DOMAIN f = 0 .. n /\ f = [i \in 0 .. n |-> f[i]]
           /\ f[0] = <<>>
           /\ \A i \in 1 .. n : f[i] = Then(f[i - 1], lines[i])
<1>1. PICK h : h = [i \in 0 .. n |-> IF i = 0 THEN <<>> ELSE Then(f[i - 1], lines[i])]
  OBVIOUS
<1>2. f = h
  BY <1>1, Zenon DEF CountsTo
<1>3. DOMAIN h = 0 .. n /\ h = [i \in 0 .. n |-> h[i]]
  BY <1>1
<1>4. ASSUME NEW i \in 0 .. n
      PROVE  h[i] = IF i = 0 THEN <<>> ELSE Then(f[i - 1], lines[i])
  BY <1>1
<1>5. h[0] = <<>>
  BY <1>4
<1>6. ASSUME NEW i \in 1 .. n PROVE h[i] = Then(f[i - 1], lines[i])
  BY <1>4
<1> QED
  BY <1>2, <1>3, <1>5, <1>6

\* Two such lists agree: at the first place they differ they would have been
\* continued alike.
LEMMA OneCount ==
    ASSUME NEW lines, NEW n \in Nat, NEW f, NEW g, CountsTo(lines, n, f), CountsTo(lines, n, g)
    PROVE  f = g
<1>1. /\ f = [i \in 0 .. n |-> f[i]] /\ f[0] = <<>>
      /\ \A i \in 1 .. n : f[i] = Then(f[i - 1], lines[i])
  BY CountUnfolds
<1>2. /\ g = [i \in 0 .. n |-> g[i]] /\ g[0] = <<>>
      /\ \A i \in 1 .. n : g[i] = Then(g[i - 1], lines[i])
  BY CountUnfolds
<1> DEFINE Differ == {i \in 0 .. n : f[i] # g[i]}
<1>3. Differ = {}
  <2> SUFFICES ASSUME Differ # {} PROVE FALSE
    OBVIOUS
  <2>0. Differ \subseteq Nat
    OBVIOUS
  <2>1. PICK m \in Differ : \A y \in Differ : m <= y
    BY <2>0, LeastNumber
  <2>2. m # 0 /\ m \in 1 .. n /\ m - 1 \in 0 .. n
    BY <1>1, <1>2
  <2>3. m - 1 \notin Differ
    BY <2>0, <2>1
  <2>4. f[m - 1] = g[m - 1]
    BY <2>2, <2>3
  <2>5. f[m] = g[m]
    BY <1>1, <1>2, <2>2, <2>4
  <2> QED
    BY <2>5
<1>4. \A i \in 0 .. n : f[i] = g[i]
  BY <1>3
<1>5. [i \in 0 .. n |-> f[i]] = [i \in 0 .. n |-> g[i]]
  BY <1>4
<1> QED
  BY <1>1, <1>2, <1>5

\* There is one: the shortest prefix without one could be continued.
LEMMA SomeCount ==
    ASSUME NEW lines, NEW n \in Nat
    PROVE  \E f : CountsTo(lines, n, f)
<1> DEFINE Without == {m \in Nat : ~ \E f : CountsTo(lines, m, f)}
<1>1. Without = {}
  <2> SUFFICES ASSUME Without # {} PROVE FALSE
    OBVIOUS
  <2>0. Without \subseteq Nat
    OBVIOUS
  <2> HIDE DEF Without
  <2>1. PICK m \in Without : \A y \in Without : m <= y
    BY <2>0, LeastNumber
  <2> USE DEF Without
  <2>2. m # 0
    <3>1. CountsTo(lines, 0, [i \in 0 .. 0 |-> <<>>])
      BY DEF CountsTo
    <3> QED
      BY <3>1
  <2>3. PICK g : CountsTo(lines, m - 1, g)
    BY <2>1, <2>2
  <2> DEFINE h == [i \in 0 .. m |-> IF i = m THEN Then(g[m - 1], lines[m]) ELSE g[i]]
  <2>4. CountsTo(lines, m, h)
    <3> SUFFICES ASSUME NEW i \in 0 .. m
                 PROVE  h[i] = IF i = 0 THEN <<>> ELSE Then(h[i - 1], lines[i])
      BY DEF CountsTo
    <3>1. CASE i = m
      BY <2>2, <3>1
    <3>2. CASE i # m
      <4>1. g[i] = IF i = 0 THEN <<>> ELSE Then(g[i - 1], lines[i])
        BY <2>2, <2>3, <3>2 DEF CountsTo
      <4> QED
        BY <2>2, <3>2, <4>1
    <3> QED
      BY <3>1, <3>2
  <2> QED
    BY <2>4
<1> QED
  BY <1>1

LEMMA TheCount ==
    ASSUME NEW S, NEW lines \in Seq(S)
    PROVE  /\ CountsTo(lines, Len(lines), EventsUpTo(lines))
           /\ EventsIn(lines) = EventsUpTo(lines)[Len(lines)]
<1>1. Len(lines) \in Nat
  OBVIOUS
<1>2. CountsTo(lines, Len(lines), EventsUpTo(lines))
  BY <1>1, SomeCount, Zenon DEF EventsUpTo
<1>3. EventsIn(lines) = EventsUpTo(lines)[Len(lines)]
  BY Zenon DEF EventsIn, EventsUpTo, CountsTo, Then
<1> QED
  BY <1>2, <1>3

\* A line with no event in it changes nothing; one with an event adds it.
LEMMA EventsInEmpty == EventsIn(<<>>) = <<>>
<1>1. <<>> \in Seq({}) /\ Len(<<>>) = 0 /\ 0 \in Nat
  OBVIOUS
<1>2. CountsTo(<<>>, 0, EventsUpTo(<<>>)) /\ EventsIn(<<>>) = EventsUpTo(<<>>)[0]
  BY <1>1, TheCount
<1> QED
  BY <1>1, <1>2, CountUnfolds

LEMMA EventsInAppend ==
    ASSUME NEW S, NEW lines \in Seq(S), NEW l \in S
    PROVE  EventsIn(Append(lines, l)) = Then(EventsIn(lines), l)
<1> DEFINE n == Len(lines)
           more == Append(lines, l)
           f == EventsUpTo(lines)
           g == [i \in 0 .. n + 1 |-> IF i = n + 1 THEN Then(f[n], l) ELSE f[i]]
<1>1. /\ n \in Nat /\ more \in Seq(S) /\ Len(more) = n + 1
      /\ more[n + 1] = l /\ \A i \in 1 .. n : more[i] = lines[i]
  OBVIOUS
<1>2. CountsTo(lines, n, f) /\ EventsIn(lines) = f[n]
  BY TheCount
<1> HIDE DEF f, n, more
<1>3. f[0] = <<>> /\ \A i \in 1 .. n : f[i] = Then(f[i - 1], lines[i])
  BY <1>1, <1>2, CountUnfolds
<1>4. CountsTo(more, n + 1, g)
  <2> SUFFICES ASSUME NEW i \in 0 .. n + 1
               PROVE  g[i] = IF i = 0 THEN <<>> ELSE Then(g[i - 1], more[i])
    BY DEF CountsTo
  <2>1. CASE i = n + 1
    <3>1. g[i] = Then(f[n], l) /\ g[i - 1] = f[n] /\ i # 0
      BY <1>1, <2>1
    <3> QED
      BY <1>1, <2>1, <3>1
  <2>2. CASE i = 0
    BY <1>1, <1>3, <2>2
  <2>3. CASE i \in 1 .. n
    <3>1. g[i] = f[i] /\ g[i - 1] = f[i - 1] /\ i # 0
      BY <1>1, <2>3
    <3> QED
      BY <1>1, <1>3, <2>3, <3>1
  <2> QED
    BY <1>1, <2>1, <2>2, <2>3
<1>5. CountsTo(more, n + 1, EventsUpTo(more)) /\ EventsIn(more) = EventsUpTo(more)[n + 1]
  BY <1>1, TheCount
<1>6. EventsUpTo(more) = g
  <2>1. n + 1 \in Nat
    BY <1>1
  <2> HIDE DEF g
  <2> QED
    BY <1>4, <1>5, <2>1, OneCount
<1>7. g[n + 1] = Then(f[n], l)
  BY <1>1
<1> QED
  BY <1>2, <1>5, <1>6, <1>7 DEF more

LEMMA AppendToConcat ==
    ASSUME NEW S, NEW a \in Seq(S), NEW b \in Seq(S), NEW x \in S
    PROVE  a \o Append(b, x) = Append(a \o b, x)
<1> DEFINE p == a \o Append(b, x)
           q == Append(a \o b, x)
<1>1. p \in Seq(S) /\ q \in Seq(S) /\ Len(p) = Len(q)
  OBVIOUS
<1>2. \A i \in 1 .. Len(p) : p[i] = q[i]
  OBVIOUS
<1> QED
  BY <1>1, <1>2

LEMMA ThenType ==
    ASSUME NEW kinds \in Seq(QueueKinds), NEW l
    PROVE  Then(kinds, l) \in Seq(QueueKinds)
<1>1. l.what \in InputKinds => l.what \in QueueKinds
  BY DEF QueueKinds
<1> QED
  BY <1>1 DEF Then

\* The events of the first line come before those of the rest.
LEMMA CountType ==
    ASSUME NEW lines \in Seq(Lines), NEW f, CountsTo(lines, Len(lines), f)
    PROVE  \A i \in 0 .. Len(lines) : f[i] \in Seq(QueueKinds)
<1> DEFINE n == Len(lines)
           Bad == {i \in 0 .. n : f[i] \notin Seq(QueueKinds)}
<1>0. n \in Nat /\ \A i \in 1 .. n : lines[i] \in Lines
  OBVIOUS
<1>1. f[0] = <<>> /\ \A i \in 1 .. n : f[i] = Then(f[i - 1], lines[i])
  BY <1>0, CountUnfolds
<1>2. Bad \subseteq Nat
  OBVIOUS
<1> HIDE DEF n
<1>3. SUFFICES ASSUME Bad # {} PROVE FALSE
  BY DEF n
<1> HIDE DEF Bad
<1>4. PICK m \in Bad : \A y \in Bad : m <= y
  BY <1>2, <1>3, LeastNumber
<1>5. m \in 0 .. n /\ f[m] \notin Seq(QueueKinds)
  BY <1>4 DEF Bad
<1>6. m # 0
  <2>1. <<>> \in Seq(QueueKinds)
    OBVIOUS
  <2> QED
    BY <1>1, <1>5, <2>1
<1>7. f[m - 1] \in Seq(QueueKinds)
  BY <1>0, <1>4, <1>5, <1>6 DEF Bad
<1>8. f[m] = Then(f[m - 1], lines[m]) /\ lines[m] \in Lines
  BY <1>0, <1>1, <1>5, <1>6
<1> QED
  BY <1>5, <1>7, <1>8, ThenType

LEMMA EventsInType ==
    ASSUME NEW lines \in Seq(Lines)
    PROVE  EventsIn(lines) \in Seq(QueueKinds)
<1>1. Len(lines) \in 0 .. Len(lines)
  OBVIOUS
<1> QED
  BY <1>1, TheCount, CountType

LEMMA EventsInHead ==
    ASSUME NEW lines \in Seq(Lines), lines # <<>>
    PROVE  EventsIn(lines) = Then(<<>>, Head(lines)) \o EventsIn(Tail(lines))
<1> DEFINE n == Len(lines)
           rest == Tail(lines)
           first == Then(<<>>, Head(lines))
           h == EventsUpTo(rest)
           g == [i \in 0 .. n |-> IF i = 0 THEN <<>> ELSE first \o h[i - 1]]
<1>1. /\ n \in Nat \ {0} /\ rest \in Seq(Lines) /\ Len(rest) = n - 1 /\ n - 1 \in Nat
      /\ Head(lines) = lines[1] /\ \A i \in 2 .. n : rest[i - 1] = lines[i]
  OBVIOUS
<1>2. first \in Seq(QueueKinds)
  <2>1. <<>> \in Seq(QueueKinds)
    OBVIOUS
  <2> QED
    BY <2>1, ThenType
<1>3. CountsTo(rest, n - 1, h) /\ EventsIn(rest) = h[n - 1]
  BY <1>1, TheCount
<1>4. \A i \in 0 .. n - 1 : h[i] \in Seq(QueueKinds)
  BY <1>1, <1>3, CountType
<1> HIDE DEF h, n, rest
<1>5. h[0] = <<>> /\ \A i \in 1 .. n - 1 : h[i] = Then(h[i - 1], rest[i])
  BY <1>1, <1>3, CountUnfolds
<1>6. CountsTo(lines, n, g)
  <2> HIDE DEF first
  <2> SUFFICES ASSUME NEW i \in 0 .. n
               PROVE  g[i] = IF i = 0 THEN <<>> ELSE Then(g[i - 1], lines[i])
    BY DEF CountsTo
  <2>1. CASE i = 0
    BY <2>1
  <2>2. CASE i = 1
    <3>1. g[i] = first \o h[0] /\ g[i - 1] = <<>>
      BY <1>1, <2>2
    <3>2. first \o h[0] = first
      BY <1>2, <1>5
    <3> QED
      BY <1>1, <2>2, <3>1, <3>2 DEF first
  <2>3. CASE i \in 2 .. n
    <3>1. g[i] = first \o h[i - 1] /\ g[i - 1] = first \o h[i - 2] /\ i # 0
      <4>1. i # 0 /\ i - 1 \in 0 .. n /\ i - 1 # 0 /\ (i - 1) - 1 = i - 2
        BY <1>1, <2>3
      <4> QED
        BY <4>1
    <3>2. h[i - 1] = Then(h[i - 2], lines[i])
      <4>1. i - 1 \in 1 .. n - 1 /\ (i - 1) - 1 = i - 2
        BY <1>1, <2>3
      <4> QED
        BY <1>1, <1>5, <2>3, <4>1
    <3>3. h[i - 2] \in Seq(QueueKinds)
      BY <1>1, <1>4, <2>3
    <3>4. lines[i].what \in InputKinds => lines[i].what \in QueueKinds
      BY DEF QueueKinds
    <3>5. first \o Then(h[i - 2], lines[i]) = Then(first \o h[i - 2], lines[i])
      <4> DEFINE what == lines[i].what
      <4> HIDE DEF what
      <4>1. ASSUME what \in QueueKinds
            PROVE  first \o Append(h[i - 2], what) = Append(first \o h[i - 2], what)
        BY <1>2, <3>3, <4>1, AppendToConcat
      <4> USE <3>4 DEF what
      <4> QED
        BY <4>1 DEF Then
    <3> QED
      BY <3>1, <3>2, <3>5
  <2> QED
    BY <1>1, <2>1, <2>2, <2>3
<1>7. CountsTo(lines, n, EventsUpTo(lines)) /\ EventsIn(lines) = EventsUpTo(lines)[n]
  BY TheCount DEF n
<1>8. EventsUpTo(lines) = g
  <2> HIDE DEF g
  <2> QED
    BY <1>1, <1>6, <1>7, OneCount
<1>9. g[n] = first \o h[n - 1]
  <2>1. n \in 0 .. n /\ n # 0
    BY <1>1
  <2> HIDE DEF first
  <2> QED
    BY <2>1
<1> QED
  BY <1>3, <1>7, <1>8, <1>9 DEF rest

\* A pipe with no event line on it holds no event.
LEMMA EventsInNone ==
    ASSUME NEW lines \in Seq(Lines), \A i \in DOMAIN lines : lines[i].what \notin InputKinds
    PROVE  EventsIn(lines) = <<>>
<1> DEFINE n == Len(lines)
           f == EventsUpTo(lines)
           Some == {i \in 0 .. n : f[i] # <<>>}
<1>0. n \in Nat /\ \A i \in 1 .. n : lines[i].what \notin InputKinds
  OBVIOUS
<1>1. CountsTo(lines, n, f) /\ EventsIn(lines) = f[n]
  BY TheCount
<1> HIDE DEF n, f
<1>2. f[0] = <<>> /\ \A i \in 1 .. n : f[i] = Then(f[i - 1], lines[i])
  BY <1>0, <1>1, CountUnfolds
<1>3. Some = {}
  <2> SUFFICES ASSUME Some # {} PROVE FALSE
    OBVIOUS
  <2>0. Some \subseteq Nat
    BY <1>0
  <2>1. PICK m \in Some : \A y \in Some : m <= y
    <3> HIDE DEF Some
    <3> QED
      BY <2>0, LeastNumber
  <2>2. m \in 1 .. n /\ m - 1 \in 0 .. n
    BY <1>0, <1>2, <2>1
  <2>3. f[m - 1] = <<>>
    BY <2>1, <2>2
  <2>4. f[m] = <<>>
    BY <1>0, <1>2, <2>2, <2>3 DEF Then
  <2> QED
    BY <2>1, <2>4
<1> QED
  BY <1>0, <1>1, <1>3

-----------------------------------------------------------------------------
\* Sequences put together and taken apart.
LEMMA AppendThenConcat ==
    ASSUME NEW S, NEW a \in Seq(S), NEW b \in Seq(S), NEW x \in S
    PROVE  Append(a, x) \o b = a \o (<<x>> \o b)
<1> DEFINE p == Append(a, x) \o b
           q == a \o (<<x>> \o b)
<1>1. p \in Seq(S) /\ q \in Seq(S) /\ Len(p) = Len(q)
  OBVIOUS
<1>2. \A i \in 1 .. Len(p) : p[i] = q[i]
  OBVIOUS
<1> QED
  BY <1>1, <1>2

LEMMA ConcatHead ==
    ASSUME NEW S, NEW a \in Seq(S), NEW b \in Seq(S), a # <<>>
    PROVE  a \o b # <<>> /\ Head(a \o b) = Head(a) /\ Tail(a \o b) = Tail(a) \o b
<1> DEFINE p == Tail(a \o b)
           q == Tail(a) \o b
<1>1. /\ a \o b \in Seq(S) /\ Len(a \o b) = Len(a) + Len(b) /\ Len(a) \in Nat \ {0}
      /\ Len(b) \in Nat /\ Tail(a) \in Seq(S) /\ Len(Tail(a)) = Len(a) - 1
  OBVIOUS
<1>2. a \o b # <<>> /\ Head(a \o b) = Head(a)
  BY <1>1
<1>3. p \in Seq(S) /\ q \in Seq(S) /\ Len(p) = Len(q)
  BY <1>1, <1>2
<1>4. \A i \in 1 .. Len(p) : p[i] = q[i]
  BY <1>1, <1>2
<1> QED
  BY <1>2, <1>3, <1>4

LEMMA ConcatDrop ==
    ASSUME NEW S, NEW a \in Seq(S), NEW b \in Seq(S)
    PROVE  SubSeq(a \o b, Len(a) + 1, Len(a \o b)) = b
<1> DEFINE p == SubSeq(a \o b, Len(a) + 1, Len(a \o b))
<1>1. /\ a \o b \in Seq(S) /\ Len(a \o b) = Len(a) + Len(b) /\ Len(a) \in Nat
      /\ Len(b) \in Nat
  OBVIOUS
<1>2. p \in Seq(S) /\ Len(p) = Len(b)
  BY <1>1
<1>3. \A i \in 1 .. Len(b) : p[i] = b[i]
  BY <1>1
<1> QED
  BY <1>2, <1>3

\* The kinds of the queue, as it grows and shrinks.
LEMMA KindsOfQueue ==
    ASSUME NEW queue \in Seq(Events)
    PROVE  /\ KindsOf(queue) \in Seq(QueueKinds)
           /\ Len(KindsOf(queue)) = Len(queue)
           /\ queue = <<>> <=> KindsOf(queue) = <<>>
           /\ queue # <<>> => /\ Head(KindsOf(queue)) = Head(queue).kind
                              /\ KindsOf(Tail(queue)) = Tail(KindsOf(queue))
           /\ \A e \in Events : /\ e.kind \in QueueKinds
                                 /\ KindsOf(Append(queue, e)) = Append(KindsOf(queue), e.kind)
<1> DEFINE k == KindsOf(queue)
<1>0. \A e \in Events : e.kind \in QueueKinds
  BY DEF Events, NullEvent, QueueKinds
<1>1. Len(queue) \in Nat /\ DOMAIN queue = 1 .. Len(queue)
      /\ \A i \in 1 .. Len(queue) : queue[i] \in Events
  OBVIOUS
<1>2. k = [i \in 1 .. Len(queue) |-> queue[i].kind]
  BY <1>1 DEF KindsOf
<1>3. \A i \in 1 .. Len(queue) : queue[i].kind \in QueueKinds
  BY <1>0, <1>1
<1>4. k \in Seq(QueueKinds) /\ Len(k) = Len(queue)
  BY <1>1, <1>2, <1>3
<1>5. queue = <<>> <=> k = <<>>
  BY <1>4
<1>6. ASSUME queue # <<>>
      PROVE  Head(k) = Head(queue).kind /\ KindsOf(Tail(queue)) = Tail(k)
  <2>1. Len(queue) \in Nat \ {0} /\ Tail(queue) \in Seq(Events)
        /\ Len(Tail(queue)) = Len(queue) - 1
    BY <1>6
  <2>2. Head(k) = Head(queue).kind
    BY <1>2, <1>4, <1>6, <2>1
  <2> DEFINE p == KindsOf(Tail(queue))
             q == Tail(k)
  <2>3. p = [i \in 1 .. Len(queue) - 1 |-> Tail(queue)[i].kind]
    BY <2>1 DEF KindsOf
  <2>4. \A i \in 1 .. Len(queue) - 1 : /\ Tail(queue)[i] = queue[i + 1]
                                       /\ i + 1 \in 1 .. Len(queue)
    BY <1>6, <2>1
  <2>5. p \in Seq(QueueKinds) /\ Len(p) = Len(queue) - 1
        /\ \A i \in 1 .. Len(queue) - 1 : p[i] = k[i + 1]
    <3> DEFINE n == Len(queue) - 1
    <3>1. n \in Nat /\ \A i \in 1 .. n : i + 1 \in 1 .. Len(queue)
      BY <2>1
    <3>2. \A i \in 1 .. n : /\ Tail(queue)[i].kind = k[i + 1]
                           /\ Tail(queue)[i].kind \in QueueKinds
      BY <1>2, <1>3, <2>4, <3>1
    <3> HIDE DEF k, n
    <3> USE <2>3 DEF n
    <3>3. p = [i \in 1 .. n |-> Tail(queue)[i].kind]
      OBVIOUS
    <3> HIDE <2>3
    <3> HIDE DEF p, n
    <3> QED
      BY <3>1, <3>2, <3>3 DEF n
  <2> HIDE DEF p, k
  <2>6. k # <<>> /\ Len(k) \in Nat
    BY <1>1, <1>4, <1>5, <1>6
  <2>7. q \in Seq(QueueKinds) /\ Len(q) = Len(queue) - 1
        /\ \A i \in 1 .. Len(queue) - 1 : q[i] = k[i + 1]
    BY <1>4, <2>6
  <2> HIDE DEF q
  <2>8. p = q
    BY <2>5, <2>7
  <2> QED
    BY <2>2, <2>8 DEF k, p, q
<1>7. ASSUME NEW e \in Events PROVE KindsOf(Append(queue, e)) = Append(k, e.kind)
  <2> DEFINE n == Len(queue)
             longer == Append(queue, e)
             p == KindsOf(longer)
             q == Append(k, e.kind)
  <2>1. longer \in Seq(Events) /\ Len(longer) = n + 1 /\ DOMAIN longer = 1 .. n + 1
        /\ longer[n + 1] = e /\ \A i \in 1 .. n : longer[i] = queue[i]
    OBVIOUS
  <2>2. p = [i \in 1 .. n + 1 |-> longer[i].kind]
    BY <2>1 DEF KindsOf
  <2>3. q = [i \in 1 .. n + 1 |-> IF i = n + 1 THEN e.kind ELSE k[i]]
    BY <1>0, <1>1, <1>4
  <2>4. \A i \in 1 .. n + 1 : longer[i].kind = IF i = n + 1 THEN e.kind ELSE k[i]
    BY <1>1, <1>2, <2>1
  <2> QED
    BY <2>2, <2>3, <2>4
<1> QED
  BY <1>0, <1>4, <1>5, <1>6, <1>7

-----------------------------------------------------------------------------
\* The state of the service while the protocol serves it.
AskedFor == IF waiting \in AskFns THEN waiting ELSE "no"
FoundNone == waiting = "getNextEvent" /\ eventQueue = <<>> /\ AnswerComesFirst
Simulates == [Service!Next]_(Service!vars)

\* The steps of the service, in terms of the two processes.
LEMMA Stutters ==
    ASSUME Serving, Serving', PendingEvents' = PendingEvents, AskedFor' = AskedFor,
           askedMask' = askedMask, FoundNone' = FoundNone, returned' = returned
    PROVE  Simulates
BY DEF Simulates, Service!vars, AskedFor, FoundNone

LEMMA Occurs ==
    ASSUME Serving, Serving', NEW kind \in InputKinds,
           PendingEvents' = Append(PendingEvents, kind), AskedFor' = AskedFor,
           askedMask' = askedMask, FoundNone' = FoundNone, returned' = returned
    PROVE  Simulates
<1>1. AskedFor # "ended"
  BY DEF AskedFor, AskFns
<1>2. Service!Occur(kind)
  BY <1>1 DEF Service!Occur, AskedFor, FoundNone
<1> QED
  BY <1>2 DEF Simulates, Service!Next

LEMMA Asks ==
    ASSUME Serving, Serving', PendingEvents' = PendingEvents, AskedFor = "no",
           AskedFor' \in AskFns, askedMask' \in Masks, FoundNone' = FoundNone,
           returned' = returned
    PROVE  Simulates
<1> PICK m : m = askedMask'
  OBVIOUS
<1>1. Service!Ask(AskedFor', m)
  BY DEF Service!Ask, AskedFor, FoundNone
<1>2. m \in SUBSET Classes
  BY DEF Masks
<1> QED
  BY <1>1, <1>2 DEF Simulates, Service!Next, AskFns

\* The first event is the oldest one covered if it is covered.
LEMMA Delivers ==
    ASSUME Serving, Serving', PendingEvents \in Seq(QueueKinds), PendingEvents # <<>>,
           returned'.kind = Head(PendingEvents), PendingEvents' = Tail(PendingEvents),
           AskedFor' = "no", ~FoundNone', askedMask' \in Masks,
           AskedFor = "no" \/ askedMask' = askedMask,
           Head(PendingEvents) \in InputKinds,
           ClassesOf(Head(PendingEvents)) \cap askedMask' # {}
    PROVE  Simulates
<1> PICK m : m = askedMask'
  OBVIOUS
<1>0. m \in SUBSET Classes
  BY DEF Masks
<1>1. AskedFor # "ended"
  BY DEF AskedFor, AskFns
<1>2. /\ 1 \in DOMAIN PendingEvents /\ PendingEvents[1] = Head(PendingEvents)
      /\ SubSeq(PendingEvents, 1, 1 - 1) \o SubSeq(PendingEvents, 1 + 1, Len(PendingEvents))
             = Tail(PendingEvents)
  <2> PICK p : p = PendingEvents
    OBVIOUS
  <2>1. p \in Seq(QueueKinds) /\ p # <<>>
    OBVIOUS
  <2>2. SubSeq(p, 1, 0) = <<>> /\ SubSeq(p, 2, Len(p)) = Tail(p) /\ Tail(p) \in Seq(QueueKinds)
    BY <2>1
  <2>3. <<>> \o Tail(p) = Tail(p)
    BY <2>2
  <2> QED
    BY <2>1, <2>2, <2>3
<1>3. Service!Oldest(m, 1)
  BY <1>2 DEF Service!Oldest, Service!Covers
<1>4. Service!Deliver(m)
  BY <1>1, <1>2, <1>3 DEF Service!Deliver, AskedFor, FoundNone
<1> QED
  BY <1>0, <1>4 DEF Simulates, Service!Next

LEMMA FindsNone ==
    ASSUME Serving, Serving', PendingEvents = <<>>, PendingEvents' = <<>>,
           waiting = "getNextEvent", AskedFor' = AskedFor, askedMask' = askedMask,
           FoundNone', returned' = returned
    PROVE  Simulates
<1>1. AskedFor = "getNextEvent"
  BY DEF AskedFor, AskFns
<1>2. Service!FindNone
  BY <1>1 DEF Service!FindNone, AskedFor, FoundNone
<1> QED
  BY <1>2 DEF Simulates, Service!Next

LEMMA ReturnsNone ==
    ASSUME Serving, Serving', FoundNone, PendingEvents' = PendingEvents,
           returned' = NoEvent, AskedFor' = "no", askedMask' = askedMask, ~FoundNone'
    PROVE  Simulates
<1>1. Service!ReturnNone
  BY DEF Service!ReturnNone, AskedFor, FoundNone, NoEvent
<1> QED
  BY <1>1 DEF Simulates, Service!Next

LEMMA Forgets ==
    ASSUME Serving, Serving', NEW n \in 1 .. Len(PendingEvents),
           PendingEvents' = SubSeq(PendingEvents, n + 1, Len(PendingEvents)),
           AskedFor = "no", AskedFor' = "no", askedMask' = askedMask,
           ~FoundNone, ~FoundNone', returned' = returned
    PROVE  Simulates
<1>1. Service!Forget
  BY DEF Service!Forget, AskedFor, FoundNone
<1> QED
  BY <1>1 DEF Simulates, Service!Next

LEMMA Ends == ~Serving' => Simulates
<1>1. ~Serving' => Service!End
  BY DEF Service!End
<1> QED
  BY <1>1 DEF Simulates, Service!Next

LEMMA HasEnded == ~Serving /\ ~Serving' => Simulates
BY DEF Simulates, Service!vars

-----------------------------------------------------------------------------
\* What the back end does that the service can see: it prints at most one line.
LEMMA BackPrints ==
    ASSUME TypeOK, BackStep
    PROVE  /\ UNCHANGED frontVars /\ client' = client
           /\ \/ fromJBE' = fromJBE
              \/ \E l \in Lines : PrintLine(l)
<1>0. UNCHANGED frontVars
  BY DEF BackStep
<1>1. CASE UserStep
  BY <1>0, <1>1 DEF UserStep, HandleInput, IgnoreInput, Input, pipeVars
<1>2. ASSUME NEW t \in Threads, ListenerStep(t)
      PROVE  client' = client /\ (fromJBE' = fromJBE \/ \E l \in Lines : PrintLine(l))
  <2>1. CASE EndLine(t)
    <3>1. (IF partial = "broken" THEN Junk ELSE line[t]) \in Lines
      BY DEF Junk, JunkLines, Lines, TypeOK, BackTypeOK
    <3> QED
      BY <2>1, <3>1 DEF EndLine
  <2>2. CASE Acknowledge(t)
    BY <2>2, ResultType DEF Acknowledge, AcknowledgeEvent
  <2> QED
    BY <1>2, <2>1, <2>2 DEF ListenerStep, BeginLine, RemoveWindow, StoreCount, TestCount,
                            ExitJVM, pipeVars
<1>3. ASSUME CommandStep
      PROVE  client' = client /\ (fromJBE' = fromJBE \/ \E l \in Lines : PrintLine(l))
  <2>1. CASE Reply
    <3>1. EventLine("garbled", Nobody) \in Lines
      BY EventLineType DEF Lines, Sources
    <3> QED
      BY <2>1, <3>1, ResultType DEF Reply
  <2>2. CASE AnswerNow
    BY <2>2, ResultType DEF AnswerNow
  <2>3. CASE ShowWindow \/ AwaitEvent \/ SetMask
    BY <2>3 DEF ShowWindow, AwaitEvent, SetMask, pipeVars
  <2> QED
    BY <1>3, <2>1, <2>2, <2>3 DEF CommandStep, GTimer_pause, GWindow_create, NoReply,
       GWindow_close, SetTimer, GEvent_ask, Execute
<1> QED
  BY <1>0, <1>1, <1>2, <1>3 DEF BackStep, ThreadStep

\* A line on the pipe is an event that occurs, or may be the answer that there
\* is none; what comes first stays first.
LEMMA BackServes ==
    ASSUME TypeOK, Serving, BackStep
    PROVE  Simulates
<1>1. UNCHANGED <<frontVars, client>>
  BY BackPrints
<1>2. CASE ~Serving'
  BY <1>2, Ends
<1> SUFFICES ASSUME Serving' PROVE Simulates
  BY <1>2
<1>3. AskedFor' = AskedFor /\ returned' = returned /\ waiting' = waiting
      /\ eventQueue' = eventQueue /\ askedMask' = askedMask
  BY <1>1 DEF frontVars, AskedFor
<1>4. CASE fromJBE' = fromJBE
  BY <1>3, <1>4, Stutters DEF PendingEvents, FoundNone, AnswerComesFirst
<1>5. ASSUME NEW l \in Lines, PrintLine(l) PROVE Simulates
  <2>1. fromJBE' = Append(fromJBE, l)
    BY <1>5 DEF PrintLine, Serving
  <2>2. /\ fromJBE \in Seq(Lines) /\ EventsIn(fromJBE) \in Seq(QueueKinds)
        /\ KindsOf(eventQueue) \in Seq(QueueKinds)
    BY EventsInType, KindsOfQueue DEF TypeOK, PipesTypeOK, FrontTypeOK
  <2> PICK n : n = Len(fromJBE)
    OBVIOUS
  <2>3. /\ n \in Nat /\ DOMAIN fromJBE = 1 .. n /\ DOMAIN fromJBE' = 1 .. n + 1
        /\ fromJBE'[n + 1] = l
        /\ \A i \in 1 .. n : fromJBE'[i] = fromJBE[i]
    BY <2>1, <2>2, AppendIndex
  <2>4. AnswerComesFirst => AnswerComesFirst'
    BY <2>3 DEF AnswerComesFirst
  <2>5. CASE l.what \in InputKinds
    <3>1. l.what \in QueueKinds
      BY <2>5 DEF QueueKinds
    <3>2. PendingEvents' = Append(PendingEvents, l.what)
      <4>1. EventsIn(fromJBE)' = Append(EventsIn(fromJBE), l.what)
        BY <2>1, <2>2, <2>5, EventsInAppend DEF Then
      <4> QED
        BY <1>3, <2>2, <3>1, <4>1, AppendToConcat DEF PendingEvents
    <3>3. AnswerComesFirst' => AnswerComesFirst
      <4>1. l.tag # "result"
        BY <2>5 DEF Lines, EventLines, ResultLines, JunkLines, InputKinds
      <4> QED
        BY <2>3, <4>1 DEF AnswerComesFirst
    <3> QED
      BY <1>3, <2>4, <2>5, <3>2, <3>3, Occurs DEF FoundNone
  <2>6. CASE l.what \notin InputKinds
    <3>1. PendingEvents' = PendingEvents
      BY <1>3, <2>1, <2>2, <2>6, EventsInAppend DEF PendingEvents, Then
    <3>2. CASE FoundNone' = FoundNone
      BY <1>3, <3>1, <3>2, Stutters
    <3>3. CASE FoundNone' # FoundNone
      <4>1. FoundNone' /\ ~AnswerComesFirst /\ waiting = "getNextEvent" /\ eventQueue = <<>>
        BY <1>3, <2>4, <3>3 DEF FoundNone
      <4>2. \A i \in DOMAIN fromJBE : fromJBE[i].what \notin InputKinds
        BY <2>3, <4>1 DEF FoundNone, AnswerComesFirst
      <4>3. PendingEvents = <<>>
        <5>1. EventsIn(fromJBE) = <<>>
          BY <2>2, <4>2, EventsInNone
        <5>2. KindsOf(eventQueue) = <<>>
          BY <4>1, KindsOfQueue DEF TypeOK, FrontTypeOK
        <5> QED
          BY <5>1, <5>2 DEF PendingEvents
      <4> QED
        BY <1>3, <3>1, <4>1, <4>3, FindsNone
    <3> QED
      BY <3>2, <3>3
  <2> QED
    BY <2>5, <2>6
<1> QED
  BY <1>4, <1>5, BackPrints

-----------------------------------------------------------------------------
\* The masks an event has been asked for with are remembered, and so are the kinds
\* of the events parsed.
LEMMA HistoryGrows ==
    ASSUME [Next]_vars
    PROVE  masks \subseteq masks' /\ parsed \subseteq parsed'
<1>1. CASE UNCHANGED frontVars
  BY <1>1 DEF frontVars
<1>2. CASE FrontStep
  BY <1>2 DEF FrontStep, ProgramStep, NewGWindow, InitPlatform, CloseGWindow, NewShape,
     CallBeforeInit, NewGTimer, FreeGTimer, StartStopTimer, Pause, GetText, AskForEvent,
     LibraryStep, PutPipe, ReadStep, ReadResult, ReadEvent, ReadGarbledArguments, ReadJunk,
     ReadEOF, frontVars, historyVars
<1> QED
  BY <1>1, <1>2 DEF Next, BackStep, vars

\* An event other than the closing of a window is of a class some mask asked for,
\* from the moment its listener has tested the mask.
CoveredKind(kind) ==
    kind \in InputKinds \ {"windowClosed"} => \E m \in masks : ClassesOf(kind) \cap m # {}
MaskKnown(c) == c.fn \in AskFns => c.mask \in masks
Tested(t) == pc[t] = "printing" \/ (pc[t] = "report" /\ TestsOutside(line[t].what))

CoveredInv ==
    /\ selected \in masks \cup {{}}
    /\ waiting \in AskFns => askedMask \in masks
    /\ MaskKnown(outgoing)
    /\ \A i \in DOMAIN toJBE : MaskKnown(toJBE[i])
    /\ pc["cmd"] \in {"ask", "setMask"} => MaskKnown(current) /\ current.fn \in AskFns
    /\ \A t \in Threads : Tested(t) => CoveredKind(line[t].what)
    /\ \A i \in DOMAIN fromJBE : CoveredKind(fromJBE[i].what)
    /\ \A kind \in parsed : CoveredKind(kind)
    /\ \A i \in DOMAIN eventQueue : eventQueue[i].kind \in parsed

\* Every line of the pipe, after one was taken or printed.
LEMMA CoveredRead ==
    ASSUME TypeOK, CoveredInv, fromJBE # <<>>, fromJBE' = Tail(fromJBE), masks' = masks
    PROVE  (\A i \in DOMAIN fromJBE : CoveredKind(fromJBE[i].what))'
           /\ CoveredKind(Head(fromJBE).what)
<1>1. fromJBE \in Seq(Lines)
  BY DEF TypeOK, PipesTypeOK
<1>2. /\ 1 \in DOMAIN fromJBE /\ fromJBE[1] = Head(fromJBE)
      /\ \A i \in DOMAIN Tail(fromJBE) :
             i + 1 \in DOMAIN fromJBE /\ Tail(fromJBE)[i] = fromJBE[i + 1]
  BY <1>1
<1>3. \A i \in DOMAIN fromJBE : CoveredKind(fromJBE[i].what)
  BY DEF CoveredInv
<1> QED
  BY <1>2, <1>3 DEF CoveredKind

LEMMA CoveredPrinted ==
    ASSUME TypeOK, CoveredInv, NEW l, CoveredKind(l.what), PrintLine(l), masks' = masks
    PROVE  (\A i \in DOMAIN fromJBE : CoveredKind(fromJBE[i].what))'
<1>0. CoveredKind(l.what)' /\ \A i \in DOMAIN fromJBE : CoveredKind(fromJBE[i].what)
  BY DEF CoveredInv, CoveredKind
<1>1. CASE fromJBE' = fromJBE
  BY <1>0, <1>1 DEF CoveredKind
<1>2. CASE fromJBE' = Append(fromJBE, l)
  <2>1. fromJBE \in Seq(Lines)
    BY DEF TypeOK, PipesTypeOK
  <2>2. \A i \in DOMAIN fromJBE' : \/ i \in DOMAIN fromJBE /\ fromJBE'[i] = fromJBE[i]
                                   \/ fromJBE'[i] = l
    BY <1>2, <2>1
  <2> QED
    BY <1>0, <2>2 DEF CoveredKind
<1> QED
  BY <1>1, <1>2 DEF PrintLine

\* The command read off the pipe carries a mask that was asked with.
LEMMA MaskRead ==
    ASSUME TypeOK, CoveredInv, toJBE # <<>>, toJBE' = Tail(toJBE), masks' = masks
    PROVE  (\A i \in DOMAIN toJBE : MaskKnown(toJBE[i]))' /\ MaskKnown(Head(toJBE))
<1>1. toJBE \in Seq(Commands)
  BY DEF TypeOK, PipesTypeOK
<1>2. /\ 1 \in DOMAIN toJBE /\ toJBE[1] = Head(toJBE)
      /\ \A i \in DOMAIN Tail(toJBE) : i + 1 \in DOMAIN toJBE /\ Tail(toJBE)[i] = toJBE[i + 1]
  BY <1>1
<1>3. \A i \in DOMAIN toJBE : MaskKnown(toJBE[i])
  BY DEF CoveredInv
<1> QED
  BY <1>2, <1>3 DEF MaskKnown

\* What is not touched stays covered, as the masks only become more.
LEMMA StaysCovered ==
    ASSUME CoveredInv, masks \subseteq masks'
    PROVE  /\ selected' = selected => selected' \in masks' \cup {{}}
           /\ UNCHANGED <<waiting, askedMask>> => (waiting' \in AskFns => askedMask' \in masks')
           /\ outgoing' = outgoing => MaskKnown(outgoing)'
           /\ toJBE' = toJBE => (\A i \in DOMAIN toJBE : MaskKnown(toJBE[i]))'
           /\ UNCHANGED <<pc, current>> =>
                  (pc["cmd"] \in {"ask", "setMask"} =>
                      MaskKnown(current) /\ current.fn \in AskFns)'
           /\ UNCHANGED <<pc, line>> =>
                  (\A t \in Threads : Tested(t) => CoveredKind(line[t].what))'
           /\ fromJBE' = fromJBE => (\A i \in DOMAIN fromJBE : CoveredKind(fromJBE[i].what))'
           /\ parsed' = parsed => (\A kind \in parsed : CoveredKind(kind))'
           /\ eventQueue' = eventQueue /\ parsed' = parsed =>
                  (\A i \in DOMAIN eventQueue : eventQueue[i].kind \in parsed)'
<1>3. selected' = selected => selected' \in masks' \cup {{}}
  BY DEF CoveredInv
<1>4. UNCHANGED <<waiting, askedMask>> => (waiting' \in AskFns => askedMask' \in masks')
  BY DEF CoveredInv
<1>5. outgoing' = outgoing => MaskKnown(outgoing)'
  BY DEF CoveredInv, MaskKnown
<1>6. toJBE' = toJBE => (\A i \in DOMAIN toJBE : MaskKnown(toJBE[i]))'
  BY DEF CoveredInv, MaskKnown
<1>7. UNCHANGED <<pc, current>> =>
          (pc["cmd"] \in {"ask", "setMask"} => MaskKnown(current) /\ current.fn \in AskFns)'
  BY DEF CoveredInv, MaskKnown
<1>8. UNCHANGED <<pc, line>> =>
          (\A t \in Threads : Tested(t) => CoveredKind(line[t].what))'
  BY DEF CoveredInv, CoveredKind, Tested
<1>9. fromJBE' = fromJBE => (\A i \in DOMAIN fromJBE : CoveredKind(fromJBE[i].what))'
  BY DEF CoveredInv, CoveredKind
<1>10. parsed' = parsed => (\A kind \in parsed : CoveredKind(kind))'
  BY DEF CoveredInv, CoveredKind
<1>11. eventQueue' = eventQueue /\ parsed' = parsed =>
           (\A i \in DOMAIN eventQueue : eventQueue[i].kind \in parsed)'
  BY DEF CoveredInv
<1> QED
  BY <1>3, <1>4, <1>5, <1>6, <1>7, <1>8, <1>9, <1>10, <1>11

\* The queue loses its first event, or all.
LEMMA QueueStaysParsed ==
    ASSUME TypeOK, CoveredInv, parsed' = parsed,
           \/ eventQueue' = <<>>
           \/ eventQueue # <<>> /\ eventQueue' = Tail(eventQueue)
    PROVE  (\A i \in DOMAIN eventQueue : eventQueue[i].kind \in parsed)'
<1>1. eventQueue \in Seq(Events) /\ \A i \in DOMAIN eventQueue : eventQueue[i].kind \in parsed
  BY DEF TypeOK, FrontTypeOK, CoveredInv
<1>2. CASE eventQueue' = <<>>
  BY <1>2
<1>3. CASE eventQueue # <<>> /\ eventQueue' = Tail(eventQueue)
  <2>1. \A i \in DOMAIN Tail(eventQueue) :
            i + 1 \in DOMAIN eventQueue /\ Tail(eventQueue)[i] = eventQueue[i + 1]
    BY <1>1, <1>3
  <2> QED
    BY <1>1, <1>3, <2>1
<1> QED
  BY <1>2, <1>3

LEMMA ProgramCovered ==
    ASSUME TypeOK, CoveredInv, ProgramStep, UNCHANGED backVars
    PROVE  CoveredInv'
<1>0. /\ UNCHANGED <<toJBE, fromJBE, selected, pc, current, line, parsed>>
      /\ masks \subseteq masks' /\ waiting = "no"
  BY DEF ProgramStep, NewGWindow, InitPlatform, CloseGWindow, NewShape, CallBeforeInit,
         NewGTimer, FreeGTimer, StartStopTimer, Pause, GetText, AskForEvent, Call, pipeVars,
         historyVars, backVars
<1>1. ASSUME waiting' \in AskFns => askedMask' \in masks', MaskKnown(outgoing)',
             (\A i \in DOMAIN eventQueue : eventQueue[i].kind \in parsed)'
      PROVE  CoveredInv'
  BY <1>0, <1>1, StaysCovered DEF CoveredInv
<1>2. ASSUME NEW fn \in AskFns, NEW mask, AskForEvent(fn, mask) PROVE CoveredInv'
  <2>1. askedMask' \in masks'
    BY <1>2 DEF AskForEvent
  <2>2. CASE eventQueue = <<>>
    <3>1. MaskKnown(outgoing)' /\ eventQueue' = eventQueue
      BY <1>2, <2>1, <2>2 DEF AskForEvent, Send, Command, MaskKnown
    <3> QED
      BY <1>0, <1>1, <2>1, <2>2, <3>1
  <2>3. CASE eventQueue # <<>>
    <3>1. outgoing' = outgoing /\ eventQueue' = Tail(eventQueue)
      BY <1>2, <2>3 DEF AskForEvent, ReturnEvent
    <3> QED
      BY <1>0, <1>1, <2>1, <2>3, <3>1, QueueStaysParsed, StaysCovered
  <2> QED
    BY <2>2, <2>3
<1>3. ASSUME waiting' \notin AskFns, eventQueue' = eventQueue \/ eventQueue' = <<>>,
             outgoing' = outgoing \/ outgoing'.fn \notin AskFns
      PROVE  CoveredInv'
  <2>1. MaskKnown(outgoing)'
    BY <1>0, <1>3, StaysCovered DEF MaskKnown
  <2> QED
    BY <1>0, <1>1, <1>3, <2>1, QueueStaysParsed, StaysCovered
<1>4. /\ "status" \notin AskFns /\ "text" \notin AskFns /\ "no" \notin AskFns
  BY DEF AskFns
<1>5. ASSUME NEW fn \in {"create", "createReal"}, NEW w, NewGWindow(fn, w) PROVE CoveredInv'
  BY <1>3, <1>4, <1>5 DEF NewGWindow, InitPlatform, Request, Send, Command, AskFns
<1>6. CASE NewShape
  BY <1>0, <1>3, <1>4, <1>6 DEF NewShape, InitPlatform, Send, Command, AskFns
<1>7. CASE Pause \/ GetText
  BY <1>3, <1>4, <1>7 DEF Pause, GetText, Request, Send, Command, AskFns
<1>8. ASSUME NEW x, NEW fn, \/ CloseGWindow(x) \/ NewGTimer(x) \/ FreeGTimer(x)
                          \/ StartStopTimer(fn, x)
      PROVE  CoveredInv'
  BY <1>0, <1>3, <1>4, <1>8 DEF CloseGWindow, NewGTimer, FreeGTimer, StartStopTimer, Send,
     Command, AskFns
<1>9. ASSUME NEW fn, CallBeforeInit(fn) PROVE CoveredInv'
  BY <1>0, <1>3, <1>4, <1>9 DEF CallBeforeInit
<1> QED
  BY <1>2, <1>5, <1>6, <1>7, <1>8, <1>9 DEF ProgramStep

LEMMA LibraryCovered ==
    ASSUME TypeOK, CoveredInv, LibraryStep, UNCHANGED backVars
    PROVE  CoveredInv'
<1>0. UNCHANGED <<selected, pc, current, line, masks, askedMask>>
  BY DEF LibraryStep, PutPipe, ReadStep, ReadResult, ReadEvent, ReadGarbledArguments, ReadJunk,
         ReadEOF, frontVars, backVars, historyVars
<1>1. ASSUME waiting' \in AskFns => waiting' = waiting, MaskKnown(outgoing)',
             (\A i \in DOMAIN toJBE : MaskKnown(toJBE[i]))',
             (\A i \in DOMAIN fromJBE : CoveredKind(fromJBE[i].what))',
             (\A kind \in parsed : CoveredKind(kind))',
             (\A i \in DOMAIN eventQueue : eventQueue[i].kind \in parsed)'
      PROVE  CoveredInv'
  <2>1. waiting' \in AskFns => askedMask' \in masks'
    BY <1>0, <1>1 DEF CoveredInv
  <2> QED
    BY <1>0, <1>1, <2>1, StaysCovered DEF CoveredInv
<1>n. MaskKnown(NoCommand)'
  BY DEF NoCommand, Command, MaskKnown, AskFns
<1>2. CASE PutPipe
  <2>1. MaskKnown(outgoing)' /\ UNCHANGED <<fromJBE, waiting, parsed, eventQueue>>
    BY <1>2, <1>n DEF PutPipe, historyVars
  <2>2. (\A i \in DOMAIN toJBE : MaskKnown(toJBE[i]))'
    <3>1. toJBE' = toJBE \/ toJBE' = Append(toJBE, outgoing)
      BY <1>2 DEF PutPipe
    <3>2. toJBE \in Seq(Commands)
      BY DEF TypeOK, PipesTypeOK
    <3>3. \A i \in DOMAIN toJBE' : \/ i \in DOMAIN toJBE /\ toJBE'[i] = toJBE[i]
                                   \/ toJBE'[i] = outgoing
      BY <3>1, <3>2
    <3>4. MaskKnown(outgoing) /\ \A i \in DOMAIN toJBE : MaskKnown(toJBE[i])
      BY DEF CoveredInv
    <3> QED
      BY <1>0, <3>3, <3>4 DEF MaskKnown
  <2> QED
    BY <1>0, <1>1, <2>1, <2>2, StaysCovered
<1>3. CASE ReadEOF
  BY <1>0, <1>1, <1>3, StaysCovered DEF ReadEOF, frontVars
<1>4. ASSUME NEW tag, Reads(tag)
      PROVE  /\ (\A i \in DOMAIN fromJBE : CoveredKind(fromJBE[i].what))'
             /\ CoveredKind(Head(fromJBE).what)
  BY <1>0, <1>4, CoveredRead DEF Reads
<1>5. CASE ReadGarbledArguments \/ ReadJunk
  <2>1. UNCHANGED <<toJBE, waiting, outgoing, parsed, eventQueue>>
    BY <1>5 DEF ReadGarbledArguments, ReadJunk, frontVars
  <2>2. (\A i \in DOMAIN fromJBE : CoveredKind(fromJBE[i].what))'
    BY <1>4, <1>5 DEF ReadGarbledArguments, ReadJunk
  <2> QED
    BY <1>0, <1>1, <2>1, <2>2, StaysCovered
<1>6. CASE ReadEvent
  <2> DEFINE e == ParseEvent(Head(fromJBE))
  <2>1. /\ (\A i \in DOMAIN fromJBE : CoveredKind(fromJBE[i].what))'
        /\ CoveredKind(Head(fromJBE).what)
    BY <1>4, <1>6 DEF ReadEvent
  <2>2. /\ UNCHANGED <<toJBE, waiting>> /\ parsed' = parsed \cup {e.kind}
        /\ eventQueue' = Append(eventQueue, e) /\ eventQueue \in Seq(Events)
    BY <1>6 DEF ReadEvent, TypeOK, FrontTypeOK
  <2>3. CoveredKind(e.kind)
    BY <2>1 DEF ParseEvent, NullEvent, CoveredKind, InputKinds
  <2>4. MaskKnown(outgoing)'
    <3>1. outgoing' = outgoing \/ outgoing'.fn = "close"
      BY <1>6 DEF ReadEvent, Send, Command
    <3> QED
      BY <1>0, <3>1, StaysCovered DEF MaskKnown, AskFns
  <2> HIDE DEF e
  <2>5. (\A kind \in parsed : CoveredKind(kind))'
    BY <1>0, <2>2, <2>3 DEF CoveredInv, CoveredKind
  <2>6. (\A i \in DOMAIN eventQueue : eventQueue[i].kind \in parsed)'
    <3>1. \A i \in DOMAIN eventQueue' : \/ i \in DOMAIN eventQueue /\ eventQueue'[i] = eventQueue[i]
                                        \/ eventQueue'[i] = e
      BY <2>2
    <3> QED
      BY <2>2, <3>1 DEF CoveredInv
  <2> QED
    BY <1>0, <1>1, <2>1, <2>2, <2>4, <2>5, <2>6, StaysCovered
<1>7. CASE ReadResult
  <2>1. (\A i \in DOMAIN fromJBE : CoveredKind(fromJBE[i].what))' /\ UNCHANGED <<toJBE, parsed>>
    BY <1>4, <1>7 DEF ReadResult, historyVars
  <2>2. waiting' = "no" \/ waiting' = waiting
    BY <1>7 DEF ReadResult, GotReply, GotAnswer
  <2>3. MaskKnown(outgoing)'
    <3>1. \/ outgoing' = outgoing
          \/ waiting \in AskFns /\ outgoing' = Command("waitForEvent", Nobody, askedMask)
      BY <1>7 DEF ReadResult, GotReply, GotAnswer, Send
    <3>2. waiting \in AskFns => askedMask \in masks'
      BY <1>0 DEF CoveredInv
    <3> QED
      BY <1>0, <3>1, <3>2, StaysCovered DEF MaskKnown, Command
  <2>4. (\A i \in DOMAIN eventQueue : eventQueue[i].kind \in parsed)'
    <3>1. \/ eventQueue' = eventQueue
          \/ eventQueue # <<>> /\ eventQueue' = Tail(eventQueue)
      BY <1>7 DEF ReadResult, GotReply, GotAnswer, ReturnEvent
    <3> QED
      BY <1>0, <2>1, <3>1, QueueStaysParsed, StaysCovered
  <2>5. "no" \notin AskFns
    BY DEF AskFns
  <2> QED
    BY <1>0, <1>1, <2>1, <2>2, <2>3, <2>4, <2>5, StaysCovered
<1> QED
  BY <1>2, <1>3, <1>5, <1>6, <1>7 DEF LibraryStep, ReadStep

\* A listener goes on only with an event of a class of the mask.
LEMMA SelectsCovers ==
    ASSUME CoveredInv, NEW kind, Selects(selected, kind)
    PROVE  CoveredKind(kind)
<1>1. CASE kind \notin InputKinds \/ kind = "windowClosed"
  BY <1>1 DEF CoveredKind
<1>2. CASE kind \in InputKinds /\ kind # "windowClosed"
  <2>1. ClassesOf(kind) \cap selected # {}
    BY <1>2 DEF Selects, ClassesOf
  <2>2. selected \in masks
    BY <2>1 DEF CoveredInv
  <2> QED
    BY <2>1, <2>2 DEF CoveredKind
<1> QED
  BY <1>1, <1>2

LEMMA BackCovered ==
    ASSUME TypeOK, CoveredInv, BackStep
    PROVE  CoveredInv'
<1>0. UNCHANGED <<masks, waiting, askedMask, outgoing, parsed, eventQueue>>
  BY DEF BackStep, frontVars
<1> DEFINE Asking == pc["cmd"] \in {"ask", "setMask"} =>
                         MaskKnown(current) /\ current.fn \in AskFns
           Reporting == \A t \in Threads : Tested(t) => CoveredKind(line[t].what)
           Sent == \A i \in DOMAIN toJBE : MaskKnown(toJBE[i])
           Printed == \A i \in DOMAIN fromJBE : CoveredKind(fromJBE[i].what)
<1>k. /\ Asking /\ Reporting /\ Sent /\ Printed
      /\ selected \in masks \cup {{}}
  BY DEF CoveredInv
<1>1. ASSUME selected' \in masks' \cup {{}}, Asking', Reporting', Sent', Printed'
      PROVE  CoveredInv'
  BY <1>0, <1>1, StaysCovered DEF CoveredInv
<1>u. /\ selected' = selected => selected' \in masks' \cup {{}}
      /\ toJBE' = toJBE => Sent'
      /\ UNCHANGED <<pc, current>> => Asking'
      /\ UNCHANGED <<pc, line>> => Reporting'
      /\ fromJBE' = fromJBE => Printed'
  BY <1>0, StaysCovered
<1>t. /\ pc \in [Threads -> Points] /\ line \in [Threads -> EventLines]
      /\ "cmd" \in Threads /\ "edt" \in Threads
  BY DEF TypeOK, BackTypeOK, Threads
<1>m. \A kind : CoveredKind(kind) => CoveredKind(kind)'
  BY <1>0 DEF CoveredKind
<1>a. ASSUME NEW t \in Threads, NEW to, Goto(t, to), to \notin {"ask", "setMask"},
             t = "cmd" \/ current' = current
      PROVE  Asking'
  <2>1. pc'[t] = to /\ \A u \in Threads \ {t} : pc'[u] = pc[u]
    BY <1>a, Went
  <2> QED
    BY <1>0, <1>a, <1>k, <1>t, <2>1 DEF MaskKnown
<1>r. ASSUME NEW t \in Threads, NEW to, Goto(t, to),
             \/ line' = line
             \/ \E l : line' = [line EXCEPT ![t] = l],
             Tested(t)' => CoveredKind(line'[t].what)
      PROVE  Reporting'
  <2>1. pc'[t] = to /\ \A u \in Threads \ {t} : pc'[u] = pc[u]
    BY <1>r, Went
  <2>2. \A u \in Threads \ {t} : line'[u] = line[u]
    BY <1>r, <1>t
  <2>3. \A u \in Threads \ {t} : Tested(u)' => CoveredKind(line'[u].what)
    BY <1>k, <2>1, <2>2 DEF Tested
  <2>4. \A u \in Threads : Tested(u)' => CoveredKind(line'[u].what)
    BY <1>r, <2>3
  <2> QED
    BY <1>m, <2>4 DEF CoveredKind
<1>q. ASSUME NEW t \in Threads, NEW to, Goto(t, to), to \notin {"report", "printing"},
             line' = line
      PROVE  Reporting'
  <2>1. ~Tested(t)'
    BY <1>q, Went DEF Tested
  <2> QED
    BY <1>q, <1>r, <2>1
<1>f. \A kind : kind \notin InputKinds \ {"windowClosed"} => CoveredKind(kind)
  BY DEF CoveredKind
<1>p. ASSUME NEW what \in {"ok", "text", "ack"}, PrintLine(Result(what))
      PROVE  Printed'
  <2>1. CoveredKind(Result(what).what)
    BY <1>f DEF Result, InputKinds
  <2> QED
    BY <1>0, <1>p, <2>1, CoveredPrinted
<1> HIDE DEF Asking, Reporting, Sent, Printed
<1>2. ASSUME NEW kind, NEW src, HandleInput(kind, src) \/ IgnoreInput(kind, src)
      PROVE  CoveredInv'
  <2>1. UNCHANGED <<toJBE, fromJBE, selected, current>>
    BY <1>2 DEF HandleInput, IgnoreInput, Input, pipeVars, protocolVars
  <2>2. CASE HandleInput(kind, src)
    <3>1. line'["edt"] = EventLine(kind, src) /\ pc'["edt"] = "report"
      BY <1>t, <2>2, Went, Reports DEF HandleInput
    <3>2. Tested("edt")' => CoveredKind(line'["edt"].what)
      <4>1. TestsOutside(kind) => CoveredKind(kind)
        BY <2>2, SelectsCovers DEF HandleInput
      <4> QED
        BY <3>1, <4>1 DEF Tested, EventLine
    <3>3. Reporting'
      BY <1>r, <1>t, <2>2, <3>2 DEF HandleInput
    <3>4. Asking'
      BY <1>a, <1>t, <2>1, <2>2 DEF HandleInput
    <3> QED
      BY <1>1, <1>u, <2>1, <3>3, <3>4
  <2>3. CASE IgnoreInput(kind, src)
    BY <1>1, <1>u, <2>1, <2>3 DEF IgnoreInput
  <2> QED
    BY <1>2, <2>2, <2>3
<1>3. ASSUME NEW t \in Threads, BeginLine(t) PROVE CoveredInv'
  <2>1. UNCHANGED <<toJBE, fromJBE, selected, current, line>> /\ pc[t] = "report"
    BY <1>3 DEF BeginLine, At, pipeVars, protocolVars
  <2>2. CoveredKind(line[t].what) \/ Goto(t, "idle")
    <3>1. TestsOutside(line[t].what) => CoveredKind(line[t].what)
      BY <1>k, <2>1 DEF Tested, Reporting
    <3> QED
      BY <1>3, <3>1, SelectsCovers DEF BeginLine
  <2>3. Goto(t, "printing") \/ Goto(t, "idle")
    BY <1>3 DEF BeginLine
  <2>4. Reporting'
    BY <1>q, <1>r, <2>1, <2>2, <2>3
  <2>5. Asking'
    BY <1>a, <2>1, <2>3
  <2> QED
    BY <1>1, <1>u, <2>1, <2>4, <2>5
<1>4. ASSUME NEW t \in Threads, EndLine(t) PROVE CoveredInv'
  <2>1. UNCHANGED <<toJBE, selected, current, line>> /\ pc[t] = "printing" /\ Goto(t, "ack")
    BY <1>4 DEF EndLine, At, protocolVars
  <2>2. CoveredKind(line[t].what) /\ CoveredKind(Junk.what)
    BY <1>f, <1>k, <2>1 DEF Tested, Reporting, Junk, InputKinds
  <2>3. Printed'
    BY <1>0, <1>4, <2>2, CoveredPrinted DEF EndLine, Printed
  <2>4. Reporting' /\ Asking'
    BY <1>a, <1>q, <2>1
  <2> QED
    BY <1>1, <1>u, <2>1, <2>3, <2>4
<1>5. ASSUME NEW t \in Threads, Acknowledge(t) PROVE CoveredInv'
  <2>1. UNCHANGED <<toJBE, selected, current, line>>
    BY <1>5 DEF Acknowledge
  <2>2. PICK to : Goto(t, to) /\ to \in {"remove", "exit", "idle"}
    BY <1>5 DEF Acknowledge, AfterAck
  <2>3. Printed'
    BY <1>5, <1>p, <1>u DEF Acknowledge, AcknowledgeEvent
  <2>4. Reporting' /\ Asking'
    BY <1>a, <1>q, <2>1, <2>2
  <2> QED
    BY <1>1, <1>u, <2>1, <2>3, <2>4
<1>6. ASSUME NEW t \in Threads, RemoveWindow(t) \/ StoreCount(t) PROVE CoveredInv'
  <2>1. UNCHANGED <<toJBE, fromJBE, selected, current, line>>
        /\ (Goto(t, "store") \/ Goto(t, "test"))
    BY <1>6 DEF RemoveWindow, StoreCount, pipeVars, protocolVars
  <2>2. Reporting' /\ Asking'
    BY <1>a, <1>q, <2>1
  <2> QED
    BY <1>1, <1>u, <2>1, <2>2
<1>7. ASSUME NEW t \in Threads, TestCount(t) PROVE CoveredInv'
  <2>1. UNCHANGED <<toJBE, fromJBE, selected, current>>
    BY <1>7 DEF TestCount, pipeVars, protocolVars
  <2>4. \/ Goto(t, "idle") /\ line' = line
        \/ \E l : /\ l = EventLine("lastWindow", Nobody) /\ Goto(t, "report")
                 /\ line' = [line EXCEPT ![t] = l]
    BY <1>7 DEF TestCount
  <2>2. Asking'
    BY <1>a, <2>1, <2>4
  <2>3. Reporting'
    <3>1. CASE Goto(t, "idle") /\ line' = line
      BY <1>q, <3>1
    <3>2. ASSUME NEW l, l = EventLine("lastWindow", Nobody), Goto(t, "report"),
                 line' = [line EXCEPT ![t] = l]
          PROVE  Reporting'
      <4>1. line'[t] = l /\ l.what = "lastWindow"
        BY <3>2, Reports DEF EventLine
      <4>2. CoveredKind(line'[t].what)
        BY <1>f, <4>1 DEF InputKinds
      <4> QED
        BY <1>r, <3>2, <4>2
    <3> QED
      BY <2>4, <3>1, <3>2
  <2> QED
    BY <1>1, <1>u, <2>1, <2>2, <2>3
<1>8. ASSUME NEW t \in Threads, ListenerStep(t) PROVE CoveredInv'
  <2>1. CASE ExitJVM(t)
    BY <1>1, <1>u, <2>1 DEF ExitJVM, backVars
  <2> QED
    BY <1>3, <1>4, <1>5, <1>6, <1>7, <1>8, <2>1 DEF ListenerStep
<1>9. ASSUME NEW fn, Execute(fn)
      PROVE  /\ Sent' /\ Printed' /\ selected' \in masks' \cup {{}} /\ pc["cmd"] = "idle"
             /\ current' = Head(toJBE) /\ Head(toJBE).fn = fn /\ MaskKnown(Head(toJBE))
  <2>1. Sent' /\ MaskKnown(Head(toJBE))
    BY <1>0, <1>9, MaskRead DEF Execute, Sent
  <2> QED
    BY <1>9, <1>u, <2>1 DEF Execute, At, protocolVars
<1>10. CASE GTimer_pause \/ GWindow_create
  <2>1. \E to \in {"reply", "count"} : Goto("cmd", to)
    BY <1>10 DEF GTimer_pause, GWindow_create
  <2>2. line' = line
    BY <1>10 DEF GTimer_pause, GWindow_create
  <2>3. Asking' /\ Reporting'
    BY <1>a, <1>q, <1>t, <2>1, <2>2
  <2> QED
    BY <1>1, <1>9, <1>10, <2>3 DEF GTimer_pause, GWindow_create
<1>11. ASSUME NEW fn, NEW to, NoReply \/ SetTimer(fn, to) PROVE CoveredInv'
  <2>1. UNCHANGED <<pc, line>> /\ pc["cmd"] = "idle"
    BY <1>9, <1>11 DEF NoReply, SetTimer
  <2>2. Asking' /\ Reporting'
    BY <1>u, <2>1 DEF Asking
  <2> QED
    BY <1>1, <1>9, <1>11, <2>2 DEF NoReply, SetTimer
<1>12. CASE GWindow_close
  <2>1. CASE Head(toJBE).src \in jbeWindows
    <3>1. /\ line' = [line EXCEPT !["cmd"] = EventLine("windowClosed", Head(toJBE).src)]
          /\ Goto("cmd", "report")
      BY <1>12, <2>1 DEF GWindow_close
    <3>2. line'["cmd"].what = "windowClosed"
      BY <1>t, <3>1, Reports DEF EventLine
    <3>3. CoveredKind(line'["cmd"].what)
      BY <1>f, <3>2
    <3>4. Asking' /\ Reporting'
      BY <1>a, <1>r, <1>t, <3>1, <3>3
    <3> QED
      BY <1>1, <1>9, <1>12, <3>4 DEF GWindow_close
  <2>2. CASE Head(toJBE).src \notin jbeWindows
    <3>1. UNCHANGED <<pc, line>> /\ pc["cmd"] = "idle"
      BY <1>9, <1>12, <2>2 DEF GWindow_close
    <3>2. Asking' /\ Reporting'
      BY <1>u, <3>1 DEF Asking
    <3> QED
      BY <1>1, <1>9, <1>12, <3>2 DEF GWindow_close
  <2> QED
    BY <2>1, <2>2
<1>13. CASE GEvent_ask
  <2>1. PICK fn \in AskFns : Execute(fn)
    BY <1>13 DEF GEvent_ask
  <2>2. MaskKnown(Head(toJBE)) /\ current' = Head(toJBE) /\ current'.fn \in AskFns
    BY <1>9, <2>1
  <2>3. Asking'
    BY <1>0, <2>2 DEF Asking, MaskKnown
  <2>4. Reporting'
    BY <1>13, <1>q, <1>t DEF GEvent_ask
  <2> QED
    BY <1>1, <1>9, <2>1, <2>3, <2>4
<1>14. CASE ShowWindow \/ Reply
  <2>1. UNCHANGED <<toJBE, selected, current, line>>
        /\ (Goto("cmd", "reply") \/ Goto("cmd", "idle"))
    BY <1>14 DEF ShowWindow, Reply, pipeVars, protocolVars
  <2>2. Printed'
    <3>1. CoveredKind(EventLine("garbled", Nobody).what)
      BY <1>f DEF EventLine, InputKinds
    <3>2. PrintLine(EventLine("garbled", Nobody)) => Printed'
      BY <1>0, <3>1, CoveredPrinted DEF Printed
    <3> QED
      BY <1>14, <1>p, <1>u, <3>2 DEF ShowWindow, Reply, pipeVars
  <2>3. Asking' /\ Reporting'
    BY <1>a, <1>q, <1>t, <2>1
  <2> QED
    BY <1>1, <1>u, <2>1, <2>2, <2>3
<1>15. CASE AwaitEvent \/ SetMask
  <2>1. UNCHANGED <<toJBE, fromJBE, current, line>> /\ Goto("cmd", "idle")
        /\ selected' = current.mask /\ pc["cmd"] \in {"ask", "setMask"}
    BY <1>15 DEF AwaitEvent, SetMask, At, pipeVars
  <2>2. selected' \in masks' \cup {{}}
    BY <1>0, <1>k, <2>1 DEF Asking, MaskKnown
  <2>3. Asking' /\ Reporting'
    BY <1>a, <1>q, <1>t, <2>1
  <2> QED
    BY <1>1, <1>u, <2>1, <2>2, <2>3
<1>16. CASE AnswerNow
  <2>1. UNCHANGED <<toJBE, selected, current, line>> /\ Goto("cmd", "setMask")
        /\ pc["cmd"] = "ask"
    BY <1>16 DEF AnswerNow, At
  <2>2. Printed'
    BY <1>16, <1>p DEF AnswerNow
  <2>3. Asking'
    BY <1>0, <1>k, <2>1 DEF Asking, MaskKnown
  <2>4. Reporting'
    BY <1>q, <1>t, <2>1
  <2> QED
    BY <1>1, <1>u, <2>1, <2>2, <2>3, <2>4
<1>17. CASE CommandStep
  BY <1>10, <1>11, <1>12, <1>13, <1>14, <1>15, <1>16, <1>17 DEF CommandStep
<1> QED
  BY <1>2, <1>8, <1>17 DEF BackStep, UserStep, ThreadStep

LEMMA StepCovered ==
    ASSUME TypeOK, CoveredInv, [Next]_vars
    PROVE  CoveredInv'
<1>1. CASE UNCHANGED vars
  <2>1. UNCHANGED <<selected, waiting, askedMask, outgoing, toJBE, pc, current, line, fromJBE,
                    parsed, eventQueue, masks>>
    BY <1>1 DEF vars, pipeVars, frontVars, backVars
  <2> QED
    BY <2>1, StaysCovered DEF CoveredInv
<1>2. CASE FrontStep
  BY <1>2, ProgramCovered, LibraryCovered DEF FrontStep
<1>3. CASE BackStep
  BY <1>3, BackCovered
<1> QED
  BY <1>1, <1>2, <1>3 DEF Next

LEMMA InitCovered == Init => CoveredInv
<1> SUFFICES ASSUME Init PROVE CoveredInv
  OBVIOUS
<1>1. /\ selected = {} /\ waiting = "no" /\ outgoing = NoCommand /\ toJBE = <<>>
      /\ fromJBE = <<>> /\ parsed = {} /\ eventQueue = <<>>
      /\ \A t \in Threads : pc[t] = "idle"
  BY DEF Init, PipesInit, FrontInit, BackInit
<1>2. MaskKnown(outgoing)
  BY <1>1 DEF NoCommand, Command, MaskKnown, AskFns
<1>3. "cmd" \in Threads /\ "no" \notin AskFns
  BY DEF Threads, AskFns
<1> QED
  BY <1>1, <1>2, <1>3 DEF CoveredInv, Tested

\* What is first in the queue of a program that is served is what it asks for.
LEMMA FirstIsCovered ==
    ASSUME TypeOK, CoveredInv, TypeOK', Serving', eventQueue # <<>>, parsed \subseteq parsed',
           masks \subseteq masks', askedMask' \in masks'
    PROVE  /\ Head(eventQueue).kind \in InputKinds
           /\ ClassesOf(Head(eventQueue).kind) \cap askedMask' # {}
           /\ askedMask' \in Masks
<1> DEFINE kind == Head(eventQueue).kind
<1>1. eventQueue \in Seq(Events) /\ parsed \subseteq QueueKinds
  BY DEF TypeOK, FrontTypeOK, QueueKinds
<1>2. kind \in parsed
  <2>1. 1 \in DOMAIN eventQueue /\ eventQueue[1] = Head(eventQueue)
    BY <1>1
  <2> QED
    BY <2>1 DEF CoveredInv
<1> HIDE DEF kind
<1>3. kind \in InputKinds
  BY <1>1, <1>2 DEF Serving, QueueKinds
<1>4. \A m \in masks' : m = askedMask'
  BY DEF Serving, OneMask
<1>5. CASE kind = "windowClosed"
  <2>1. "WINDOW" \in askedMask'
    BY <1>2, <1>5 DEF Serving
  <2> QED
    BY <1>3, <1>5, <2>1 DEF kind, ClassesOf, TypeOK, FrontTypeOK
<1>6. CASE kind # "windowClosed"
  <2>1. PICK m \in masks : ClassesOf(kind) \cap m # {}
    BY <1>2, <1>3, <1>6 DEF CoveredInv, CoveredKind
  <2> QED
    BY <1>3, <1>4, <2>1 DEF kind, TypeOK, FrontTypeOK
<1> QED
  BY <1>5, <1>6

\* The program calls: it asks, takes the first event or makes an object.
LEMMA ProgramServes ==
    ASSUME TypeOK, TypeOK', OneOutstanding, CoveredInv, Serving, ProgramStep,
           UNCHANGED backVars
    PROVE  Simulates
<1>1. waiting = "no" /\ outgoing = NoCommand /\ UNCHANGED <<fromJBE, stray>>
  BY DEF ProgramStep, NewGWindow, CloseGWindow, NewShape, CallBeforeInit, NewGTimer,
         FreeGTimer, StartStopTimer, Pause, GetText, AskForEvent, Call, pipeVars, backVars
<1>2. AskedFor = "no" /\ ~FoundNone
  BY <1>1 DEF AskedFor, AskFns, FoundNone
<1>3. ~AnswerComesFirst /\ ~AnswerComesFirst'
  <2>1. ~SomeReplied
    BY <1>1, Nothing DEF Serving
  <2> QED
    BY <1>1, <2>1 DEF SomeReplied, Replied, AnswerComesFirst
<1>4. ~FoundNone'
  BY <1>3 DEF FoundNone
<1>q. eventQueue \in Seq(Events) /\ EventsIn(fromJBE) \in Seq(QueueKinds)
      /\ KindsOf(eventQueue) \in Seq(QueueKinds)
  BY EventsInType, KindsOfQueue DEF TypeOK, PipesTypeOK, FrontTypeOK
<1>5. ASSUME NEW fn, CallBeforeInit(fn) PROVE Simulates
  BY <1>5, Ends DEF CallBeforeInit, Serving
<1>6. ASSUME UNCHANGED <<client, returned, askedMask, masks, parsed>>,
             waiting' \notin AskFns, eventQueue' = <<>>
      PROVE  Simulates
  <2>1. Serving' /\ AskedFor' = "no"
    BY <1>1, <1>6 DEF Serving, OneMask, AskedFor
  <2>2. PendingEvents' = EventsIn(fromJBE)
    <3>1. KindsOf(<<>>) = <<>>
      <4>1. <<>> \in Seq(Events)
        OBVIOUS
      <4> QED
        BY <4>1, KindsOfQueue
    <3> QED
      BY <1>1, <1>6, <1>q, <3>1 DEF PendingEvents
  <2>3. CASE eventQueue = <<>>
    <3>1. PendingEvents = EventsIn(fromJBE)
      <4> DEFINE a == KindsOf(eventQueue)
                 b == EventsIn(fromJBE)
      <4>1. a = <<>> /\ b \in Seq(QueueKinds)
        BY <1>q, <2>3, KindsOfQueue
      <4> HIDE DEF a, b
      <4>2. a \o b = b
        BY <4>1
      <4> QED
        BY <4>2 DEF a, b, PendingEvents
    <3> QED
      BY <1>2, <1>4, <1>6, <2>1, <2>2, <3>1, Stutters DEF FoundNone
  <2>4. CASE eventQueue # <<>>
    <3> PICK n : n = Len(KindsOf(eventQueue))
      OBVIOUS
    <3>1. n \in 1 .. Len(PendingEvents)
      BY <1>q, <2>4, KindsOfQueue DEF PendingEvents
    <3>2. PendingEvents' = SubSeq(PendingEvents, n + 1, Len(PendingEvents))
      BY <1>q, <2>2, ConcatDrop DEF PendingEvents
    <3> QED
      BY <1>2, <1>4, <1>6, <2>1, <3>1, <3>2, Forgets
  <2> QED
    BY <2>3, <2>4
<1>7. ASSUME UNCHANGED <<client, returned, askedMask, masks, parsed, eventQueue>>,
             waiting' \notin AskFns
      PROVE  Simulates
  <2>1. Serving' /\ AskedFor' = "no" /\ PendingEvents' = PendingEvents
    BY <1>1, <1>7 DEF Serving, OneMask, AskedFor, PendingEvents
  <2> QED
    BY <1>2, <1>4, <1>7, <2>1, Stutters DEF FoundNone
<1>8. ASSUME NEW fn \in AskFns, NEW mask, AskForEvent(fn, mask) PROVE Simulates
  <2> SUFFICES ASSUME Serving' PROVE Simulates
    BY Ends
  <2>1. /\ askedMask' = mask /\ masks' = masks \cup {mask} /\ parsed' = parsed
        /\ askedMask' \in Masks
    BY <1>8 DEF AskForEvent, TypeOK, FrontTypeOK
  <2>2. CASE eventQueue = <<>>
    <3>1. waiting' = fn /\ UNCHANGED <<eventQueue, returned>>
      BY <1>8, <2>2 DEF AskForEvent
    <3> QED
      BY <1>1, <1>2, <1>4, <1>8, <2>1, <3>1, Asks DEF AskedFor, PendingEvents, FoundNone
  <2>3. CASE eventQueue # <<>>
    <3>1. waiting' = waiting /\ ReturnEvent(eventQueue)
      BY <1>8, <2>3 DEF AskForEvent
    <3>2. AskedFor' = "no"
      BY <1>2, <3>1 DEF AskedFor
    <3>3. /\ PendingEvents # <<>>
          /\ Head(PendingEvents) = Head(eventQueue).kind
          /\ Tail(PendingEvents) = KindsOf(Tail(eventQueue)) \o EventsIn(fromJBE)
      <4> DEFINE a == KindsOf(eventQueue)
                 b == EventsIn(fromJBE)
      <4>1. /\ a # <<>> /\ Head(a) = Head(eventQueue).kind
            /\ KindsOf(Tail(eventQueue)) = Tail(a)
        BY <1>q, <2>3, KindsOfQueue
      <4> HIDE DEF a, b
      <4>2. a \o b # <<>> /\ Head(a \o b) = Head(a) /\ Tail(a \o b) = Tail(a) \o b
        BY <1>q, <4>1, ConcatHead DEF a, b
      <4> QED
        BY <4>1, <4>2 DEF a, b, PendingEvents
    <3>4. returned'.kind = Head(PendingEvents) /\ PendingEvents' = Tail(PendingEvents)
      BY <1>1, <3>1, <3>3 DEF ReturnEvent, PendingEvents
    <3>5. PendingEvents \in Seq(QueueKinds)
      BY <1>q DEF PendingEvents
    <3>6. /\ Head(PendingEvents) \in InputKinds
          /\ ClassesOf(Head(PendingEvents)) \cap askedMask' # {}
      BY <2>1, <2>3, <3>3, FirstIsCovered
    <3> QED
      BY <1>2, <1>4, <2>1, <3>2, <3>3, <3>4, <3>5, <3>6, Delivers
  <2> QED
    BY <2>2, <2>3
<1>9. /\ "status" \notin AskFns /\ "text" \notin AskFns /\ "no" \notin AskFns
  BY DEF AskFns
<1>10. ASSUME NEW fn, NEW w, NewGWindow(fn, w) PROVE Simulates
  BY <1>6, <1>9, <1>10 DEF NewGWindow, InitPlatform, Request, pipeVars
<1>11. CASE NewShape
  BY <1>1, <1>6, <1>9, <1>11 DEF NewShape, InitPlatform, pipeVars
<1>12. CASE Pause \/ GetText
  BY <1>7, <1>9, <1>12 DEF Pause, GetText, Request, pipeVars, historyVars
<1>13. ASSUME NEW x, NEW fn, \/ CloseGWindow(x) \/ NewGTimer(x) \/ FreeGTimer(x)
                           \/ StartStopTimer(fn, x)
       PROVE  Simulates
  BY <1>1, <1>7, <1>9, <1>13 DEF CloseGWindow, NewGTimer, FreeGTimer, StartStopTimer, pipeVars,
     historyVars
<1> QED
  BY <1>5, <1>8, <1>10, <1>11, <1>12, <1>13 DEF ProgramStep

\* A line is taken from the pipe: what was first on the rest of it comes first
\* once a line that is neither event nor result is gone.
LEMMA AnswerStays ==
    ASSUME TypeOK, fromJBE # <<>>, fromJBE' = Tail(fromJBE)
    PROVE  /\ Head(fromJBE).tag = "result" => AnswerComesFirst
           /\ Head(fromJBE).what \in InputKinds => ~AnswerComesFirst
           /\ Head(fromJBE).tag # "result" /\ Head(fromJBE).what \notin InputKinds =>
                  (AnswerComesFirst' <=> AnswerComesFirst)
<1>1. PICK n : n = Len(fromJBE)
  OBVIOUS
<1>2. /\ n \in Nat \ {0} /\ DOMAIN fromJBE = 1 .. n /\ DOMAIN fromJBE' = 1 .. n - 1
      /\ fromJBE[1] = Head(fromJBE)
      /\ \A i \in 1 .. n - 1 : fromJBE'[i] = fromJBE[i + 1]
  BY <1>1 DEF TypeOK, PipesTypeOK
<1>3. CASE Head(fromJBE).tag = "result"
  <2>1. AnswerComesFirst
    BY <1>2, <1>3 DEF AnswerComesFirst
  <2>2. Head(fromJBE).what \notin InputKinds
    BY <1>2, <1>3 DEF TypeOK, PipesTypeOK, Lines, EventLines, ResultLines, JunkLines, InputKinds
  <2> QED
    BY <1>3, <2>1, <2>2
<1>4. CASE Head(fromJBE).what \in InputKinds
  <2>1. Head(fromJBE).tag # "result"
    BY <1>2, <1>4 DEF TypeOK, PipesTypeOK, Lines, EventLines, ResultLines, JunkLines, InputKinds
  <2> QED
    BY <1>2, <1>4, <2>1 DEF AnswerComesFirst
<1>5. CASE Head(fromJBE).tag # "result" /\ Head(fromJBE).what \notin InputKinds
  <2>1. ASSUME AnswerComesFirst PROVE AnswerComesFirst'
    <3>1. PICK i \in 1 .. n : /\ fromJBE[i].tag = "result"
                              /\ \A j \in 1 .. i - 1 : fromJBE[j].what \notin InputKinds
      BY <1>2, <2>1 DEF AnswerComesFirst
    <3>2. i # 1 /\ i - 1 \in 1 .. n - 1 /\ (i - 1) + 1 = i
      BY <1>2, <1>5, <3>1
    <3>3. fromJBE'[i - 1].tag = "result"
      BY <1>2, <3>1, <3>2
    <3>4. ASSUME NEW j \in 1 .. (i - 1) - 1 PROVE fromJBE'[j].what \notin InputKinds
      <4>1. j \in 1 .. n - 1 /\ j + 1 \in 1 .. i - 1
        BY <1>2, <3>1
      <4> QED
        BY <1>2, <3>1, <4>1
    <3> QED
      BY <1>2, <3>2, <3>3, <3>4 DEF AnswerComesFirst
  <2>2. ASSUME AnswerComesFirst' PROVE AnswerComesFirst
    <3>1. PICK i \in 1 .. n - 1 : /\ fromJBE'[i].tag = "result"
                                  /\ \A j \in 1 .. i - 1 : fromJBE'[j].what \notin InputKinds
      BY <1>2, <2>2 DEF AnswerComesFirst
    <3>2. i + 1 \in 1 .. n /\ (i + 1) - 1 = i /\ fromJBE[i + 1].tag = "result"
      BY <1>2, <3>1
    <3>3. ASSUME NEW j \in 1 .. i PROVE fromJBE[j].what \notin InputKinds
      <4>1. CASE j = 1
        BY <1>2, <1>5, <4>1
      <4>2. CASE j # 1
        <5>1. j - 1 \in 1 .. i - 1 /\ j - 1 \in 1 .. n - 1 /\ (j - 1) + 1 = j
          BY <1>2, <3>1, <4>2
        <5> QED
          BY <1>2, <3>1, <5>1
      <4> QED
        BY <4>1, <4>2
    <3> QED
      BY <1>2, <3>2, <3>3 DEF AnswerComesFirst
  <2> QED
    BY <1>5, <2>1, <2>2
<1> QED
  BY <1>3, <1>4, <1>5

\* Only an event line tells an event.
LEMMA JunkIsNoEvent ==
    ASSUME fromJBE \in Seq(Lines), fromJBE # <<>>, Head(fromJBE).tag # "event"
    PROVE  Head(fromJBE).what \notin InputKinds
<1>1. Head(fromJBE) \in Lines
  OBVIOUS
<1> QED
  BY <1>1 DEF Lines, EventLines, ResultLines, JunkLines, InputKinds

\* getResult reads: an event goes from the pipe to the queue, an answer lets the
\* operation return what the queue then holds.
LEMMA LibraryServes ==
    ASSUME TypeOK, TypeOK', CoveredInv, Serving, Serving', LibraryStep, UNCHANGED backVars
    PROVE  Simulates
<1>q. /\ fromJBE \in Seq(Lines) /\ eventQueue \in Seq(Events)
      /\ EventsIn(fromJBE) \in Seq(QueueKinds)
      /\ KindsOf(eventQueue) \in Seq(QueueKinds)
  BY EventsInType, KindsOfQueue DEF TypeOK, PipesTypeOK, FrontTypeOK
<1>s. stray' = stray
  BY DEF backVars
<1>a. askedMask' = askedMask
  BY DEF LibraryStep, PutPipe, ReadStep, ReadResult, ReadEvent, ReadGarbledArguments, ReadJunk,
         ReadEOF, frontVars
<1>1. CASE PutPipe
  <2>1. UNCHANGED <<fromJBE, eventQueue, waiting, returned>>
    BY <1>1 DEF PutPipe
  <2> QED
    BY <1>a, <2>1, Stutters DEF PendingEvents, AskedFor, FoundNone, AnswerComesFirst
<1>2. CASE ReadGarbledArguments \/ ReadEOF
  BY <1>2 DEF ReadGarbledArguments, ReadEOF, Serving
<1>3. CASE ReadJunk
  <2>1. /\ fromJBE # <<>> /\ fromJBE' = Tail(fromJBE) /\ Head(fromJBE).tag = "junk"
        /\ UNCHANGED <<client, eventQueue, waiting, returned>>
    BY <1>3 DEF ReadJunk, Reads, frontVars
  <2>3. Head(fromJBE).what \notin InputKinds
    BY <1>q, <2>1, JunkIsNoEvent
  <2>2. EventsIn(fromJBE') = EventsIn(fromJBE)
    <3>1. EventsIn(Tail(fromJBE)) \in Seq(QueueKinds)
      <4>1. Tail(fromJBE) \in Seq(Lines)
        BY <1>q, <2>1
      <4> QED
        BY <4>1, EventsInType
    <3>2. EventsIn(fromJBE) = <<>> \o EventsIn(Tail(fromJBE))
      BY <1>q, <2>1, <2>3, EventsInHead DEF Then
    <3> QED
      BY <2>1, <3>1, <3>2
  <2> QED
    BY <1>a, <2>1, <2>2, <2>3, AnswerStays, Stutters DEF PendingEvents, AskedFor, FoundNone
<1>4. CASE ReadEvent
  <2> DEFINE e == ParseEvent(Head(fromJBE))
             a == KindsOf(eventQueue)
             b == EventsIn(Tail(fromJBE))
  <2>1. /\ fromJBE # <<>> /\ fromJBE' = Tail(fromJBE) /\ Head(fromJBE).tag = "event"
        /\ eventQueue' = Append(eventQueue, e)
        /\ UNCHANGED <<client, waiting, returned>>
    BY <1>4 DEF ReadEvent, Reads
  <2>2. e \in Events /\ e.kind = Head(fromJBE).what /\ e.kind \in InputKinds
    <3>1. Head(fromJBE).src \in Sources /\ Lookup(Head(fromJBE).src) \in Sources
      <4>1. Head(fromJBE) \in Lines
        BY <1>q, <2>1
      <4> QED
        BY <4>1 DEF Lines, EventLines, ResultLines, JunkLines, Lookup, Sources
    <3>2. e.kind # "NULL"
      BY <1>4 DEF ReadEvent, Serving
    <3> QED
      BY <3>1, <3>2 DEF ParseEvent, Events, NullEvent
  <2>3. b \in Seq(QueueKinds)
    <3>1. Tail(fromJBE) \in Seq(Lines)
      BY <1>q, <2>1
    <3> QED
      BY <3>1, EventsInType
  <2>4. EventsIn(fromJBE) = <<e.kind>> \o b
    <3>1. Then(<<>>, Head(fromJBE)) = <<e.kind>>
      BY <2>2 DEF Then
    <3> HIDE DEF e
    <3> QED
      BY <1>q, <2>1, <3>1, EventsInHead
  <2>5. KindsOf(eventQueue') = Append(a, e.kind) /\ e.kind \in QueueKinds
    BY <1>q, <2>1, <2>2, KindsOfQueue
  <2>6. PendingEvents' = PendingEvents
    <3> HIDE DEF a, b, e
    <3>1. Append(a, e.kind) \o b = a \o (<<e.kind>> \o b)
      BY <1>q, <2>3, <2>5, AppendThenConcat DEF a
    <3> QED
      BY <2>1, <2>4, <2>5, <3>1 DEF PendingEvents, a, b
  <2>7. ~FoundNone /\ ~FoundNone'
    <3>1. eventQueue' # <<>>
      <4> HIDE DEF e
      <4> QED
        BY <1>q, <2>1, <2>2
    <3> QED
      BY <2>1, <2>2, <3>1, AnswerStays DEF FoundNone
  <2> QED
    BY <1>a, <2>1, <2>6, <2>7, Stutters DEF AskedFor, FoundNone
<1>5. CASE ReadResult
  <2>1. /\ fromJBE # <<>> /\ fromJBE' = Tail(fromJBE) /\ Head(fromJBE).tag = "result"
    BY <1>5 DEF ReadResult, Reads
  <2>2. EventsIn(fromJBE') = EventsIn(fromJBE) /\ AnswerComesFirst
    <3>1. EventsIn(Tail(fromJBE)) \in Seq(QueueKinds)
      <4>1. Tail(fromJBE) \in Seq(Lines)
        BY <1>q, <2>1
      <4> QED
        BY <4>1, EventsInType
    <3>2. Head(fromJBE).what \notin InputKinds
      BY <1>q, <2>1, JunkIsNoEvent
    <3>3. EventsIn(fromJBE) = <<>> \o EventsIn(Tail(fromJBE))
      BY <1>q, <2>1, <3>2, EventsInHead DEF Then
    <3> QED
      BY <2>1, <3>1, <3>3, AnswerStays
  <2>4. CASE GotReply
    <3>1. /\ UNCHANGED <<eventQueue, returned>>
          /\ waiting \in {"status", "text"} /\ waiting' = "no"
      BY <2>4 DEF GotReply
    <3>2. AskedFor' = AskedFor /\ ~FoundNone /\ ~FoundNone'
      BY <3>1 DEF AskedFor, AskFns, FoundNone
    <3> QED
      BY <1>a, <2>2, <3>1, <3>2, Stutters DEF PendingEvents, FoundNone
  <2>5. ASSUME GotAnswer PROVE Simulates
    <3>1. waiting \in AskFns
      BY <2>5 DEF GotAnswer
    <3>2. CASE eventQueue # <<>>
      <4> DEFINE a == KindsOf(eventQueue)
                 b == EventsIn(fromJBE)
      <4>1. waiting' = "no" /\ ReturnEvent(eventQueue)
        BY <2>5, <3>2 DEF GotAnswer
      <4>2. AskedFor' = "no" /\ ~FoundNone'
        BY <4>1 DEF AskedFor, AskFns, FoundNone
      <4>3. /\ a # <<>> /\ Head(a) = Head(eventQueue).kind
            /\ KindsOf(Tail(eventQueue)) = Tail(a)
        BY <1>q, <3>2, KindsOfQueue
      <4> HIDE DEF a, b
      <4>4. a \o b # <<>> /\ Head(a \o b) = Head(a) /\ Tail(a \o b) = Tail(a) \o b
        BY <1>q, <4>3, ConcatHead DEF a, b
      <4>5. PendingEvents' = Tail(a) \o b /\ returned'.kind = Head(a)
        BY <2>2, <4>1, <4>3 DEF PendingEvents, ReturnEvent, b
      <4>6. PendingEvents \in Seq(QueueKinds)
        BY <1>q DEF PendingEvents
      <4>7. askedMask' \in masks' /\ UNCHANGED <<masks, parsed>>
        BY <1>5, <1>a, <3>1 DEF ReadResult, historyVars, CoveredInv
      <4>8. /\ Head(a) \in InputKinds /\ ClassesOf(Head(a)) \cap askedMask' # {}
            /\ askedMask' \in Masks
        BY <3>2, <4>3, <4>7, FirstIsCovered
      <4> QED
        BY <1>a, <4>2, <4>4, <4>5, <4>6, <4>8, Delivers DEF PendingEvents, a, b
    <3>3. CASE eventQueue = <<>> /\ waiting = "getNextEvent"
      <4>1. waiting' = "no" /\ returned' = NoEvent /\ eventQueue' = eventQueue
        BY <2>5, <3>3 DEF GotAnswer
      <4>2. AskedFor' = "no" /\ ~FoundNone' /\ FoundNone
        BY <2>2, <3>3, <4>1 DEF AskedFor, AskFns, FoundNone
      <4> QED
        BY <1>a, <2>2, <4>1, <4>2, ReturnsNone DEF PendingEvents
    <3>4. CASE eventQueue = <<>> /\ waiting = "waitForEvent"
      <4>1. UNCHANGED <<eventQueue, returned, waiting>>
        BY <2>5, <3>4 DEF GotAnswer
      <4>2. AskedFor' = AskedFor /\ ~FoundNone /\ ~FoundNone'
        BY <3>4, <4>1 DEF AskedFor, FoundNone
      <4> QED
        BY <1>a, <2>2, <4>1, <4>2, Stutters DEF PendingEvents, FoundNone
    <3> QED
      BY <3>1, <3>2, <3>3, <3>4 DEF AskFns
  <2> QED
    BY <1>5, <2>4, <2>5 DEF ReadResult
<1> QED
  BY <1>1, <1>2, <1>3, <1>4, <1>5 DEF LibraryStep, ReadStep

-----------------------------------------------------------------------------
\* What ends the service has no end itself.
LEMMA EndsForGood ==
    ASSUME TypeOK, ~Serving, [Next]_vars
    PROVE  ~Serving'
<1>1. CASE UNCHANGED vars
  BY <1>1 DEF vars, pipeVars, frontVars, backVars, Serving, OneMask
<1>2. CASE ~(client = "running")
  <2>1. ASSUME FrontStep PROVE FALSE
    BY <1>2, <2>1 DEF FrontStep, ProgramStep, NewGWindow, CloseGWindow, NewShape,
       CallBeforeInit, NewGTimer, FreeGTimer, StartStopTimer, Pause, GetText, AskForEvent,
       Call, LibraryStep, PutPipe, ReadStep, ReadResult, ReadEvent, ReadGarbledArguments,
       ReadJunk, ReadEOF, Reads
  <2> QED
    BY <1>1, <1>2, <2>1, BackPrints DEF Next, Serving
<1>3. CASE stray
  <2>1. CASE FrontStep
    BY <1>3, <2>1 DEF FrontStep, backVars, Serving
  <2>2. CASE UserStep
    BY <1>3, <2>2 DEF UserStep, HandleInput, IgnoreInput, Input, protocolVars, Serving
  <2>3. ASSUME NEW t \in Threads, ListenerStep(t) PROVE ~Serving'
    BY <1>3, <2>3 DEF ListenerStep, BeginLine, EndLine, Acknowledge, AcknowledgeEvent,
       RemoveWindow, StoreCount, TestCount, ExitJVM, protocolVars, backVars, Serving
  <2>4. CASE CommandStep
    BY <1>3, <2>4 DEF CommandStep, GTimer_pause, GWindow_create, ShowWindow, NoReply,
       GWindow_close, SetTimer, Reply, GEvent_ask, AwaitEvent, AnswerNow, SetMask, Execute,
       protocolVars, Serving
  <2> QED
    BY <1>1, <2>1, <2>2, <2>3, <2>4 DEF Next, BackStep, ThreadStep
<1>4. masks \subseteq masks' /\ parsed \subseteq parsed'
  BY HistoryGrows
<1>5. CASE ~OneMask
  BY <1>4, <1>5 DEF Serving, OneMask
<1>6. CASE "NULL" \in parsed
  BY <1>4, <1>6 DEF Serving
<1>7. CASE ~("windowClosed" \in parsed => \A m \in masks : "WINDOW" \in m)
  BY <1>4, <1>7 DEF Serving
<1> QED
  BY <1>2, <1>3, <1>5, <1>6, <1>7 DEF Serving

\* The protocol implements the event service of gevents.h: every behaviour of the two
\* processes is one of EventService under the mapping of EventProtocol, for any number
\* of windows, timers and calls, any mask and pipes of any length.  Each event operation
\* returns the oldest event its mask covers, each event once, and getNextEvent returns
\* NULL only if there was none; up to the first of the four exceptions Serving names.
THEOREM ProtocolImplementsService == Spec => ImplementsService
<1>1. Init => Service!Init
  <2> SUFFICES ASSUME Init PROVE Service!Init
    OBVIOUS
  <2>1. eventQueue = <<>> /\ fromJBE = <<>> /\ waiting = "no" /\ returned = NoEvent
        /\ client = "running" /\ ~stray /\ masks = {} /\ parsed = {} /\ askedMask = {}
    BY DEF Init, PipesInit, FrontInit, BackInit
  <2>2. PendingEvents = <<>>
    <3>1. <<>> \in Seq(Events)
      OBVIOUS
    <3>2. KindsOf(<<>>) = <<>> /\ EventsIn(<<>>) = <<>>
      BY <3>1, KindsOfQueue, EventsInEmpty
    <3> QED
      BY <2>1, <3>2 DEF PendingEvents
  <2> QED
    BY <2>1, <2>2 DEF Service!Init, Serving, OneMask, AskFns, NoEvent
<1>2. TypeOK /\ TypeOK' /\ OneOutstanding /\ CoveredInv /\ [Next]_vars => Simulates
  <2> SUFFICES ASSUME TypeOK, TypeOK', OneOutstanding, CoveredInv, [Next]_vars
               PROVE  Simulates
    OBVIOUS
  <2>1. CASE ~Serving
    BY <2>1, EndsForGood, HasEnded
  <2>5. CASE ~Serving'
    BY <2>5, Ends
  <2> SUFFICES ASSUME Serving' PROVE Simulates
    BY <2>5
  <2>2. CASE Serving /\ UNCHANGED vars
    BY <2>2, Stutters DEF vars, pipeVars, frontVars, backVars, Serving, PendingEvents,
       AskedFor, FoundNone, AnswerComesFirst
  <2>3. CASE Serving /\ FrontStep
    BY <2>3, ProgramServes, LibraryServes DEF FrontStep
  <2>4. CASE Serving /\ BackStep
    BY <2>4, BackServes
  <2> QED
    BY <2>1, <2>2, <2>3, <2>4 DEF Next
<1>3. TypeOK /\ CoveredInv /\ [Next]_vars => CoveredInv'
  BY StepCovered
<1> QED
  BY <1>1, <1>2, <1>3, InitCovered, TypeCorrect, OneReplyOutstanding, PTL
  DEF Spec, Simulates, ImplementsService, Service!Spec
=============================================================================
