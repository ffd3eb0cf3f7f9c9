----------------------------- MODULE GraphProofs -----------------------------
(***************************************************************************)
(* What graph.c promises, for any names, costs, bounds and programs: its   *)
(* sets, its arcs and its names stay consistent, its loops come to each    *)
(* element once, and it leads only a careless program to freed memory.     *)
(*                                                                         *)
(* First what an insertion and a removal do to a set and to a loop over it;*)
(* then the searches by the comparison functions; then the invariant and   *)
(* each operation.                                                         *)
(***************************************************************************)
EXTENDS Graph, FiniteSetTheorems, SequenceTheorems, WellFoundedInduction, TLAPS

\* Cells and keys are numbers: addresses of tree nodes, of nodes and of arcs.
Elements == [cell : Nat, key : Nat]
Distinct(s) ==
    \A i, j \in 1..Len(s) : s[i].cell = s[j].cell \/ s[i].key = s[j].key => i = j
\* What a set of set.c is while its order is kept: each cell once, each key once.
IsSet(s) == s \in Seq(Elements) /\ Distinct(s)
\* And what it is at all times: each cell once.
IsTree(s) ==
    s \in Seq(Elements) /\ \A i, j \in 1..Len(s) : s[i].cell = s[j].cell => i = j

\* A set is a tree.
LEMMA SetIsTree == ASSUME NEW s, IsSet(s) PROVE IsTree(s)
  BY DEF IsSet, IsTree, Distinct

\* A cell put in place i moves those from i on by one.
LEMMA InsertAtElements ==
    ASSUME NEW S, NEW s \in Seq(S), NEW e \in S, NEW i \in 1..Len(s) + 1
    PROVE  /\ InsertAt(s, i, e) \in Seq(S)
           /\ Len(InsertAt(s, i, e)) = Len(s) + 1
           /\ \A p \in 1..Len(s) + 1 : InsertAt(s, i, e)[p] =
                  IF p < i THEN s[p] ELSE IF p = i THEN e ELSE s[p - 1]
<1> DEFINE a == SubSeq(s, 1, i - 1)  b == SubSeq(s, i, Len(s))
<1>1. a \in Seq(S) /\ Len(a) = i - 1 /\ \A p \in 1..(i - 1) : a[p] = s[p]
  OBVIOUS
<1>2. b \in Seq(S) /\ Len(b) = Len(s) - i + 1 /\ \A p \in 1..(Len(s) - i + 1) : b[p] = s[p + i - 1]
  OBVIOUS
<1> HIDE DEF a, b
<1>3. a \o <<e>> \in Seq(S) /\ Len(a \o <<e>>) = i
      /\ \A p \in 1..i : (a \o <<e>>)[p] = IF p = i THEN e ELSE s[p]
  BY <1>1
<1> DEFINE c == a \o <<e>>
<1>4. c \in Seq(S) /\ Len(c) = i /\ \A p \in 1..i : c[p] = IF p = i THEN e ELSE s[p]
  BY <1>3
<1> HIDE DEF c
<1>5. /\ c \o b \in Seq(S) /\ Len(c \o b) = Len(s) + 1
      /\ \A p \in 1..Len(s) + 1 : (c \o b)[p] = IF p <= i THEN c[p] ELSE b[p - i]
  <2>1. Len(c) + Len(b) = Len(s) + 1
    BY <1>2, <1>4
  <2> QED
    BY <1>2, <1>4, <2>1, ConcatProperties
<1>6. \A p \in 1..Len(s) + 1 : (c \o b)[p] =
         IF p < i THEN s[p] ELSE IF p = i THEN e ELSE s[p - 1]
  <2> SUFFICES ASSUME NEW p \in 1..Len(s) + 1
               PROVE  (c \o b)[p] = IF p < i THEN s[p] ELSE IF p = i THEN e ELSE s[p - 1]
    OBVIOUS
  <2>1. CASE p <= i
    BY <2>1, <1>4, <1>5
  <2>2. CASE ~ (p <= i)
    <3>1. p > i /\ p - i \in 1..(Len(s) - i + 1) /\ (p - i) + i - 1 = p - 1
      BY <2>2
    <3> QED
      BY <2>2, <3>1, <1>2, <1>5
  <2> QED
    BY <2>1, <2>2
<1> QED
  BY <1>5, <1>6 DEF InsertAt, a, b, c

\* A cell taken out of place i moves those after i back by one.
LEMMA RemoveAtElements ==
    ASSUME NEW S, NEW s \in Seq(S), NEW i \in 1..Len(s)
    PROVE  /\ RemoveAt(s, i) \in Seq(S)
           /\ Len(RemoveAt(s, i)) = Len(s) - 1
           /\ \A p \in 1..Len(s) - 1 : RemoveAt(s, i)[p] = IF p < i THEN s[p] ELSE s[p + 1]
<1> DEFINE a == SubSeq(s, 1, i - 1)  b == SubSeq(s, i + 1, Len(s))
<1>1. a \in Seq(S) /\ Len(a) = i - 1 /\ \A p \in 1..(i - 1) : a[p] = s[p]
  OBVIOUS
<1>2. b \in Seq(S) /\ Len(b) = Len(s) - i /\ \A p \in 1..(Len(s) - i) : b[p] = s[p + i]
  OBVIOUS
<1> HIDE DEF a, b
<1>5. /\ a \o b \in Seq(S) /\ Len(a \o b) = Len(s) - 1
      /\ \A p \in 1..Len(s) - 1 : (a \o b)[p] = IF p <= i - 1 THEN a[p] ELSE b[p - (i - 1)]
  <2>1. Len(a) + Len(b) = Len(s) - 1
    BY <1>1, <1>2
  <2>2. /\ a \o b \in Seq(S) /\ Len(a \o b) = Len(a) + Len(b)
        /\ \A p \in 1..Len(a) + Len(b) :
               (a \o b)[p] = IF p <= Len(a) THEN a[p] ELSE b[p - Len(a)]
    BY <1>1, <1>2, ConcatProperties
  <2>3. Len(a) = i - 1
    BY <1>1
  <2> QED
    BY <2>1, <2>2, <2>3
<1>6. \A p \in 1..Len(s) - 1 : (a \o b)[p] = IF p < i THEN s[p] ELSE s[p + 1]
  <2> SUFFICES ASSUME NEW p \in 1..Len(s) - 1
               PROVE  (a \o b)[p] = IF p < i THEN s[p] ELSE s[p + 1]
    OBVIOUS
  <2>1. CASE p < i
    BY <2>1, <1>1, <1>5
  <2>2. CASE ~ (p < i)
    <3>1. ~ (p <= i - 1) /\ p - (i - 1) \in 1..(Len(s) - i) /\ (p - (i - 1)) + i = p + 1
      BY <2>2
    <3>2. p \in 1..Len(s) - 1 /\ ~ (p <= i - 1)
      BY <3>1
    <3>3. (a \o b)[p] = b[p - (i - 1)]
      BY <3>2, <1>5
    <3>4. b[p - (i - 1)] = s[p + 1]
      BY <3>1, <1>2
    <3> QED
      BY <2>2, <3>3, <3>4
  <2> QED
    BY <2>1, <2>2
<1> QED
  BY <1>5, <1>6 DEF RemoveAt, a, b

\* addSet links a block that is in no other place of the tree.
LEMMA CellIsFresh ==
    ASSUME NEW s \in Seq(Elements)
    PROVE  FreshCell(s) \in 1..Len(s) + 1 /\ FreshCell(s) \notin Cells(s)
<1> SUFFICES \E c \in 1..Len(s) + 1 : c \notin Cells(s)
  BY DEF FreshCell
<1> SUFFICES ASSUME 1..Len(s) + 1 \subseteq Cells(s) PROVE FALSE
  OBVIOUS
<1> DEFINE f == [c \in 1..Len(s) + 1 |-> CHOOSE i \in 1..Len(s) : s[i].cell = c]
<1>1. \A c \in 1..Len(s) + 1 : f[c] \in 1..Len(s) /\ s[f[c]].cell = c
  BY DEF Cells
<1>2. f \in [1..Len(s) + 1 -> 1..Len(s)]
  BY <1>1
<1>3. \A c, d \in 1..Len(s) + 1 : c # d => f[c] # f[d]
  BY <1>1
<1> HIDE DEF f
<1>4. Len(s) \in Nat /\ 1 \in Int /\ Len(s) \in Int /\ Len(s) + 1 \in Int
  OBVIOUS
<1> DEFINE n == Len(s)  m == Len(s) + 1
<1>8. n \in Int /\ m \in Int /\ m = n + 1 /\ n >= 0
  BY <1>4
<1> HIDE DEF n, m
<1>9. /\ IsFiniteSet(1..n) /\ Cardinality(1..n) = n
      /\ IsFiniteSet(1..m) /\ Cardinality(1..m) = m
  <2>1. IsFiniteSet(1..n) /\ Cardinality(1..n) = IF 1 > n THEN 0 ELSE n - 1 + 1
    BY <1>4, <1>8, FS_Interval
  <2>2. IsFiniteSet(1..m) /\ Cardinality(1..m) = IF 1 > m THEN 0 ELSE m - 1 + 1
    BY <1>4, <1>8, FS_Interval
  <2> QED
    BY <1>8, <2>1, <2>2
<1>5. /\ IsFiniteSet(1..Len(s)) /\ Cardinality(1..Len(s)) = Len(s)
      /\ IsFiniteSet(1..Len(s) + 1) /\ Cardinality(1..Len(s) + 1) = Len(s) + 1
  BY <1>9 DEF n, m
<1>6. Cardinality(1..Len(s)) < Cardinality(1..Len(s) + 1)
  BY <1>4, <1>5
<1>7. \E x, y \in 1..Len(s) + 1 : x # y /\ f[x] = f[y]
  BY <1>2, <1>5, <1>6, FS_PigeonHole
<1> QED
  BY <1>3, <1>7

\* Cells of C stay in s, with their keys and in their order, while it becomes t.
Keeps(s, t, C) ==
    /\ \A p \in 1..Len(s) : s[p].cell \in C => \E q \in 1..Len(t) : t[q] = s[p]
    /\ \A p1, p2 \in 1..Len(s) : \A q1, q2 \in 1..Len(t) :
           /\ s[p1].cell \in C /\ s[p2].cell \in C /\ p1 < p2
           /\ t[q1] = s[p1] /\ t[q2] = s[p2]
           => q1 < q2

\* A set with one element more, wherever it is put, is a set that keeps the rest.
LEMMA OneMore ==
    ASSUME NEW s, IsTree(s), NEW t \in Seq(Elements), NEW m \in 1..Len(t),
           NEW at \in [1..Len(s) -> 1..Len(t)],
           \A p1, p2 \in 1..Len(s) : p1 < p2 => at[p1] < at[p2],
           \A p \in 1..Len(s) : t[at[p]] = s[p],
           \A q \in 1..Len(t) : q = m \/ \E p \in 1..Len(s) : q = at[p],
           \A p \in 1..Len(s) : s[p].cell # t[m].cell,
           NEW C
    PROVE  /\ IsTree(t) /\ Keys(t) = Keys(s) \cup {t[m].key} /\ Keeps(s, t, C)
           /\ IsSet(s) /\ t[m].key \notin Keys(s) => IsSet(t)
<1>1. \A p1, p2 \in 1..Len(s) : s[p1].cell = s[p2].cell => p1 = p2
  BY DEF IsTree
<1>2. \A q1, q2 \in 1..Len(t) : t[q1].cell = t[q2].cell => q1 = q2
  <2> SUFFICES ASSUME NEW q1 \in 1..Len(t), NEW q2 \in 1..Len(t), t[q1].cell = t[q2].cell
               PROVE  q1 = q2
    OBVIOUS
  <2>1. CASE q1 = m \/ q2 = m
    <3>1. \A q \in 1..Len(t) : q # m => t[q].cell # t[m].cell
      <4> SUFFICES ASSUME NEW q \in 1..Len(t), q # m
                   PROVE  t[q].cell # t[m].cell
        OBVIOUS
      <4>1. PICK p \in 1..Len(s) : q = at[p]
        OBVIOUS
      <4>2. t[q] = s[p]
        BY <4>1
      <4> QED
        BY <4>2
    <3> QED
      BY <2>1, <3>1
  <2>2. CASE q1 # m /\ q2 # m
    <3>1. PICK p1 \in 1..Len(s) : q1 = at[p1]
      BY <2>2
    <3>2. PICK p2 \in 1..Len(s) : q2 = at[p2]
      BY <2>2
    <3>3. t[q1] = s[p1] /\ t[q2] = s[p2]
      BY <3>1, <3>2
    <3>4. p1 = p2
      BY <1>1, <3>3
    <3> QED
      BY <3>1, <3>2, <3>4
  <2> QED
    BY <2>1, <2>2
<1>5. ASSUME IsSet(s), t[m].key \notin Keys(s),
             NEW q1 \in 1..Len(t), NEW q2 \in 1..Len(t), t[q1].key = t[q2].key
      PROVE  q1 = q2
  <2>0. \A p1, p2 \in 1..Len(s) : s[p1].key = s[p2].key => p1 = p2
    BY <1>5 DEF IsSet, Distinct
  <2>3. \A p \in 1..Len(s) : s[p].key # t[m].key
    BY <1>5 DEF Keys
  <2>1. CASE q1 = m \/ q2 = m
    <3>1. ASSUME NEW q \in 1..Len(t), q # m PROVE t[q].key # t[m].key
      <4>1. PICK p \in 1..Len(s) : q = at[p]
        BY <3>1
      <4>2. t[q] = s[p]
        BY <4>1
      <4> QED
        BY <2>3, <4>2
    <3> QED
      BY <1>5, <2>1, <3>1
  <2>2. CASE q1 # m /\ q2 # m
    <3>1. PICK p1 \in 1..Len(s) : q1 = at[p1]
      BY <2>2
    <3>2. PICK p2 \in 1..Len(s) : q2 = at[p2]
      BY <2>2
    <3>3. t[q1] = s[p1] /\ t[q2] = s[p2]
      BY <3>1, <3>2
    <3>4. p1 = p2
      BY <1>5, <2>0, <3>3
    <3> QED
      BY <3>1, <3>2, <3>4
  <2> QED
    BY <2>1, <2>2
<1>6. IsSet(s) /\ t[m].key \notin Keys(s) => IsSet(t)
  BY <1>2, <1>5 DEF IsSet, Distinct
<1>3. Keys(t) = Keys(s) \cup {t[m].key}
  <2>1. ASSUME NEW q \in 1..Len(t) PROVE t[q].key \in Keys(s) \cup {t[m].key}
    <3>1. CASE q = m
      BY <3>1
    <3>2. CASE q # m
      <4>1. PICK p \in 1..Len(s) : q = at[p]
        BY <3>2
      <4>2. t[q] = s[p]
        BY <4>1
      <4> QED
        BY <4>2 DEF Keys
    <3> QED
      BY <3>1, <3>2
  <2>2. ASSUME NEW p \in 1..Len(s) PROVE s[p].key \in Keys(t)
    <3>1. at[p] \in 1..Len(t) /\ t[at[p]].key = s[p].key
      OBVIOUS
    <3> QED
      BY <3>1 DEF Keys
  <2>3. t[m].key \in Keys(t)
    BY DEF Keys
  <2>4. Keys(t) \subseteq Keys(s) \cup {t[m].key}
    <3> SUFFICES ASSUME NEW x \in Keys(t) PROVE x \in Keys(s) \cup {t[m].key}
      OBVIOUS
    <3>1. PICK q \in 1..Len(t) : x = t[q].key
      BY DEF Keys
    <3> QED
      BY <2>1, <3>1
  <2>5. Keys(s) \subseteq Keys(t)
    <3> SUFFICES ASSUME NEW x \in Keys(s) PROVE x \in Keys(t)
      OBVIOUS
    <3>1. PICK p \in 1..Len(s) : x = s[p].key
      BY DEF Keys
    <3> QED
      BY <2>2, <3>1
  <2> QED
    BY <2>3, <2>4, <2>5
<1>4. Keeps(s, t, C)
  <2>1. ASSUME NEW p \in 1..Len(s), NEW q \in 1..Len(t), t[q] = s[p] PROVE q = at[p]
    <3>1. at[p] \in 1..Len(t) /\ t[at[p]] = s[p]
      OBVIOUS
    <3>2. t[at[p]].cell = t[q].cell
      BY <2>1, <3>1
    <3> QED
      BY <1>2, <3>1, <3>2
  <2>2. \A p1, p2 \in 1..Len(s) : \A q1, q2 \in 1..Len(t) :
            p1 < p2 /\ t[q1] = s[p1] /\ t[q2] = s[p2] => q1 < q2
    BY <2>1
  <2>3. \A p \in 1..Len(s) : \E q \in 1..Len(t) : t[q] = s[p]
    OBVIOUS
  <2> QED
    BY <2>2, <2>3 DEF Keeps
<1> QED
  BY <1>2, <1>3, <1>4, <1>6 DEF IsTree

\* addSet puts in an element, and keeps all cells.
LEMMA Inserted ==
    ASSUME NEW s, IsTree(s), NEW k \in Nat, NEW j \in 0..Len(s),
           NEW t, t = InsertAt(s, j + 1, Entry(FreshCell(s), k)), NEW C
    PROVE  /\ IsTree(t) /\ Keys(t) = Keys(s) \cup {k} /\ Keeps(s, t, C)
           /\ IsSet(s) /\ k \notin Keys(s) => IsSet(t)
<1> DEFINE e == Entry(FreshCell(s), k)
<1>0. s \in Seq(Elements) /\ Len(s) \in Nat
  BY DEF IsTree
<1>1. /\ FreshCell(s) \in Nat
      /\ \A p \in 1..Len(s) : s[p].cell # FreshCell(s)
  BY <1>0, CellIsFresh DEF Cells
<1>2. e \in Elements /\ e.cell = FreshCell(s) /\ e.key = k
  BY <1>1 DEF Entry, Elements
<1>3. \A p \in 1..Len(s) : s[p].cell # e.cell
  BY <1>1, <1>2
<1> HIDE DEF e
<1>4. /\ t \in Seq(Elements) /\ Len(t) = Len(s) + 1
      /\ \A p \in 1..Len(s) + 1 :
             t[p] = IF p < j + 1 THEN s[p] ELSE IF p = j + 1 THEN e ELSE s[p - 1]
  <2>1. j + 1 \in 1..Len(s) + 1
    BY <1>0
  <2> DEFINE m == j + 1
  <2>2. e \in Elements /\ t = InsertAt(s, m, e) /\ m \in 1..Len(s) + 1
    BY <1>2, <2>1 DEF e
  <2> HIDE DEF m
  <2>3. /\ InsertAt(s, m, e) \in Seq(Elements) /\ Len(InsertAt(s, m, e)) = Len(s) + 1
        /\ \A p \in 1..Len(s) + 1 : InsertAt(s, m, e)[p] =
               IF p < m THEN s[p] ELSE IF p = m THEN e ELSE s[p - 1]
    <3>1. e \in Elements /\ m \in 1..Len(s) + 1
      BY <2>2
    <3> QED
      BY ONLY <1>0, <3>1, InsertAtElements
  <2> QED
    BY <2>2, <2>3 DEF m
<1> DEFINE at == [p \in 1..Len(s) |-> IF p <= j THEN p ELSE p + 1]
<1>5. at \in [1..Len(s) -> 1..Len(t)]
  BY <1>0, <1>4
<1>6. \A p1, p2 \in 1..Len(s) : p1 < p2 => at[p1] < at[p2]
  BY <1>0
<1>7. ASSUME NEW p \in 1..Len(s) PROVE t[at[p]] = s[p]
  <2>1. CASE p <= j
    <3>1. at[p] = p /\ p < j + 1 /\ p \in 1..Len(s) + 1
      BY <1>0, <2>1
    <3> QED
      BY <1>4, <3>1
  <2>2. CASE ~ (p <= j)
    <3>1. /\ at[p] = p + 1 /\ ~ (p + 1 < j + 1) /\ p + 1 # j + 1 /\ (p + 1) - 1 = p
          /\ p + 1 \in 1..Len(s) + 1
      BY <1>0, <2>2
    <3> QED
      BY <1>4, <3>1
  <2> QED
    BY <2>1, <2>2
<1>8. ASSUME NEW q \in 1..Len(t), q # j + 1 PROVE \E p \in 1..Len(s) : q = at[p]
  <2>1. CASE q <= j
    <3>1. q \in 1..Len(s) /\ at[q] = q
      BY <1>0, <1>4, <2>1
    <3> QED
      BY <3>1
  <2>2. CASE ~ (q <= j)
    <3>1. q - 1 \in 1..Len(s) /\ at[q - 1] = q
      BY <1>0, <1>4, <1>8, <2>2
    <3> QED
      BY <3>1
  <2> QED
    BY <2>1, <2>2
<1>9. j + 1 \in 1..Len(t) /\ t[j + 1] = e
  BY <1>0, <1>4
<1>10. \A p \in 1..Len(s) : t[at[p]] = s[p]
  BY <1>7
<1>11. \A q \in 1..Len(t) : q = j + 1 \/ \E p \in 1..Len(s) : q = at[p]
  BY <1>8
<1>12. \A p \in 1..Len(s) : s[p].cell # t[j + 1].cell
  BY <1>3, <1>9
<1>13. t \in Seq(Elements)
  BY <1>4
<1> HIDE DEF at
<1>14. /\ IsTree(t) /\ Keys(t) = Keys(s) \cup {t[j + 1].key} /\ Keeps(s, t, C)
       /\ IsSet(s) /\ t[j + 1].key \notin Keys(s) => IsSet(t)
  <2> DEFINE m == j + 1
  <2>1. /\ m \in 1..Len(t)
        /\ \A q \in 1..Len(t) : q = m \/ \E p \in 1..Len(s) : q = at[p]
        /\ \A p \in 1..Len(s) : s[p].cell # t[m].cell
    BY <1>9, <1>11, <1>12
  <2> HIDE DEF m
  <2>2. /\ IsTree(t) /\ Keys(t) = Keys(s) \cup {t[m].key} /\ Keeps(s, t, C)
        /\ IsSet(s) /\ t[m].key \notin Keys(s) => IsSet(t)
    <3>1. IsTree(s)
      OBVIOUS
    <3> QED
      BY ONLY <3>1, <1>5, <1>6, <1>10, <1>13, <2>1, OneMore
  <2> QED
    BY <2>2 DEF m
<1> QED
  BY <1>2, <1>9, <1>14

\* A set that is left alone keeps all cells.
LEMMA Same ==
    ASSUME NEW s, IsTree(s), NEW C
    PROVE  Keeps(s, s, C)
<1>1. \A p, q \in 1..Len(s) : s[p].cell = s[q].cell => p = q
  BY DEF IsTree
<1> QED
  BY <1>1 DEF Keeps

\* The keys that a removal moves, each from the place before.
LEMMA MoveElements ==
    ASSUME NEW s \in Seq(Elements), NEW moved \in SUBSET (2..Len(s))
    PROVE  /\ Move(s, moved) \in Seq(Elements) /\ Len(Move(s, moved)) = Len(s)
           /\ \A p \in 1..Len(s) :
                  /\ Move(s, moved)[p].cell = s[p].cell
                  /\ Move(s, moved)[p].key = IF p \in moved THEN s[p - 1].key ELSE s[p].key
                  /\ p \notin moved => Move(s, moved)[p] = s[p]
                  /\ p \in moved => Move(s, moved)[p] = Entry(s[p].cell, s[p - 1].key)
<1>1. Len(s) \in Nat
  OBVIOUS
<1>2. \A p \in 1..Len(s) : s[p] \in Elements
  OBVIOUS
<1>3. ASSUME NEW p \in 1..Len(s), p \in moved
      PROVE  Entry(s[p].cell, s[p - 1].key) \in Elements
  <2>1. p - 1 \in 1..Len(s)
    BY <1>1, <1>3
  <2>2. s[p] \in Elements /\ s[p - 1] \in Elements
    BY <1>2, <2>1
  <2> QED
    BY <2>2 DEF Entry, Elements
<1> DEFINE f(p) == IF p \in moved THEN Entry(s[p].cell, s[p - 1].key) ELSE s[p]
<1>4. \A p \in 1..Len(s) : f(p) \in Elements
  BY <1>2, <1>3
<1>5. Move(s, moved) = [p \in 1..Len(s) |-> f(p)]
  BY DEF Move
<1> HIDE DEF f
<1>6. Move(s, moved) \in [1..Len(s) -> Elements]
  BY <1>4, <1>5
<1>7. Move(s, moved) \in Seq(Elements) /\ Len(Move(s, moved)) = Len(s)
  BY <1>1, <1>6
<1>8. \A p \in 1..Len(s) : Move(s, moved)[p] = f(p)
  BY <1>5
<1> QED
  BY <1>7, <1>8 DEF f, Entry

\* A removal that finds the keys it looks for: the node of the element is taken
\* out, or, if it has two children, the node before it, whose key it gets.
OneOut(s, i) ==
    {RemoveAt(s, i)}
    \cup (IF i > 1 /\ i < Len(s) THEN {RemoveAt(Move(s, {i}), i - 1)} ELSE {})

\* The element at i is taken out and t has all others, from i on at the
\* place before their own; the cell of the one before it may be exchanged.
LEMMA Unlinking ==
    ASSUME NEW s, IsSet(s), NEW i \in 1..Len(s), NEW t \in OneOut(s, i)
    PROVE  /\ t \in Seq(Elements) /\ Len(t) = Len(s) - 1
           /\ \A p \in 1..(i - 1) : /\ t[p].key = s[p].key
                                    /\ t[p].cell = s[p].cell \/ (p = i - 1 /\ t[p].cell = s[i].cell)
           /\ \A p \in i..(Len(s) - 1) : t[p] = s[p + 1]
<1>0. s \in Seq(Elements) /\ Len(s) \in Nat
  BY DEF IsSet
<1>1. CASE t = RemoveAt(s, i)
  <2>1. /\ t \in Seq(Elements) /\ Len(t) = Len(s) - 1
        /\ \A p \in 1..Len(s) - 1 : t[p] = IF p < i THEN s[p] ELSE s[p + 1]
    BY <1>0, <1>1, RemoveAtElements
  <2> QED
    BY <1>0, <2>1
<1>2. CASE i > 1 /\ t = RemoveAt(Move(s, {i}), i - 1)
  <2> DEFINE u == Move(s, {i})
  <2>0. {i} \in SUBSET (2..Len(s))
    BY <1>0, <1>2
  <2>1. /\ u \in Seq(Elements) /\ Len(u) = Len(s)
        /\ \A p \in 1..Len(s) : p # i => u[p] = s[p]
        /\ u[i].key = s[i - 1].key /\ u[i].cell = s[i].cell
    BY <1>0, <2>0, MoveElements
  <2> HIDE DEF u
  <2>2. t = RemoveAt(u, i - 1)
    BY <1>2 DEF u
  <2> DEFINE m == i - 1
  <2>3. m \in 1..Len(u) /\ m \in Nat /\ i = m + 1
    BY <1>0, <1>2, <2>1
  <2>9. t = RemoveAt(u, m)
    BY <2>2
  <2> HIDE DEF m
  <2>4. /\ t \in Seq(Elements) /\ Len(t) = Len(u) - 1
        /\ \A p \in 1..Len(u) - 1 : t[p] = IF p < m THEN u[p] ELSE u[p + 1]
    BY <2>1, <2>3, <2>9, RemoveAtElements
  <2>5. Len(t) = Len(s) - 1
    BY <2>1, <2>4
  <2>6. ASSUME NEW p \in i..(Len(s) - 1) PROVE t[p] = s[p + 1]
    <3>1. p \in 1..Len(u) - 1 /\ ~ (p < m) /\ p + 1 \in 1..Len(s) /\ p + 1 # i
      BY <1>0, <2>1, <2>3
    <3> QED
      BY <2>1, <2>4, <3>1
  <2>7. ASSUME NEW p \in 1..(i - 1)
        PROVE  /\ t[p].key = s[p].key
               /\ t[p].cell = s[p].cell \/ (p = i - 1 /\ t[p].cell = s[i].cell)
    <3>1. p \in 1..Len(u) - 1 /\ p \in 1..Len(s) /\ p # i /\ i - 1 = m
      BY <1>0, <2>1, <2>3
    <3>2. CASE p < m
      BY <2>1, <2>4, <3>1, <3>2
    <3>3. CASE ~ (p < m)
      <4>1. p = m /\ p + 1 = i
        BY <2>3, <3>1, <3>3
      <4>2. t[p] = u[i]
        BY <2>4, <3>1, <3>3, <4>1
      <4> QED
        BY <2>1, <3>1, <4>1, <4>2
    <3> QED
      BY <3>2, <3>3
  <2> QED
    BY <2>4, <2>5, <2>6, <2>7
<1> QED
  BY <1>1, <1>2 DEF OneOut

\* The place that q has in s: i and all behind it move forward by one.
LessOne(s, t, i, was) ==
    /\ \A q1, q2 \in 1..Len(t) : q1 < q2 <=> was[q1] < was[q2]
    /\ \A q \in 1..Len(t) :
           /\ was[q] # i
           /\ t[q].key = s[was[q]].key
           /\ was[q] > i => t[q] = s[was[q]]
           /\ \/ t[q].cell = s[was[q]].cell
              \/ was[q] = i - 1 /\ t[q].cell = s[i].cell
    /\ \A p \in 1..Len(s) : p # i => \E q \in 1..Len(t) : was[q] = p

\* removeTargetNode takes one element out; the others stay in their order.
LEMMA OneLess ==
    ASSUME NEW s, IsSet(s), NEW i \in 1..Len(s), NEW t \in OneOut(s, i)
    PROVE  /\ t \in Seq(Elements)
           /\ \E was \in [1..Len(t) -> 1..Len(s)] : LessOne(s, t, i, was)
<1>0. s \in Seq(Elements) /\ Len(s) \in Nat
  BY DEF IsSet
<1>1. /\ t \in Seq(Elements) /\ Len(t) = Len(s) - 1
      /\ \A p \in 1..(i - 1) :
             /\ t[p].key = s[p].key
             /\ t[p].cell = s[p].cell \/ (p = i - 1 /\ t[p].cell = s[i].cell)
      /\ \A p \in i..(Len(s) - 1) : t[p] = s[p + 1]
  BY Unlinking
<1> DEFINE was == [q \in 1..Len(t) |-> IF q < i THEN q ELSE q + 1]
<1>2. was \in [1..Len(t) -> 1..Len(s)]
  BY <1>0, <1>1
<1>3. \A q1, q2 \in 1..Len(t) : q1 < q2 <=> was[q1] < was[q2]
  BY <1>0, <1>1
<1>4. ASSUME NEW q \in 1..Len(t)
      PROVE  /\ was[q] # i
             /\ t[q].key = s[was[q]].key
             /\ was[q] > i => t[q] = s[was[q]]
             /\ \/ t[q].cell = s[was[q]].cell
                \/ was[q] = i - 1 /\ t[q].cell = s[i].cell
  <2>1. CASE q < i
    <3>1. was[q] = q /\ q \in 1..(i - 1)
      BY <1>0, <2>1
    <3> QED
      BY <1>1, <3>1
  <2>2. CASE ~ (q < i)
    <3>1. was[q] = q + 1 /\ q \in i..(Len(s) - 1)
      BY <1>0, <1>1, <2>2
    <3>2. t[q] = s[was[q]] /\ was[q] # i
      BY <1>1, <3>1
    <3> QED
      BY <3>2
  <2> QED
    BY <2>1, <2>2
<1>5. ASSUME NEW p \in 1..Len(s), p # i PROVE \E q \in 1..Len(t) : was[q] = p
  <2>1. CASE p < i
    <3>1. p \in 1..Len(t) /\ was[p] = p
      BY <1>0, <1>1, <2>1
    <3> QED
      BY <3>1
  <2>2. CASE ~ (p < i)
    <3>1. p - 1 \in 1..Len(t) /\ was[p - 1] = p
      BY <1>0, <1>1, <1>5, <2>2
    <3> QED
      BY <3>1
  <2> QED
    BY <2>1, <2>2
<1> HIDE DEF was
<1>6. LessOne(s, t, i, was)
  BY <1>3, <1>4, <1>5 DEF LessOne
<1> QED
  BY <1>1, <1>2, <1>6

\* It keeps the cells of all elements after the one taken out.
LEMMA TakenFrom ==
    ASSUME NEW s, IsSet(s), NEW i \in 1..Len(s), NEW t \in OneOut(s, i), NEW C,
           \A p \in 1..i : s[p].cell \notin C
    PROVE  Keeps(s, t, C)
<1>0. s \in Seq(Elements) /\ Len(s) \in Nat
  BY DEF IsSet
<1>8. PICK was \in [1..Len(t) -> 1..Len(s)] : LessOne(s, t, i, was)
  BY OneLess
<1>1. /\ \A q1, q2 \in 1..Len(t) : q1 < q2 <=> was[q1] < was[q2]
      /\ \A q \in 1..Len(t) :
             /\ was[q] # i
             /\ was[q] > i => t[q] = s[was[q]]
             /\ \/ t[q].cell = s[was[q]].cell
                \/ was[q] = i - 1 /\ t[q].cell = s[i].cell
      /\ \A p \in 1..Len(s) : p # i => \E q \in 1..Len(t) : was[q] = p
  BY <1>8 DEF LessOne
<1>2. \A p, q \in 1..Len(s) : s[p].cell = s[q].cell => p = q
  BY DEF IsSet, Distinct
<1>3. \A p \in 1..Len(s) : s[p].cell \in C => p > i
  BY <1>0
<1>4. ASSUME NEW p \in 1..Len(s), s[p].cell \in C PROVE \E q \in 1..Len(t) : t[q] = s[p]
  <2>1. p > i /\ p # i
    BY <1>3, <1>4
  <2> QED
    BY <1>1, <2>1
<1>5. ASSUME NEW p \in 1..Len(s), s[p].cell \in C, NEW q \in 1..Len(t), t[q] = s[p]
      PROVE  was[q] = p
  <2>1. was[q] \in 1..Len(s)
    BY <1>1
  <2>2. t[q].cell # s[i].cell
    BY <1>5, <1>0
  <2>3. t[q].cell = s[was[q]].cell
    BY <1>1, <2>2
  <2> QED
    BY <1>2, <1>5, <2>1, <2>3
<1>6. ASSUME NEW p1 \in 1..Len(s), NEW p2 \in 1..Len(s), NEW q1 \in 1..Len(t), NEW q2 \in 1..Len(t),
             s[p1].cell \in C, s[p2].cell \in C, p1 < p2, t[q1] = s[p1], t[q2] = s[p2]
      PROVE  q1 < q2
  <2>1. was[q1] = p1 /\ was[q2] = p2
    BY <1>5, <1>6
  <2> QED
    BY <1>1, <1>6, <2>1
<1> QED
  BY <1>4, <1>6 DEF Keeps

\* What is left is a set, without the key that was taken out and no other.
LEMMA TakenOut ==
    ASSUME NEW s, IsSet(s), NEW i \in 1..Len(s), NEW t \in OneOut(s, i)
    PROVE  IsSet(t) /\ Keys(t) = Keys(s) \ {s[i].key}
<1>0. s \in Seq(Elements) /\ Len(s) \in Nat
  BY DEF IsSet
<1>8. PICK was \in [1..Len(t) -> 1..Len(s)] : LessOne(s, t, i, was)
  BY OneLess
<1>1. /\ \A q1, q2 \in 1..Len(t) : q1 < q2 <=> was[q1] < was[q2]
      /\ \A q \in 1..Len(t) :
             /\ was[q] # i
             /\ t[q].key = s[was[q]].key
             /\ \/ t[q].cell = s[was[q]].cell
                \/ was[q] = i - 1 /\ t[q].cell = s[i].cell
      /\ \A p \in 1..Len(s) : p # i => \E q \in 1..Len(t) : was[q] = p
  BY <1>8 DEF LessOne
<1>2. \A p, q \in 1..Len(s) : s[p].cell = s[q].cell \/ s[p].key = s[q].key => p = q
  BY DEF IsSet, Distinct
<1>3. \A q1, q2 \in 1..Len(t) : was[q1] = was[q2] => q1 = q2
  <2> SUFFICES ASSUME NEW q1 \in 1..Len(t), NEW q2 \in 1..Len(t), was[q1] = was[q2] PROVE q1 = q2
    OBVIOUS
  <2>1. ~ (q1 < q2) /\ ~ (q2 < q1)
    BY <1>1
  <2> QED
    BY <2>1
<1>4. Distinct(t)
  <2> SUFFICES ASSUME NEW q1 \in 1..Len(t), NEW q2 \in 1..Len(t),
                      t[q1].cell = t[q2].cell \/ t[q1].key = t[q2].key
               PROVE  q1 = q2
    BY DEF Distinct
  <2>0. was[q1] \in 1..Len(s) /\ was[q2] \in 1..Len(s)
    OBVIOUS
  <2>1. CASE t[q1].key = t[q2].key
    BY <1>1, <1>2, <1>3, <2>0, <2>1
  <2>2. CASE t[q1].cell = t[q2].cell
    <3>1. was[q1] # i /\ was[q2] # i
      BY <1>1
    <3>2. CASE t[q1].cell = s[i].cell
      <4>0. ASSUME NEW q \in 1..Len(t), t[q].cell = s[i].cell PROVE was[q] = i - 1
        <5>1. was[q] \in 1..Len(s) /\ was[q] # i
          BY <1>1
        <5>2. t[q].cell # s[was[q]].cell
          BY <1>2, <4>0, <5>1
        <5> QED
          BY <1>1, <5>2
      <4>1. was[q1] = i - 1
        BY <3>2, <4>0
      <4>2. was[q2] = i - 1
        BY <2>2, <3>2, <4>0
      <4> QED
        BY <1>3, <4>1, <4>2
    <3>3. CASE t[q1].cell # s[i].cell
      <4>1. t[q1].cell = s[was[q1]].cell /\ t[q2].cell = s[was[q2]].cell
        BY <1>1, <2>2, <3>3
      <4> QED
        BY <1>2, <1>3, <2>0, <2>2, <4>1
    <3> QED
      BY <3>2, <3>3
  <2> QED
    BY <2>1, <2>2
<1>5. ASSUME NEW x \in Keys(t) PROVE x \in Keys(s) \ {s[i].key}
  <2>1. PICK q \in 1..Len(t) : t[q].key = x
    BY DEF Keys
  <2>2. was[q] \in 1..Len(s) /\ was[q] # i /\ s[was[q]].key = x
    BY <1>1, <2>1
  <2> QED
    BY <1>2, <2>2 DEF Keys
<1>6. ASSUME NEW x \in Keys(s) \ {s[i].key} PROVE x \in Keys(t)
  <2>1. PICK p \in 1..Len(s) : s[p].key = x
    BY DEF Keys
  <2>2. p # i
    BY <2>1
  <2>3. PICK q \in 1..Len(t) : was[q] = p
    BY <1>1, <2>2
  <2> QED
    BY <1>1, <2>1, <2>3 DEF Keys
<1> QED
  BY <1>4, <1>5, <1>6, OneLess DEF IsSet

-----------------------------------------------------------------------------
\* Loops and their cells.
Loops == [over : {"none", "nodes", "arcs"}, rest : Seq(Nat), want : Seq(Nat), seen : Seq(Nat),
          node : Nat]

\* The cells to come stand in the set in the order in which they will come.
InTurn(rest, s) ==
    \A i, j \in 1..Len(rest) : \A p, q \in 1..Len(s) :
        i < j /\ s[p].cell = rest[i] /\ s[q].cell = rest[j] => p < q

\* The loop will deliver what it began with, and comes to it in its order.
Ahead(l, s) == Delivers(l, s) /\ InTurn(l.rest, s)

\* Cells and keys of a sequence of elements are numbers.
LEMMA InElements ==
    ASSUME NEW s \in Seq(Elements), NEW i \in 1..Len(s)
    PROVE  s[i].cell \in Nat /\ s[i].key \in Nat
<1>1. s[i] \in Elements
  OBVIOUS
<1> QED
  BY <1>1 DEF Elements

\* A sequence goes on with its first element, or with the rest after it.
Joined(u, a, b) == u \o a = Append(u, a[1]) \o b

\* An element goes over from the rest of a loop to those it has delivered.
LEMMA OneOver ==
    ASSUME NEW S, NEW u \in Seq(S), NEW a \in Seq(S), NEW b \in Seq(S),
           Len(a) = Len(b) + 1, \A i \in 1..Len(b) : b[i] = a[i + 1]
    PROVE  Joined(u, a, b)
<1>1. a[1] \in S
  OBVIOUS
<1> DEFINE v == Append(u, a[1])
           left == u \o a
           right == v \o b
<1>2. v \in Seq(S) /\ Len(v) = Len(u) + 1 /\ v[Len(u) + 1] = a[1]
  BY <1>1
<1>3. \A i \in 1..Len(u) : v[i] = u[i]
  BY <1>1
<1> HIDE DEF v
<1>4. /\ left \in Seq(S) /\ Len(left) = Len(u) + Len(a)
      /\ \A i \in 1..Len(u) + Len(a) : left[i] = IF i <= Len(u) THEN u[i] ELSE a[i - Len(u)]
  BY ConcatProperties
<1>5. /\ right \in Seq(S) /\ Len(right) = Len(v) + Len(b)
      /\ \A i \in 1..Len(v) + Len(b) : right[i] = IF i <= Len(v) THEN v[i] ELSE b[i - Len(v)]
  BY <1>2, ConcatProperties
<1> HIDE DEF left, right
<1>6. Len(left) = Len(right)
  BY <1>2, <1>4, <1>5
<1>7. ASSUME NEW i \in 1..Len(left)
      PROVE  left[i] = right[i]
  <2>1. CASE i <= Len(u)
    BY <2>1, <1>2, <1>3, <1>4, <1>5
  <2>2. CASE i = Len(u) + 1
    BY <2>2, <1>2, <1>4, <1>5
  <2>3. CASE i > Len(u) + 1
    <3>1. i - Len(v) \in 1..Len(b) /\ i - Len(u) = (i - Len(v)) + 1
      BY <2>3, <1>2, <1>4
    <3>2. left[i] = a[i - Len(u)]
      BY <2>3, <1>4
    <3>3. right[i] = b[i - Len(v)]
      BY <2>3, <1>2, <1>4, <1>5
    <3> QED
      BY <3>1, <3>2, <3>3
  <2> QED
    BY <1>4, <2>1, <2>2, <2>3
<1>8. left = right
  BY <1>4, <1>5, <1>6, <1>7, SeqEqual
<1> QED
  BY <1>8 DEF left, right, v, Joined

\* stepForEach reads the key of the cell it comes to.
LEMMA KeyAtPlace ==
    ASSUME NEW s, IsTree(s), NEW p \in 1..Len(s)
    PROVE  s[p].cell \in Cells(s) /\ KeyAt(s, s[p].cell) = s[p].key
<1>1. \A q \in 1..Len(s) : s[p].cell = s[q].cell => p = q
  BY DEF IsTree
<1>2. s[p].cell \in Cells(s)
  BY DEF Cells
<1>3. (CHOOSE q \in 1..Len(s) : s[q].cell = s[p].cell) = p
  BY <1>1
<1> QED
  BY <1>2, <1>3 DEF KeyAt

\* It reads the same key after a change of the set that keeps the cell.
LEMMA KeyAtKept ==
    ASSUME NEW s, IsTree(s), NEW t, IsTree(t), NEW C, Keeps(s, t, C), NEW c \in C, c \in Cells(s)
    PROVE  c \in Cells(t) /\ KeyAt(t, c) = KeyAt(s, c)
<1>1. PICK p \in 1..Len(s) : s[p].cell = c
  BY DEF Cells
<1>2. PICK q \in 1..Len(t) : t[q] = s[p]
  BY <1>1 DEF Keeps
<1> QED
  BY <1>1, <1>2, KeyAtPlace

\* A loop is not disturbed by a change that keeps the cells it has yet to come to.
LEMMA StaysAhead ==
    ASSUME NEW s, IsTree(s), NEW t, IsTree(t), NEW l \in Loops,
           Keeps(s, t, ToSet(l.rest)), Ahead(l, s)
    PROVE  Ahead(l, t)
<1> DEFINE r == l.rest
<1>0. r \in Seq(Nat)
  BY DEF Loops
<1>1. \A i \in 1..Len(r) : r[i] \in ToSet(r)
  BY <1>0 DEF ToSet
<1>2. \A i \in 1..Len(r) : r[i] \in Cells(s)
  BY DEF Ahead, Delivers
<1>3. \A i \in 1..Len(r) : r[i] \in Cells(t) /\ KeyAt(t, r[i]) = KeyAt(s, r[i])
  BY <1>1, <1>2, KeyAtKept
<1>4. Delivers(l, t)
  <2>1. [i \in 1..Len(r) |-> KeyAt(t, r[i])] = [i \in 1..Len(r) |-> KeyAt(s, r[i])]
    BY <1>3
  <2> QED
    BY <1>3, <2>1 DEF Ahead, Delivers
<1>5. InTurn(r, t)
  <2> SUFFICES ASSUME NEW i \in 1..Len(r), NEW j \in 1..Len(r), i < j,
                      NEW q1 \in 1..Len(t), NEW q2 \in 1..Len(t),
                      t[q1].cell = r[i], t[q2].cell = r[j]
               PROVE  q1 < q2
    BY DEF InTurn
  <2>1. ASSUME NEW h \in 1..Len(r), NEW q \in 1..Len(t), t[q].cell = r[h]
        PROVE  \E p \in 1..Len(s) : s[p].cell = r[h] /\ t[q] = s[p]
    <3>1. PICK p \in 1..Len(s) : s[p].cell = r[h]
      BY <1>2 DEF Cells
    <3>2. PICK q0 \in 1..Len(t) : t[q0] = s[p]
      BY <1>1, <3>1 DEF Keeps
    <3>3. q0 = q
      BY <2>1, <3>1, <3>2 DEF IsTree
    <3> QED
      BY <3>1, <3>2, <3>3
  <2>2. PICK p1 \in 1..Len(s) : s[p1].cell = r[i] /\ t[q1] = s[p1]
    BY <2>1
  <2>3. PICK p2 \in 1..Len(s) : s[p2].cell = r[j] /\ t[q2] = s[p2]
    BY <2>1
  <2>4. p1 < p2
    BY <2>2, <2>3 DEF Ahead, InTurn
  <2> QED
    BY <1>1, <2>2, <2>3, <2>4 DEF Keeps
<1> QED
  BY <1>4, <1>5 DEF Ahead

\* A loop begins with all cells of the set ahead.
LEMMA BeginsAhead ==
    ASSUME NEW s, IsTree(s), NEW c \in {"nodes", "arcs"}, NEW n \in Nat
    PROVE  LoopOver(c, s, n) \in Loops /\ Ahead(LoopOver(c, s, n), s)
<1> DEFINE l == LoopOver(c, s, n)
<1>0. s \in Seq(Elements) /\ Len(s) \in Nat
  BY DEF IsTree
<1>1. \A i \in 1..Len(s) : s[i].cell \in Nat /\ s[i].key \in Nat
  BY <1>0, InElements
<1>2. /\ CellSeq(s) \in Seq(Nat) /\ Len(CellSeq(s)) = Len(s)
      /\ \A i \in 1..Len(s) : CellSeq(s)[i] = s[i].cell
  BY <1>0, <1>1 DEF CellSeq
<1>3. /\ KeySeq(s) \in Seq(Nat) /\ Len(KeySeq(s)) = Len(s)
      /\ \A i \in 1..Len(s) : KeySeq(s)[i] = s[i].key
  BY <1>0, <1>1 DEF KeySeq
<1>4. /\ l.over = c /\ l.rest = CellSeq(s) /\ l.want = KeySeq(s) /\ l.seen = <<>> /\ l.node = n
      /\ l \in Loops
  BY <1>2, <1>3 DEF LoopOver, Loops
<1> HIDE DEF l
<1>5. Delivers(l, s)
  <2>1. \A i \in 1..Len(l.rest) : l.rest[i] \in Cells(s) /\ KeyAt(s, l.rest[i]) = s[i].key
    BY <1>2, <1>4, KeyAtPlace
  <2>2. [i \in 1..Len(l.rest) |-> KeyAt(s, l.rest[i])] = KeySeq(s)
    BY <1>2, <1>4, <2>1 DEF KeySeq
  <2>3. KeySeq(s) = <<>> \o KeySeq(s)
    BY <1>3
  <2> QED
    BY <1>4, <2>1, <2>2, <2>3 DEF Delivers
<1>6. InTurn(l.rest, s)
  <2>1. \A p, q \in 1..Len(s) : s[p].cell = s[q].cell => p = q
    BY DEF IsTree
  <2> SUFFICES ASSUME NEW i \in 1..Len(l.rest), NEW j \in 1..Len(l.rest), i < j,
                      NEW p \in 1..Len(s), NEW q \in 1..Len(s),
                      s[p].cell = l.rest[i], s[q].cell = l.rest[j]
               PROVE  p < q
    BY DEF InTurn
  <2>2. i \in 1..Len(s) /\ j \in 1..Len(s) /\ s[p].cell = s[i].cell /\ s[q].cell = s[j].cell
    BY <1>2, <1>4
  <2>3. p = i /\ q = j
    BY <2>1, <2>2
  <2> QED
    BY <2>3
<1> QED
  BY <1>4, <1>5, <1>6 DEF Ahead, l

\* The cell a loop comes to is in the set, and none at or before it is still ahead.
LEMMA Heads ==
    ASSUME NEW l \in Loops, NEW s, IsTree(s), Ahead(l, s), l.rest # <<>>
    PROVE  /\ Head(l.rest) \in Cells(s)
           /\ \A p \in 1..Len(s) : s[p].cell = Head(l.rest) =>
                  \A q \in 1..p : s[q].cell \notin ToSet(Tail(l.rest))
<1>0. l.rest \in Seq(Nat) /\ Len(l.rest) >= 1 /\ Head(l.rest) = l.rest[1]
  BY DEF Loops
<1>1. Head(l.rest) \in Cells(s)
  BY <1>0 DEF Ahead, Delivers
<1>2. ASSUME NEW p \in 1..Len(s), s[p].cell = Head(l.rest), NEW q \in 1..p,
             s[q].cell \in ToSet(Tail(l.rest))
      PROVE  FALSE
  <2>1. /\ Tail(l.rest) \in Seq(Nat) /\ Len(Tail(l.rest)) = Len(l.rest) - 1
        /\ \A i \in 1..Len(l.rest) - 1 : Tail(l.rest)[i] = l.rest[i + 1]
    BY <1>0
  <2>2. PICK i \in 1..Len(l.rest) - 1 : s[q].cell = l.rest[i + 1]
    <3>1. DOMAIN Tail(l.rest) = 1..Len(l.rest) - 1
      BY <2>1
    <3>2. PICK i \in DOMAIN Tail(l.rest) : s[q].cell = Tail(l.rest)[i]
      BY <1>2 DEF ToSet
    <3> QED
      BY <2>1, <3>1, <3>2
  <2>3. 1 \in 1..Len(l.rest) /\ i + 1 \in 1..Len(l.rest) /\ 1 < i + 1
    BY <1>0
  <2>4. q \in 1..Len(s) /\ ~ (p < q)
    OBVIOUS
  <2>5. s[p].cell = l.rest[1]
    BY <1>0, <1>2
  <2> QED
    BY <2>2, <2>3, <2>4, <2>5 DEF Ahead, InTurn
<1> QED
  BY <1>1, <1>2

\* A step of a loop delivers the key of its cell.
LEMMA GoesAhead ==
    ASSUME NEW l \in Loops, NEW s, IsTree(s), Ahead(l, s), l.rest # <<>>
    PROVE  LET m == Advanced(l, KeyAt(s, Head(l.rest)))
           IN  m \in Loops /\ m.over = l.over /\ m.node = l.node /\ m.rest = Tail(l.rest)
               /\ Ahead(m, s)
<1> DEFINE k == KeyAt(s, Head(l.rest))
           m == Advanced(l, k)
<1>0. /\ l.rest \in Seq(Nat) /\ Len(l.rest) >= 1 /\ Head(l.rest) = l.rest[1]
      /\ l.seen \in Seq(Nat) /\ l.want \in Seq(Nat)
  BY DEF Loops
<1>1. s \in Seq(Elements)
  BY DEF IsTree
<1>2. \A i \in 1..Len(l.rest) : l.rest[i] \in Cells(s) /\ KeyAt(s, l.rest[i]) \in Nat
  <2> SUFFICES ASSUME NEW i \in 1..Len(l.rest)
               PROVE  l.rest[i] \in Cells(s) /\ KeyAt(s, l.rest[i]) \in Nat
    OBVIOUS
  <2>1. l.rest[i] \in Cells(s)
    BY DEF Ahead, Delivers
  <2>2. PICK p \in 1..Len(s) : s[p].cell = l.rest[i]
    BY <2>1 DEF Cells
  <2>3. KeyAt(s, l.rest[i]) = s[p].key
    BY <2>2, KeyAtPlace
  <2> QED
    BY <1>1, <2>1, <2>3, InElements
<1>3. k \in Nat
  BY <1>0, <1>2
<1> HIDE DEF k
<1>4. /\ m \in Loops /\ m.over = l.over /\ m.node = l.node /\ m.rest = Tail(l.rest)
      /\ m.seen = Append(l.seen, k) /\ m.want = l.want
  <2>1. Tail(l.rest) \in Seq(Nat) /\ Append(l.seen, k) \in Seq(Nat)
    BY <1>0, <1>3
  <2> QED
    BY <2>1 DEF Advanced, Loops
<1> HIDE DEF m
<1>5. /\ m.rest \in Seq(Nat) /\ Len(m.rest) = Len(l.rest) - 1
      /\ \A i \in 1..Len(l.rest) - 1 : m.rest[i] = l.rest[i + 1]
  BY <1>0, <1>4
<1> DEFINE a == [i \in 1..Len(l.rest) |-> KeyAt(s, l.rest[i])]
           b == [i \in 1..Len(m.rest) |-> KeyAt(s, m.rest[i])]
<1>6. /\ a \in Seq(Nat) /\ Len(a) = Len(l.rest)
      /\ \A i \in 1..Len(l.rest) : a[i] = KeyAt(s, l.rest[i])
  BY <1>0, <1>2
<1>7. \A i \in 1..Len(m.rest) : m.rest[i] \in Cells(s) /\ KeyAt(s, m.rest[i]) \in Nat
  <2> SUFFICES ASSUME NEW i \in 1..Len(m.rest)
               PROVE  m.rest[i] \in Cells(s) /\ KeyAt(s, m.rest[i]) \in Nat
    OBVIOUS
  <2>1. i + 1 \in 1..Len(l.rest) /\ m.rest[i] = l.rest[i + 1]
    BY <1>0, <1>5
  <2> QED
    BY <1>2, <2>1
<1>8. /\ b \in Seq(Nat) /\ Len(b) = Len(l.rest) - 1
      /\ \A i \in 1..Len(l.rest) - 1 : b[i] = KeyAt(s, l.rest[i + 1])
  BY <1>0, <1>5, <1>7
<1>9. a[1] = k
  BY <1>0, <1>6 DEF k
<1>d. l.want = l.seen \o a
  BY DEF Ahead, Delivers
<1> HIDE DEF a, b
<1>a. \A i \in 1..Len(b) : b[i] = a[i + 1]
  BY <1>0, <1>6, <1>8
<1>b. l.seen \o a = Append(l.seen, k) \o b
  <2>1. Len(a) = Len(b) + 1
    BY <1>0, <1>6, <1>8
  <2>2. l.seen \o a = Append(l.seen, a[1]) \o b
    <3>1. l.seen \in Seq(Nat) /\ a \in Seq(Nat) /\ b \in Seq(Nat)
      BY <1>0, <1>6, <1>8
    <3>2. Joined(l.seen, a, b)
      BY ONLY <1>a, <2>1, <3>1, OneOver
    <3> QED
      BY <3>2 DEF Joined
  <2> QED
    BY <1>9, <2>2
<1>c. InTurn(m.rest, s)
  <2> SUFFICES ASSUME NEW i \in 1..Len(m.rest), NEW j \in 1..Len(m.rest), i < j,
                      NEW p \in 1..Len(s), NEW q \in 1..Len(s),
                      s[p].cell = m.rest[i], s[q].cell = m.rest[j]
               PROVE  p < q
    BY DEF InTurn
  <2>1. i + 1 \in 1..Len(l.rest) /\ j + 1 \in 1..Len(l.rest) /\ i + 1 < j + 1
    BY <1>0, <1>5
  <2>2. s[p].cell = l.rest[i + 1] /\ s[q].cell = l.rest[j + 1]
    BY <1>5
  <2> QED
    BY <2>1, <2>2 DEF Ahead, InTurn
<1>e. Delivers(m, s)
  BY <1>4, <1>7, <1>b, <1>d DEF Delivers, b
<1> QED
  BY <1>4, <1>c, <1>e DEF Ahead, m, k

-----------------------------------------------------------------------------
\* Blocks of nodes and of arcs.
NodeBlocks == [name : Names, arcs : Seq(Elements), cmpFn : {"default", "cost"}]
ArcBlocks == [start : 1..MaxNodes, end : 1..MaxNodes, cost : Costs \cup {0}]

\* What may come of a search in an ordered set, whatever the comparison.
PutIn(t, s, k) == \E j \in 0..Len(s) : t = InsertAt(s, j + 1, Entry(FreshCell(s), k))

\* addSet leaves the set or puts the element in; removeSet leaves it or takes one
\* element out: for nodes and for arcs, whatever the comparison function.
LEMMA NodesWithEither ==
    ASSUME NEW s, NEW n, NEW fn, NEW ns, NEW t \in NodesWith(s, n, fn, ns)
    PROVE  t = s \/ PutIn(t, s, n)
  BY DEF NodesWith, Added, Gaps, PutIn

\* The same for arcs.
LEMMA ArcsWithEither ==
    ASSUME NEW s, NEW a, NEW fn, NEW ns, NEW ar, NEW t \in ArcsWith(s, a, fn, ns, ar)
    PROVE  t = s \/ PutIn(t, s, a)
  BY DEF ArcsWith, Added, Gaps, PutIn

-----------------------------------------------------------------------------
\* A set of numbers that is not empty has a least one.
LEMMA LeastIn ==
    ASSUME NEW S \in SUBSET Nat, S # {}
    PROVE  Min(S) \in S /\ \A y \in S : Min(S) <= y
<1> DEFINE Below == {0..x : x \in S}
<1>1. IsWellFoundedOn(StrictSubsetOrdering(Nat), FiniteSubsetsOf(Nat))
  BY FS_StrictSubsetOrderingWellFounded
<1>2. Below \subseteq FiniteSubsetsOf(Nat)
  <2> SUFFICES ASSUME NEW x \in S PROVE 0..x \in FiniteSubsetsOf(Nat)
    OBVIOUS
  <2>1. x \in Int /\ 0 \in Int /\ 0..x \subseteq Nat
    OBVIOUS
  <2>2. IsFiniteSet(0..x)
    BY <2>1, FS_Interval
  <2> QED
    BY <2>1, <2>2 DEF FiniteSubsetsOf
<1>0. Below # {}
  OBVIOUS
<1> HIDE DEF Below
<1>3. PICK m \in Below : \A b \in Below : ~ (<<b, m>> \in StrictSubsetOrdering(Nat))
  BY <1>0, <1>1, <1>2, WFMin
<1> USE DEF Below
<1>4. PICK x \in S : m = 0..x
  BY <1>3
<1>5. ASSUME NEW y \in S, y < x PROVE FALSE
  <2>1. 0..y \subseteq 0..x /\ x \in 0..x /\ x \notin 0..y
    BY <1>5
  <2>2. <<0..y, 0..x>> \in StrictSubsetOrdering(Nat)
    BY <2>1 DEF StrictSubsetOrdering
  <2> QED
    BY <2>2, <1>3, <1>4
<1>6. \A y \in S : x <= y
  BY <1>5
<1> QED
  BY <1>6 DEF Min

\* What a removal may leave of a set in any order: keys moved, one node taken out.
LooseOut(t, s) ==
    \E moved \in SUBSET (2..Len(s)) :
        t = Move(s, moved) \/ \E i \in 1..Len(s) : t = RemoveAt(Move(s, moved), i)

\* No cell is in it twice, and no key comes into it.
LEMMA LooseTree ==
    ASSUME NEW s, IsTree(s), NEW t, LooseOut(t, s)
    PROVE  IsTree(t) /\ Keys(t) \subseteq Keys(s)
<1>0. s \in Seq(Elements) /\ Len(s) \in Nat /\ \A p, q \in 1..Len(s) : s[p].cell = s[q].cell => p = q
  BY DEF IsTree
<1>1. PICK moved \in SUBSET (2..Len(s)) :
          t = Move(s, moved) \/ \E i \in 1..Len(s) : t = RemoveAt(Move(s, moved), i)
  BY DEF LooseOut
<1>2. PICK u : u = Move(s, moved)
  OBVIOUS
<1>3. /\ u \in Seq(Elements) /\ Len(u) = Len(s)
      /\ \A p \in 1..Len(s) : /\ u[p].cell = s[p].cell
                              /\ u[p].key = IF p \in moved THEN s[p - 1].key ELSE s[p].key
  BY <1>0, <1>2, MoveElements
<1>4. ASSUME NEW p \in 1..Len(s) PROVE u[p].key \in Keys(s)
  <2>1. CASE p \in moved
    <3>1. p - 1 \in 1..Len(s) /\ u[p].key = s[p - 1].key
      BY <1>0, <1>3, <2>1
    <3> QED
      BY <3>1 DEF Keys
  <2>2. CASE p \notin moved
    BY <1>3, <2>2 DEF Keys
  <2> QED
    BY <2>1, <2>2
<1>5. CASE t = u
  BY <1>0, <1>3, <1>4, <1>5 DEF IsTree, Keys
<1>6. ASSUME NEW i \in 1..Len(s), t = RemoveAt(u, i) PROVE IsTree(t) /\ Keys(t) \subseteq Keys(s)
  <2>1. /\ t \in Seq(Elements) /\ Len(t) = Len(s) - 1
        /\ \A p \in 1..Len(s) - 1 : t[p] = IF p < i THEN u[p] ELSE u[p + 1]
    <3>1. i \in 1..Len(u)
      BY <1>3
    <3>2. /\ RemoveAt(u, i) \in Seq(Elements) /\ Len(RemoveAt(u, i)) = Len(u) - 1
          /\ \A p \in 1..Len(u) - 1 : RemoveAt(u, i)[p] = IF p < i THEN u[p] ELSE u[p + 1]
      BY <1>3, <3>1, RemoveAtElements
    <3> QED
      BY <1>3, <1>6, <3>2
  <2>2. \A p \in 1..Len(t) : t[p].key \in Keys(s)
    BY <1>0, <1>4, <2>1
  <2>3. ASSUME NEW p \in 1..Len(t), NEW q \in 1..Len(t), t[p].cell = t[q].cell PROVE p = q
    <3> DEFINE x == IF p < i THEN p ELSE p + 1
               y == IF q < i THEN q ELSE q + 1
    <3>1. x \in 1..Len(s) /\ y \in 1..Len(s)
      BY <1>0, <2>1
    <3>2. t[p] = u[x] /\ t[q] = u[y]
      BY <2>1
    <3>3. s[x].cell = s[y].cell
      BY <1>3, <2>3, <3>1, <3>2
    <3>4. x = y
      BY <1>0, <3>1, <3>3
    <3> QED
      BY <2>1, <3>4
  <2> QED
    BY <2>1, <2>2, <2>3 DEF IsTree, Keys
<1> QED
  BY <1>1, <1>2, <1>5, <1>6

\* The places that a removal comes to, when it finds each time the node before.
Runs(i, places) == i \in places /\ \A p \in places \ {i} : p + 1 \in places

\* What a removal by places gives.
TakenAt(s, places) == RemoveAt(Move(s, places \ {Min(places)}), Min(places))

\* It is one of the loose ones.
LEMMA TakenLoose ==
    ASSUME NEW s \in Seq(Elements), NEW i \in 1..Len(s), NEW places \in SUBSET (1..i), i \in places
    PROVE  /\ TwoChildren(s, places \ {Min(places)}, places) => LooseOut(TakenAt(s, places), s)
           /\ TwoChildren(s, places, places) => LooseOut(Move(s, places), s)
<1>0. Len(s) \in Nat
  OBVIOUS
<1>1. places \in SUBSET Nat /\ places # {}
  BY <1>0
<1>2. Min(places) \in places
  BY <1>1, LeastIn
<1>3. Min(places) \in 1..Len(s)
  <2>1. places \subseteq 1..Len(s)
    BY <1>0
  <2> QED
    BY <1>2, <2>1
<1>4. ASSUME NEW moved \in SUBSET places, TwoChildren(s, moved, places)
      PROVE  moved \in SUBSET (2..Len(s))
  BY <1>0, <1>4 DEF TwoChildren
<1> QED
  BY <1>3, <1>4 DEF LooseOut, TakenAt

\* A removal that comes from each place to the node before it takes that element out.
LEMMA OnlyPrevious ==
    ASSUME NEW s \in Seq(Elements), NEW i \in 1..Len(s), NEW places \in SUBSET (1..i),
           Runs(i, places)
    PROVE  /\ TwoChildren(s, places \ {Min(places)}, places) => TakenAt(s, places) \in OneOut(s, i)
           /\ TwoChildren(s, places, places) => Min(places) = i
<1>0. Len(s) \in Nat
  OBVIOUS
<1>1. places \in SUBSET Nat /\ i \in places
  BY <1>0 DEF Runs
<1>2. PICK m : m = Min(places)
  OBVIOUS
<1>3. m \in places /\ \A y \in places : m <= y
  BY <1>1, <1>2, LeastIn
<1>4. ASSUME TwoChildren(s, places, places) PROVE m = i
  <2>1. \A p \in places : p + 1 \notin places
    BY <1>4 DEF TwoChildren
  <2> QED
    BY <1>3, <2>1 DEF Runs
<1>5. ASSUME TwoChildren(s, places \ {m}, places) PROVE TakenAt(s, places) \in OneOut(s, i)
  <2>1. \A p \in places \ {m} : p > 1 /\ p < Len(s) /\ p + 1 \notin places
    BY <1>5 DEF TwoChildren
  <2>2. CASE m = i
    <3>1. places \ {m} = {}
      BY <1>1, <1>3, <2>2
    <3>2. TakenAt(s, places) = RemoveAt(Move(s, {}), i)
      BY <1>2, <2>2, <3>1 DEF TakenAt
    <3>3. Move(s, {}) = s
      <4>1. Move(s, {}) = [p \in 1..Len(s) |-> s[p]]
        BY DEF Move
      <4> QED
        BY <4>1
    <3> QED
      BY <3>2, <3>3 DEF OneOut
  <2>3. CASE m # i
    <3>1. m + 1 \in places
      BY <1>3, <2>3 DEF Runs
    <3>2. \A p \in places : p = m \/ p = i
      BY <2>1 DEF Runs
    <3>3. m + 1 = i
      BY <1>1, <1>3, <3>1, <3>2
    <3>6. places \ {m} = {i}
      BY <1>1, <2>3, <3>2
    <3>7. i > 1 /\ i < Len(s)
      BY <1>1, <2>1, <2>3
    <3>8. m \in Nat
      BY <1>1, <1>3
    <3>4. places \ {m} = {i} /\ m = i - 1 /\ i > 1 /\ i < Len(s)
      BY <3>3, <3>6, <3>7, <3>8
    <3>5. TakenAt(s, places) = RemoveAt(Move(s, {i}), i - 1)
      BY <1>2, <3>4 DEF TakenAt
    <3> QED
      BY <3>4, <3>5 DEF OneOut
  <2> QED
    BY <2>2, <2>3
<1> QED
  BY <1>2, <1>4, <1>5

\* removeSet of a node leaves the set or takes one element out.
LEMMA NodesWithoutEither ==
    ASSUME NEW s \in Seq(Elements), NEW n, NEW fn, NEW ns, NEW t \in NodesWithout(s, n, fn, ns)
    PROVE  t = s \/ LooseOut(t, s)
<1> SUFFICES ASSUME t # s PROVE LooseOut(t, s)
  OBVIOUS
<1>1. PICK i \in 1..Len(s) : t \in Unlinked(s, i, LAMBDA n1, n2 : nodeOrdering(fn, ns, n1, n2))
  BY DEF NodesWithout, Removed, Hits
<1>2. PICK places \in SUBSET (1..i) :
          /\ i \in places
          /\ \/ TwoChildren(s, places \ {Min(places)}, places) /\ t = TakenAt(s, places)
             \/ TwoChildren(s, places, places) /\ t = Move(s, places)
  BY <1>1 DEF Unlinked, Descends, TakenAt
<1> QED
  BY <1>2, TakenLoose

\* The same for arcs.
LEMMA ArcsWithoutEither ==
    ASSUME NEW s \in Seq(Elements), NEW a, NEW fn, NEW ns, NEW ar,
           NEW t \in ArcsWithout(s, a, fn, ns, ar)
    PROVE  t = s \/ LooseOut(t, s)
<1> SUFFICES ASSUME t # s PROVE LooseOut(t, s)
  OBVIOUS
<1>1. PICK i \in 1..Len(s) : t \in Unlinked(s, i, LAMBDA a1, a2 : arcOrdering(fn, ns, ar, a1, a2))
  BY DEF ArcsWithout, Removed, Hits
<1>2. PICK places \in SUBSET (1..i) :
          /\ i \in places
          /\ \/ TwoChildren(s, places \ {Min(places)}, places) /\ t = TakenAt(s, places)
             \/ TwoChildren(s, places, places) /\ t = Move(s, places)
  BY <1>1 DEF Unlinked, Descends, TakenAt
<1> QED
  BY <1>2, TakenLoose

\* A node or an arc that compares different from all others is put in.
LEMMA NewNodePutIn ==
    ASSUME NEW s, NEW n, NEW fn, NEW ns, NEW t \in NodesWith(s, n, fn, ns),
           \A m \in Keys(s) : nodeOrdering(fn, ns, n, m) # 0
    PROVE  PutIn(t, s, n)
<1>1. \A i \in 1..Len(s) : nodeOrdering(fn, ns, n, s[i].key) # 0
  BY DEF Keys
<1> QED
  BY <1>1 DEF NodesWith, Added, Hits, Gaps, PutIn

\* The same for arcs.
LEMMA NewArcPutIn ==
    ASSUME NEW s, NEW a, NEW fn, NEW ns, NEW ar, NEW t \in ArcsWith(s, a, fn, ns, ar),
           \A b \in Keys(s) : arcOrdering(fn, ns, ar, a, b) # 0
    PROVE  PutIn(t, s, a)
<1>1. \A i \in 1..Len(s) : arcOrdering(fn, ns, ar, a, s[i].key) # 0
  BY DEF Keys
<1> QED
  BY <1>1 DEF ArcsWith, Added, Hits, Gaps, PutIn

\* Comparison functions are antisymmetric and find equal what is the same.
LEMMA SignFacts ==
    ASSUME NEW a \in Int, NEW b \in Int
    PROVE  /\ Sign(a, b) \in Int /\ Sign(b, a) \in Int
           /\ Sign(a, b) < 0 <=> Sign(b, a) > 0
           /\ Sign(a, b) = 0 <=> Sign(b, a) = 0
           /\ Sign(a, b) = 0 <=> a = b
  BY DEF Sign

\* Nodes compare equal when they have the same name.
LEMMA NodeOrderFacts ==
    ASSUME NEW fn, NEW ns, NEW m, NEW n, ns[m].name \in Int, ns[n].name \in Int
    PROVE  /\ nodeOrdering(fn, ns, m, n) \in Int
           /\ nodeOrdering(fn, ns, m, n) < 0 <=> nodeOrdering(fn, ns, n, m) > 0
           /\ nodeOrdering(fn, ns, m, n) = 0 <=> ns[m].name = ns[n].name
  BY SignFacts DEF nodeOrdering

\* Arcs compare equal only when they are the same arc.
LEMMA ArcOrderFacts ==
    ASSUME NEW fn, NEW ns, NEW ar, NEW a \in Int, NEW b \in Int,
           ar[a].cost \in Int, ar[b].cost \in Int,
           ns[ar[a].start].name \in Int, ns[ar[b].start].name \in Int,
           ns[ar[a].end].name \in Int, ns[ar[b].end].name \in Int
    PROVE  /\ arcOrdering(fn, ns, ar, a, b) \in Int
           /\ arcOrdering(fn, ns, ar, a, b) < 0 <=> arcOrdering(fn, ns, ar, b, a) > 0
           /\ arcOrdering(fn, ns, ar, a, a) = 0
<1> DEFINE s1 == ns[ar[a].start].name  s2 == ns[ar[b].start].name
           e1 == ns[ar[a].end].name    e2 == ns[ar[b].end].name
           c1 == ar[a].cost            c2 == ar[b].cost
<1>1. s1 \in Int /\ s2 \in Int /\ e1 \in Int /\ e2 \in Int /\ c1 \in Int /\ c2 \in Int
  OBVIOUS
<1> DEFINE ab == IF fn = "default"
                 THEN IF Sign(s1, s2) # 0 THEN Sign(s1, s2)
                      ELSE IF Sign(e1, e2) # 0 THEN Sign(e1, e2)
                      ELSE IF Sign(c1, c2) # 0 THEN Sign(c1, c2) ELSE Sign(a, b)
                 ELSE Sign(c1, c2)
           ba == IF fn = "default"
                 THEN IF Sign(s2, s1) # 0 THEN Sign(s2, s1)
                      ELSE IF Sign(e2, e1) # 0 THEN Sign(e2, e1)
                      ELSE IF Sign(c2, c1) # 0 THEN Sign(c2, c1) ELSE Sign(b, a)
                 ELSE Sign(c2, c1)
           aa == IF fn = "default"
                 THEN IF Sign(s1, s1) # 0 THEN Sign(s1, s1)
                      ELSE IF Sign(e1, e1) # 0 THEN Sign(e1, e1)
                      ELSE IF Sign(c1, c1) # 0 THEN Sign(c1, c1) ELSE Sign(a, a)
                 ELSE Sign(c1, c1)
<1>2. /\ arcOrdering(fn, ns, ar, a, b) = ab
      /\ arcOrdering(fn, ns, ar, b, a) = ba
      /\ arcOrdering(fn, ns, ar, a, a) = aa
  BY DEF arcOrdering, defaultArcOrdering
<1> HIDE DEF s1, s2, e1, e2, c1, c2
<1>3. ab \in Int /\ (ab < 0 <=> ba > 0) /\ aa = 0
  BY <1>1, SignFacts
<1> HIDE DEF ab, ba, aa
<1> QED
  BY <1>2, <1>3

\* What a removal of the node at i may leave.
NodesUnlinked(s, i, fn, ns) == Unlinked(s, i, LAMBDA n1, n2 : nodeOrdering(fn, ns, n1, n2))

\* In a set of nodes in its order, each search for a node before finds it.
LEMMA NodesUnlinkedOne ==
    ASSUME NEW s \in Seq(Elements), NEW fn, NEW ns, \A p \in 1..Len(s) : ns[s[p].key].name \in Int, NodesOrdered(s, fn, ns),
           NEW i \in 1..Len(s), NEW t \in NodesUnlinked(s, i, fn, ns)
    PROVE  t \in OneOut(s, i)
<1>0. Len(s) \in Nat
  OBVIOUS
<1>1. \A p, q \in 1..Len(s) : p < q => nodeOrdering(fn, ns, s[p].key, s[q].key) < 0
  BY DEF NodesOrdered, Ordered
<1>9. ASSUME NEW p \in 1..Len(s), NEW q \in 1..Len(s)
      PROVE  /\ nodeOrdering(fn, ns, s[q].key, s[p].key) \in Int
             /\ nodeOrdering(fn, ns, s[p].key, s[q].key) < 0
                => nodeOrdering(fn, ns, s[q].key, s[p].key) > 0
             /\ nodeOrdering(fn, ns, s[p].key, s[p].key) = 0
  BY NodeOrderFacts
<1>2. \A p, r \in 1..Len(s) : nodeOrdering(fn, ns, s[r].key, s[p].key) = 0 => ~ (p < r)
  <2> SUFFICES ASSUME NEW p \in 1..Len(s), NEW r \in 1..Len(s), p < r,
                      nodeOrdering(fn, ns, s[r].key, s[p].key) = 0
               PROVE  FALSE
    OBVIOUS
  <2>1. nodeOrdering(fn, ns, s[p].key, s[r].key) < 0
    BY <1>1
  <2>2. nodeOrdering(fn, ns, s[r].key, s[p].key) > 0
    BY <1>9, <2>1
  <2> QED
    BY <2>2
<1>3. /\ \A q, r \in 1..Len(s) : nodeOrdering(fn, ns, s[r].key, s[q].key) < 0 => ~ (q < r)
      /\ \A q \in 1..Len(s) : ~ (nodeOrdering(fn, ns, s[q].key, s[q].key) < 0)
  BY <1>1, <1>9
<1>4. PICK places \in SUBSET (1..i) :
          /\ i \in places
          /\ \A p \in places \ {i} : \E q \in places :
                 p < q /\ nodeOrdering(fn, ns, s[q - 1].key, s[p].key) = 0
          /\ \/ TwoChildren(s, places \ {Min(places)}, places) /\ t = TakenAt(s, places)
             \/ /\ TwoChildren(s, places, places)
                /\ \E q \in 1..Min(places) - 1 :
                       nodeOrdering(fn, ns, s[Min(places) - 1].key, s[q].key) < 0
  BY DEF NodesUnlinked, Unlinked, Descends, TakenAt, Misses
<1>5. Runs(i, places)
  <2> SUFFICES ASSUME NEW p \in places \ {i} PROVE p + 1 \in places
    BY <1>4 DEF Runs
  <2>1. PICK q \in places : p < q /\ nodeOrdering(fn, ns, s[q - 1].key, s[p].key) = 0
    BY <1>4
  <2>0. p \in 1..i /\ q \in 1..i /\ i \in Nat /\ i <= Len(s)
    <3>1. p \in places /\ q \in places /\ places \subseteq 1..i
      OBVIOUS
    <3>2. p \in 1..i /\ q \in 1..i
      BY <3>1
    <3>3. i \in Nat /\ i <= Len(s)
      BY <1>0
    <3> QED
      BY <3>2, <3>3
  <2>2. p \in 1..Len(s) /\ q - 1 \in 1..Len(s) /\ q \in Nat /\ p \in Nat
    BY <1>0, <2>0, <2>1
  <2>3. ~ (p < q - 1)
    <3> DEFINE r == q - 1
    <3>1. r \in 1..Len(s) /\ nodeOrdering(fn, ns, s[r].key, s[p].key) = 0
      BY <2>1, <2>2
    <3> HIDE DEF r
    <3>2. ~ (p < r)
      BY <1>2, <2>2, <3>1
    <3> QED
      BY <3>2 DEF r
  <2>4. q = p + 1
    BY <2>1, <2>2, <2>3
  <2> QED
    BY <2>4
<1>6. /\ TwoChildren(s, places \ {Min(places)}, places) => TakenAt(s, places) \in OneOut(s, i)
      /\ TwoChildren(s, places, places) => Min(places) = i
  BY <1>5, OnlyPrevious
<1>7. ASSUME TwoChildren(s, places, places), NEW q \in 1..Min(places) - 1,
             nodeOrdering(fn, ns, s[Min(places) - 1].key, s[q].key) < 0
      PROVE  FALSE
  <2> DEFINE r == i - 1
  <2>1. r \in 1..Len(s) /\ q \in 1..Len(s) /\ q <= r
    BY <1>0, <1>6, <1>7
  <2>2. nodeOrdering(fn, ns, s[r].key, s[q].key) < 0
    BY <1>6, <1>7
  <2> HIDE DEF r
  <2>3. q \in Nat /\ r \in Nat
    BY <1>0, <2>1
  <2>4. CASE q < r
    BY <1>3, <2>1, <2>2, <2>4
  <2>5. CASE q = r
    BY <1>3, <2>1, <2>2, <2>5
  <2> QED
    BY <2>1, <2>3, <2>4, <2>5
<1> QED
  BY <1>4, <1>6, <1>7

\* What a removal of the arc at i may leave.
ArcsUnlinked(s, i, fn, ns, ar) == Unlinked(s, i, LAMBDA a1, a2 : arcOrdering(fn, ns, ar, a1, a2))

\* In a set of arcs in its order, each search for a node before finds it.
LEMMA ArcsUnlinkedOne ==
    ASSUME NEW s \in Seq(Elements), NEW fn, NEW ns, NEW ar,
           \A a \in Keys(s) : /\ ar[a].cost \in Int
                              /\ ns[ar[a].start].name \in Int /\ ns[ar[a].end].name \in Int, ArcsOrdered(s, fn, ns, ar),
           NEW i \in 1..Len(s), NEW t \in ArcsUnlinked(s, i, fn, ns, ar)
    PROVE  t \in OneOut(s, i)
<1>0. Len(s) \in Nat
  OBVIOUS
<1>1. \A p, q \in 1..Len(s) : p < q => arcOrdering(fn, ns, ar, s[p].key, s[q].key) < 0
  BY DEF ArcsOrdered, Ordered
<1>9. ASSUME NEW p \in 1..Len(s), NEW q \in 1..Len(s)
      PROVE  /\ arcOrdering(fn, ns, ar, s[q].key, s[p].key) \in Int
             /\ arcOrdering(fn, ns, ar, s[p].key, s[q].key) < 0
                => arcOrdering(fn, ns, ar, s[q].key, s[p].key) > 0
             /\ arcOrdering(fn, ns, ar, s[p].key, s[p].key) = 0
  <2> DEFINE a == s[p].key  b == s[q].key
  <2>1. a \in Int /\ b \in Int /\ a \in Keys(s) /\ b \in Keys(s)
    BY InElements DEF Keys
  <2> HIDE DEF a, b
  <2>2. /\ arcOrdering(fn, ns, ar, a, b) \in Int
        /\ arcOrdering(fn, ns, ar, a, b) < 0 <=> arcOrdering(fn, ns, ar, b, a) > 0
        /\ arcOrdering(fn, ns, ar, a, a) = 0
    BY <2>1, ArcOrderFacts
  <2>3. /\ arcOrdering(fn, ns, ar, b, a) \in Int
        /\ arcOrdering(fn, ns, ar, b, b) = 0
    BY <2>1, ArcOrderFacts
  <2> QED
    BY <2>2, <2>3 DEF a, b
<1>2. \A p, r \in 1..Len(s) : arcOrdering(fn, ns, ar, s[r].key, s[p].key) = 0 => ~ (p < r)
  <2> SUFFICES ASSUME NEW p \in 1..Len(s), NEW r \in 1..Len(s), p < r,
                      arcOrdering(fn, ns, ar, s[r].key, s[p].key) = 0
               PROVE  FALSE
    OBVIOUS
  <2>1. arcOrdering(fn, ns, ar, s[p].key, s[r].key) < 0
    BY <1>1
  <2>2. arcOrdering(fn, ns, ar, s[r].key, s[p].key) > 0
    BY <1>9, <2>1
  <2> QED
    BY <2>2
<1>3. /\ \A q, r \in 1..Len(s) : arcOrdering(fn, ns, ar, s[r].key, s[q].key) < 0 => ~ (q < r)
      /\ \A q \in 1..Len(s) : ~ (arcOrdering(fn, ns, ar, s[q].key, s[q].key) < 0)
  BY <1>1, <1>9
<1>4. PICK places \in SUBSET (1..i) :
          /\ i \in places
          /\ \A p \in places \ {i} : \E q \in places :
                 p < q /\ arcOrdering(fn, ns, ar, s[q - 1].key, s[p].key) = 0
          /\ \/ TwoChildren(s, places \ {Min(places)}, places) /\ t = TakenAt(s, places)
             \/ /\ TwoChildren(s, places, places)
                /\ \E q \in 1..Min(places) - 1 :
                       arcOrdering(fn, ns, ar, s[Min(places) - 1].key, s[q].key) < 0
  BY DEF ArcsUnlinked, Unlinked, Descends, TakenAt, Misses
<1>5. Runs(i, places)
  <2> SUFFICES ASSUME NEW p \in places \ {i} PROVE p + 1 \in places
    BY <1>4 DEF Runs
  <2>1. PICK q \in places : p < q /\ arcOrdering(fn, ns, ar, s[q - 1].key, s[p].key) = 0
    BY <1>4
  <2>0. p \in 1..i /\ q \in 1..i /\ i \in Nat /\ i <= Len(s)
    <3>1. p \in places /\ q \in places /\ places \subseteq 1..i
      OBVIOUS
    <3>2. p \in 1..i /\ q \in 1..i
      BY <3>1
    <3>3. i \in Nat /\ i <= Len(s)
      BY <1>0
    <3> QED
      BY <3>2, <3>3
  <2>2. p \in 1..Len(s) /\ q - 1 \in 1..Len(s) /\ q \in Nat /\ p \in Nat
    BY <1>0, <2>0, <2>1
  <2>3. ~ (p < q - 1)
    <3> DEFINE r == q - 1
    <3>1. r \in 1..Len(s) /\ arcOrdering(fn, ns, ar, s[r].key, s[p].key) = 0
      BY <2>1, <2>2
    <3> HIDE DEF r
    <3>2. ~ (p < r)
      BY <1>2, <2>2, <3>1
    <3> QED
      BY <3>2 DEF r
  <2>4. q = p + 1
    BY <2>1, <2>2, <2>3
  <2> QED
    BY <2>4
<1>6. /\ TwoChildren(s, places \ {Min(places)}, places) => TakenAt(s, places) \in OneOut(s, i)
      /\ TwoChildren(s, places, places) => Min(places) = i
  BY <1>5, OnlyPrevious
<1>7. ASSUME TwoChildren(s, places, places), NEW q \in 1..Min(places) - 1,
             arcOrdering(fn, ns, ar, s[Min(places) - 1].key, s[q].key) < 0
      PROVE  FALSE
  <2> DEFINE r == i - 1
  <2>1. r \in 1..Len(s) /\ q \in 1..Len(s) /\ q <= r
    BY <1>0, <1>6, <1>7
  <2>2. arcOrdering(fn, ns, ar, s[r].key, s[q].key) < 0
    BY <1>6, <1>7
  <2> HIDE DEF r
  <2>3. q \in Nat /\ r \in Nat
    BY <1>0, <2>1
  <2>4. CASE q < r
    BY <1>3, <2>1, <2>2, <2>4
  <2>5. CASE q = r
    BY <1>3, <2>1, <2>2, <2>5
  <2> QED
    BY <2>1, <2>3, <2>4, <2>5
<1> QED
  BY <1>4, <1>6, <1>7

\* A search with comparisons c that fall from more to less ends at the one
\* that is equal.
LEMMA SearchEnds ==
    ASSUME NEW n \in Nat, NEW c, NEW i \in 1..n, \A p \in 1..n : c[p] \in Int, c[i] = 0,
           \A p \in 1..n : (p < i => c[p] > 0) /\ (p > i => c[p] < 0)
    PROVE  /\ \A p \in 1..n : c[p] = 0 => p = i
           /\ ~ \E j \in 0..n : (j = 0 \/ c[j] > 0) /\ (j = n \/ c[j + 1] < 0)
<1>1. \A p \in 1..n : c[p] = 0 => p = i
  OBVIOUS
<1>2. ASSUME NEW j \in 0..n, j = 0 \/ c[j] > 0, j = n \/ c[j + 1] < 0 PROVE FALSE
  <2>1. CASE j >= i
    <3>1. j \in 1..n /\ c[j] > 0
      BY <1>2, <2>1
    <3> QED
      BY <2>1, <3>1
  <2>2. CASE j < i
    <3>1. j + 1 \in 1..n /\ c[j + 1] < 0
      BY <1>2, <2>2
    <3>2. j + 1 < i \/ j + 1 = i
      BY <2>2
    <3> QED
      BY <3>1, <3>2
  <2> QED
    BY <2>1, <2>2
<1> QED
  BY <1>1, <1>2

\* So does findTreeNode, which gives removal and insertion no other place.
LEMMA NodeTakenOut ==
    ASSUME NEW s, NEW n \in Nat, NEW fn, NEW ns, Len(s) \in Nat,
           NEW i \in 1..Len(s), \A t \in NodesUnlinked(s, i, fn, ns) : t \in OneOut(s, i),
           nodeOrdering(fn, ns, n, s[i].key) = 0,
           \A p \in 1..Len(s) : /\ nodeOrdering(fn, ns, n, s[p].key) \in Int
                                /\ p < i => nodeOrdering(fn, ns, n, s[p].key) > 0
                                /\ p > i => nodeOrdering(fn, ns, n, s[p].key) < 0
    PROVE  /\ \A t \in NodesWithout(s, n, fn, ns) : t \in OneOut(s, i)
           /\ \A t \in NodesWith(s, n, fn, ns) : t = s
<1> DEFINE c == [p \in 1..Len(s) |-> nodeOrdering(fn, ns, n, s[p].key)]
<1>1. \A p \in 1..Len(s) : c[p] = nodeOrdering(fn, ns, n, s[p].key)
  OBVIOUS
<1> HIDE DEF c
<1>2. /\ \A p \in 1..Len(s) : c[p] = 0 => p = i
      /\ ~ \E j \in 0..Len(s) : (j = 0 \/ c[j] > 0) /\ (j = Len(s) \/ c[j + 1] < 0)
  <2> DEFINE l == Len(s)
  <2>1. /\ l \in Nat /\ i \in 1..l /\ c[i] = 0
        /\ \A p \in 1..l : c[p] \in Int
        /\ \A p \in 1..l : (p < i => c[p] > 0) /\ (p > i => c[p] < 0)
    BY <1>1
  <2> HIDE DEF l
  <2>2. /\ \A p \in 1..l : c[p] = 0 => p = i
        /\ ~ \E j \in 0..l : (j = 0 \/ c[j] > 0) /\ (j = l \/ c[j + 1] < 0)
    BY ONLY <2>1, SearchEnds
  <2> QED
    BY <2>2 DEF l
<1>3. \A p \in 1..Len(s) : nodeOrdering(fn, ns, n, s[p].key) = 0 => p = i
  BY <1>1, <1>2
<1>4. ASSUME NEW j \in 0..Len(s), j = 0 \/ nodeOrdering(fn, ns, n, s[j].key) > 0,
             j = Len(s) \/ nodeOrdering(fn, ns, n, s[j + 1].key) < 0
      PROVE  FALSE
  <2>1. j = 0 \/ c[j] > 0
    <3>1. CASE j # 0
      <4>1. j \in 1..Len(s)
        BY <3>1
      <4> QED
        BY <1>1, <1>4, <4>1
    <3> QED
      BY <3>1
  <2>2. j = Len(s) \/ c[j + 1] < 0
    <3>1. CASE j # Len(s)
      <4>1. j + 1 \in 1..Len(s)
        BY <3>1
      <4> QED
        BY <1>1, <1>4, <4>1
    <3> QED
      BY <3>1
  <2> QED
    BY <1>2, <2>1, <2>2
<1>5. Hits(s, n, LAMBDA n1, n2 : nodeOrdering(fn, ns, n1, n2)) = {i}
  BY <1>3 DEF Hits
<1>6. Gaps(s, n, LAMBDA n1, n2 : nodeOrdering(fn, ns, n1, n2)) = {}
  BY <1>4 DEF Gaps
<1>7. \A t \in NodesWithout(s, n, fn, ns) : t \in NodesUnlinked(s, i, fn, ns)
  BY <1>5, <1>6 DEF NodesWithout, Removed, NodesUnlinked
<1>8. \A t \in NodesWith(s, n, fn, ns) : t = s
  BY <1>5, <1>6 DEF NodesWith, Added
<1> QED
  BY <1>7, <1>8

\* In a set in its order, the search for a name ends at the node that has it.
LEMMA NodeFound ==
    ASSUME NEW s \in Seq(Elements), NEW n \in Nat, NEW fn, NEW ns, NodesOrdered(s, fn, ns),
           ns[n].name \in Int, \A p \in 1..Len(s) : ns[s[p].key].name \in Int,
           NEW i \in 1..Len(s), ns[s[i].key].name = ns[n].name
    PROVE  /\ \A t \in NodesWithout(s, n, fn, ns) : t \in OneOut(s, i)
           /\ \A t \in NodesWith(s, n, fn, ns) : t = s
<1>1. \A p, q \in 1..Len(s) : p < q => nodeOrdering(fn, ns, s[p].key, s[q].key) < 0
  BY DEF NodesOrdered, Ordered
<1>2. \A p \in 1..Len(s) :
          nodeOrdering(fn, ns, n, s[p].key) = nodeOrdering(fn, ns, s[i].key, s[p].key)
  BY DEF nodeOrdering
<1>3. nodeOrdering(fn, ns, n, s[i].key) = 0
  BY NodeOrderFacts
<1>4. ASSUME NEW p \in 1..Len(s)
      PROVE  /\ nodeOrdering(fn, ns, n, s[p].key) \in Int
             /\ p < i => nodeOrdering(fn, ns, n, s[p].key) > 0
             /\ p > i => nodeOrdering(fn, ns, n, s[p].key) < 0
  <2>1. /\ nodeOrdering(fn, ns, s[i].key, s[p].key) \in Int
        /\ nodeOrdering(fn, ns, s[p].key, s[i].key) < 0
           => nodeOrdering(fn, ns, s[i].key, s[p].key) > 0
    BY NodeOrderFacts
  <2> QED
    BY <1>1, <1>2, <2>1
<1>5. Len(s) \in Nat
  OBVIOUS
<1>6. \A t \in NodesUnlinked(s, i, fn, ns) : t \in OneOut(s, i)
  BY NodesUnlinkedOne
<1> QED
  BY <1>3, <1>4, <1>5, <1>6, NodeTakenOut

\* In a set of arcs in its order, the search for an arc of it ends at that arc.
LEMMA ArcFound ==
    ASSUME NEW s \in Seq(Elements), NEW fn, NEW ns, NEW ar, ArcsOrdered(s, fn, ns, ar),
           NEW i \in 1..Len(s), NEW k \in Nat, k = s[i].key,
           \A a \in Keys(s) : /\ ar[a].cost \in Int
                              /\ ns[ar[a].start].name \in Int /\ ns[ar[a].end].name \in Int
    PROVE  \A t \in ArcsWithout(s, k, fn, ns, ar) : t \in OneOut(s, i)
<1>0. Len(s) \in Nat /\ \A p \in 1..Len(s) : s[p].key \in Nat /\ s[p].key \in Keys(s)
  BY InElements DEF Keys
<1>1. \A p, q \in 1..Len(s) : p < q => arcOrdering(fn, ns, ar, s[p].key, s[q].key) < 0
  BY DEF ArcsOrdered, Ordered
<1>2. \A p, q \in 1..Len(s) :
          /\ arcOrdering(fn, ns, ar, s[p].key, s[q].key) \in Int
          /\ arcOrdering(fn, ns, ar, s[p].key, s[q].key) < 0
             <=> arcOrdering(fn, ns, ar, s[q].key, s[p].key) > 0
          /\ arcOrdering(fn, ns, ar, s[p].key, s[p].key) = 0
  <2> SUFFICES ASSUME NEW p \in 1..Len(s), NEW q \in 1..Len(s)
      PROVE /\ arcOrdering(fn, ns, ar, s[p].key, s[q].key) \in Int
            /\ arcOrdering(fn, ns, ar, s[p].key, s[q].key) < 0
               <=> arcOrdering(fn, ns, ar, s[q].key, s[p].key) > 0
            /\ arcOrdering(fn, ns, ar, s[p].key, s[p].key) = 0
    OBVIOUS
  <2> DEFINE a == s[p].key  b == s[q].key
  <2>1. a \in Int /\ b \in Int /\ a \in Keys(s) /\ b \in Keys(s)
    BY <1>0
  <2> HIDE DEF a, b
  <2>2. /\ arcOrdering(fn, ns, ar, a, b) \in Int
        /\ arcOrdering(fn, ns, ar, a, b) < 0 <=> arcOrdering(fn, ns, ar, b, a) > 0
        /\ arcOrdering(fn, ns, ar, a, a) = 0
    BY <2>1, ArcOrderFacts
  <2> QED
    BY <2>2 DEF a, b
<1>3. /\ arcOrdering(fn, ns, ar, k, s[i].key) = 0
      /\ \A p \in 1..Len(s) : /\ arcOrdering(fn, ns, ar, k, s[p].key) \in Int
                              /\ p < i => arcOrdering(fn, ns, ar, k, s[p].key) > 0
                              /\ p > i => arcOrdering(fn, ns, ar, k, s[p].key) < 0
  BY <1>0, <1>1, <1>2
<1>4. Len(s) \in Nat
  BY <1>0
<1> DEFINE c == [p \in 1..Len(s) |-> arcOrdering(fn, ns, ar, k, s[p].key)]
<1>11. \A p \in 1..Len(s) : c[p] = arcOrdering(fn, ns, ar, k, s[p].key)
  OBVIOUS
<1> HIDE DEF c
<1>12. /\ \A p \in 1..Len(s) : c[p] = 0 => p = i
      /\ ~ \E j \in 0..Len(s) : (j = 0 \/ c[j] > 0) /\ (j = Len(s) \/ c[j + 1] < 0)
  <2> DEFINE l == Len(s)
  <2>1. /\ l \in Nat /\ i \in 1..l /\ c[i] = 0
        /\ \A p \in 1..l : c[p] \in Int
        /\ \A p \in 1..l : (p < i => c[p] > 0) /\ (p > i => c[p] < 0)
    BY <1>3, <1>4, <1>11
  <2> HIDE DEF l
  <2>2. /\ \A p \in 1..l : c[p] = 0 => p = i
        /\ ~ \E j \in 0..l : (j = 0 \/ c[j] > 0) /\ (j = l \/ c[j + 1] < 0)
    BY ONLY <2>1, SearchEnds
  <2> QED
    BY <2>2 DEF l
<1>13. \A p \in 1..Len(s) : arcOrdering(fn, ns, ar, k, s[p].key) = 0 => p = i
  BY <1>11, <1>12
<1>14. ASSUME NEW j \in 0..Len(s), j = 0 \/ arcOrdering(fn, ns, ar, k, s[j].key) > 0,
             j = Len(s) \/ arcOrdering(fn, ns, ar, k, s[j + 1].key) < 0
      PROVE  FALSE
  <2>1. j = 0 \/ c[j] > 0
    <3>1. CASE j # 0
      <4>1. j \in 1..Len(s)
        BY <3>1
      <4> QED
        BY <1>11, <1>14, <4>1
    <3> QED
      BY <3>1
  <2>2. j = Len(s) \/ c[j + 1] < 0
    <3>1. CASE j # Len(s)
      <4>1. j + 1 \in 1..Len(s)
        BY <3>1
      <4> QED
        BY <1>11, <1>14, <4>1
    <3> QED
      BY <3>1
  <2> QED
    BY <1>12, <2>1, <2>2
<1>15. Hits(s, k, LAMBDA a1, a2 : arcOrdering(fn, ns, ar, a1, a2)) = {i}
  BY <1>3, <1>13 DEF Hits
<1>16. Gaps(s, k, LAMBDA a1, a2 : arcOrdering(fn, ns, ar, a1, a2)) = {}
  BY <1>14 DEF Gaps
<1>17. \A t \in ArcsWithout(s, k, fn, ns, ar) : t \in ArcsUnlinked(s, i, fn, ns, ar)
  BY <1>15, <1>16 DEF ArcsWithout, Removed, ArcsUnlinked
<1> QED
  BY <1>17, ArcsUnlinkedOne

-----------------------------------------------------------------------------
\* The invariant.  First, the sorts of all variables.
Statuses == {"ok", "error", "undefined", "dangling", "freed"}

Sorts ==
    /\ program \in Programs /\ status \in Statuses
    /\ nodeCmpFn \in {"name", "reverse"} /\ arcCmpFn \in {"default", "cost"}
    /\ loop \in Loops /\ removal \in Loops
    /\ unused \in [nodes : SUBSET (1..MaxNodes), arcs : SUBSET (1..MaxArcs)]
    /\ DOMAIN nameMap \subseteq Names /\ nameMap \in [DOMAIN nameMap -> Nat]
    /\ upset \in BOOLEAN /\ reckless \in BOOLEAN

\* The blocks in use, and the sets.
BlocksOK ==
    /\ DOMAIN nodes \subseteq 1..MaxNodes /\ nodes \in [DOMAIN nodes -> NodeBlocks]
    /\ DOMAIN arcs \subseteq 1..MaxArcs /\ arcs \in [DOMAIN arcs -> ArcBlocks]
    /\ IsTree(nodeSet) /\ IsTree(arcSet)
    /\ \A n \in DOMAIN nodes : IsTree(nodes[n].arcs)

\* No address in use is given out again.
UnusedOK ==
    /\ DOMAIN nodes \cap unused.nodes = {} /\ DOMAIN arcs \cap unused.arcs = {}
    /\ Keys(nodeSet) \cap unused.nodes = {} /\ Keys(arcSet) \cap unused.arcs = {}
    /\ \A n \in DOMAIN nodes : Keys(nodes[n].arcs) \cap unused.arcs = {}

\* As long as the status does not say so, nothing refers to a freed block.
IntactOK == status \in {"ok", "error", "undefined"} => Intact(nodes, arcs, nodeSet, arcSet)

\* Nodes, arcs, sets and names belong together.
Whole(ns, ars, nset, aset, names) ==
    /\ Keys(aset) = DOMAIN ars
    /\ \A a \in DOMAIN ars : ars[a].start \in DOMAIN ns /\ ars[a].end \in DOMAIN ns
    /\ \A n \in DOMAIN ns : Keys(ns[n].arcs) = {a \in DOMAIN ars : ars[a].start = n}
    /\ Keys(nset) = DOMAIN ns
    /\ \A n \in DOMAIN ns : ns[n].name \in DOMAIN names /\ names[ns[n].name] = n
    /\ \A name \in DOMAIN names : /\ names[name] \in DOMAIN ns
                                  /\ ns[names[name]].name = name

\* They do, and the sets are in order, until the program has upset it.
WholeOK ==
    ~ upset /\ status # "freed" =>
        /\ status # "dangling"
        /\ InOrder(nodes, arcs, nodeSet, arcSet, nodeCmpFn, arcCmpFn)
        /\ Whole(nodes, arcs, nodeSet, arcSet, nameMap)

\* The loop of removeNode has yet to come to each arc that it must remove.
AllAhead ==
    \A p \in 1..Len(arcSet) :
        AtNode(arcSet[p].key, removal.node) => arcSet[p].cell \in ToSet(removal.rest)

\* The removal in progress, and the loop of the program.
RemovalOK ==
    removal # NoLoop =>
        /\ removal.over = "arcs" /\ status \in {"ok", "dangling", "undefined"}
        /\ ~ upset => /\ status = "ok"
                      /\ removal.node \in DOMAIN nodes
                      /\ Ahead(removal, arcSet)
                      /\ AllAhead

LoopOK ==
    /\ loop # NoLoop => loop.over \in {"nodes", "arcs"}
    /\ loop # NoLoop /\ ~ upset /\ ~ reckless /\ status # "freed" =>
           Ahead(loop, SetOf(loop.over, nodeSet, arcSet))
    /\ ~ upset /\ ~ reckless => status # "undefined"

GraphInv ==
    Sorts /\ BlocksOK /\ UnusedOK /\ IntactOK /\ WholeOK /\ RemovalOK /\ LoopOK

\* A set, a loop and a function without elements.
LEMMA EmptySet == IsTree(<<>>) /\ Keys(<<>>) = {} /\ Cells(<<>>) = {}
<1>1. <<>> \in Seq(Elements) /\ Len(<<>>) = 0
  OBVIOUS
<1> QED
  BY <1>1 DEF IsTree, Keys, Cells

\* NoLoop is a loop with nothing ahead.
LEMMA NoLoopSort == NoLoop \in Loops /\ NoLoop.over = "none" /\ NoLoop.rest = <<>>
<1>1. <<>> \in Seq(Nat)
  OBVIOUS
<1> QED
  BY <1>1 DEF NoLoop, Loops

\* The empty function is one from no keys.
LEMMA EmptyFunction == ASSUME NEW S PROVE DOMAIN <<>> = {} /\ <<>> \in [{} -> S]
  OBVIOUS

\* A new graph satisfies the invariant.
LEMMA InitInv == Init => GraphInv
<1> SUFFICES ASSUME Init PROVE GraphInv
  OBVIOUS
<1> USE DEF Init
<1>0. DOMAIN nodes = {} /\ DOMAIN arcs = {} /\ DOMAIN nameMap = {}
  BY EmptyFunction
<1>1. Sorts
  <2>1. nameMap \in [DOMAIN nameMap -> Nat]
    BY <1>0, EmptyFunction
  <2>2. unused \in [nodes : SUBSET (1..MaxNodes), arcs : SUBSET (1..MaxArcs)]
    <3>1. program \in [calls : SUBSET STRING, nodes : SUBSET (1..MaxNodes), arcs : SUBSET (1..MaxArcs)]
      BY GraphAssumption
    <3> QED
      BY <3>1
  <2> QED
    BY <1>0, <2>1, <2>2, NoLoopSort DEF Sorts, Statuses
<1>2. BlocksOK
  <2>1. nodes \in [DOMAIN nodes -> NodeBlocks] /\ arcs \in [DOMAIN arcs -> ArcBlocks]
    BY <1>0, EmptyFunction
  <2> QED
    BY <1>0, <2>1, EmptySet DEF BlocksOK
<1>3. UnusedOK
  BY <1>0, EmptySet DEF UnusedOK
<1>4. Intact(nodes, arcs, nodeSet, arcSet)
  BY <1>0, EmptySet DEF Intact
<1>5. Len(<<>>) = 0
  OBVIOUS
<1>6. InOrder(nodes, arcs, nodeSet, arcSet, nodeCmpFn, arcCmpFn)
  BY <1>0, <1>5 DEF InOrder, NodesOrdered, ArcsOrdered, Ordered
<1>7. Whole(nodes, arcs, nodeSet, arcSet, nameMap)
  BY <1>0, EmptySet DEF Whole
<1> QED
  BY <1>1, <1>2, <1>3, <1>4, <1>6, <1>7 DEF GraphInv, IntactOK, WholeOK, RemovalOK, LoopOK

\* A tree of nodes, or of arcs, that stands in its order is a set.
LEMMA NodesOrderedSet ==
    ASSUME NEW s, IsTree(s), NEW fn, NEW ns, NodesOrdered(s, fn, ns),
           \A p \in 1..Len(s) : ns[s[p].key].name \in Int
    PROVE  IsSet(s)
<1>0. s \in Seq(Elements) /\ Len(s) \in Nat /\ \A p, q \in 1..Len(s) : s[p].cell = s[q].cell => p = q
  BY DEF IsTree
<1>1. ASSUME NEW p \in 1..Len(s), NEW q \in 1..Len(s), s[p].key = s[q].key, p < q PROVE FALSE
  <2>1. nodeOrdering(fn, ns, s[p].key, s[p].key) < 0
    BY <1>1 DEF NodesOrdered, Ordered
  <2>2. nodeOrdering(fn, ns, s[p].key, s[p].key) = 0
    BY NodeOrderFacts
  <2> QED
    BY <2>1, <2>2
<1>2. ASSUME NEW p \in 1..Len(s), NEW q \in 1..Len(s), s[p].key = s[q].key PROVE p = q
  BY <1>0, <1>1, <1>2
<1> QED
  BY <1>0, <1>2 DEF IsSet, Distinct

\* The same for arcs.
LEMMA ArcsOrderedSet ==
    ASSUME NEW s, IsTree(s), NEW fn, NEW ns, NEW ar, ArcsOrdered(s, fn, ns, ar),
           \A a \in Keys(s) : /\ ar[a].cost \in Int
                              /\ ns[ar[a].start].name \in Int /\ ns[ar[a].end].name \in Int
    PROVE  IsSet(s)
<1>0. s \in Seq(Elements) /\ Len(s) \in Nat /\ \A p, q \in 1..Len(s) : s[p].cell = s[q].cell => p = q
  BY DEF IsTree
<1>1. ASSUME NEW p \in 1..Len(s), NEW q \in 1..Len(s), s[p].key = s[q].key, p < q PROVE FALSE
  <2>1. arcOrdering(fn, ns, ar, s[p].key, s[p].key) < 0
    BY <1>1 DEF ArcsOrdered, Ordered
  <2> DEFINE a == s[p].key
  <2>2. a \in Int /\ a \in Keys(s)
    BY <1>0, InElements DEF Keys
  <2> HIDE DEF a
  <2>3. arcOrdering(fn, ns, ar, a, a) = 0
    BY <2>2, ArcOrderFacts
  <2> QED
    BY <2>1, <2>3 DEF a
<1>2. ASSUME NEW p \in 1..Len(s), NEW q \in 1..Len(s), s[p].key = s[q].key PROVE p = q
  BY <1>0, <1>1, <1>2
<1> QED
  BY <1>0, <1>2 DEF IsSet, Distinct

\* Names and costs are numbers.
LEMMA BlockSorts ==
    ASSUME BlocksOK
    PROVE  /\ \A n \in DOMAIN nodes : nodes[n].name \in Int /\ nodes[n].name \in Names
           /\ \A a \in DOMAIN arcs : arcs[a].cost \in Int
           /\ DOMAIN nodes \subseteq Nat /\ DOMAIN arcs \subseteq Nat
  BY GraphAssumption DEF BlocksOK, NodeBlocks, ArcBlocks

\* So all sets of the graph are sets until the program has upset it.
LEMMA SetsDistinct ==
    ASSUME BlocksOK, WholeOK, ~ upset, status # "freed"
    PROVE  /\ IsSet(nodeSet) /\ IsSet(arcSet)
           /\ \A n \in DOMAIN nodes : IsSet(nodes[n].arcs)
<1>1. /\ InOrder(nodes, arcs, nodeSet, arcSet, nodeCmpFn, arcCmpFn)
      /\ Whole(nodes, arcs, nodeSet, arcSet, nameMap)
  BY DEF WholeOK
<1>2. \A a \in DOMAIN arcs : /\ arcs[a].cost \in Int
                             /\ nodes[arcs[a].start].name \in Int
                             /\ nodes[arcs[a].end].name \in Int
  BY <1>1, BlockSorts DEF Whole
<1>3. IsSet(nodeSet)
  <2>1. \A p \in 1..Len(nodeSet) : nodeSet[p].key \in DOMAIN nodes
    BY <1>1 DEF Whole, Keys
  <2> QED
    BY <1>1, <2>1, BlockSorts, NodesOrderedSet DEF InOrder, BlocksOK
<1>4. IsSet(arcSet)
  <2>1. \A a \in Keys(arcSet) : /\ arcs[a].cost \in Int
                                /\ nodes[arcs[a].start].name \in Int
                                /\ nodes[arcs[a].end].name \in Int
    BY <1>1, <1>2 DEF Whole
  <2> QED
    BY <1>1, <2>1, ArcsOrderedSet DEF InOrder, BlocksOK
<1>5. ASSUME NEW n \in DOMAIN nodes PROVE IsSet(nodes[n].arcs)
  <2> DEFINE s == nodes[n].arcs  fn == nodes[n].cmpFn
  <2>1. \A a \in Keys(s) : /\ arcs[a].cost \in Int
                           /\ nodes[arcs[a].start].name \in Int
                           /\ nodes[arcs[a].end].name \in Int
    BY <1>1, <1>2 DEF Whole
  <2>2. IsTree(s) /\ ArcsOrdered(s, fn, nodes, arcs)
    BY <1>1 DEF InOrder, BlocksOK
  <2> HIDE DEF s, fn
  <2>3. IsSet(s)
    BY <2>1, <2>2, ArcsOrderedSet
  <2> QED
    BY <2>3 DEF s
<1> QED
  BY <1>3, <1>4, <1>5

\* What an Outcome says of the status and the histories, one part each.
LEMMA Outcomes ==
    ASSUME NEW outcome \in {"ok", "error"}, Outcome(outcome), Sorts
    PROVE  /\ status' \in {"ok", "error", "dangling"}
           /\ reckless' \in BOOLEAN
           /\ IntactOK'
           /\ status' = "dangling" <=> ~ Intact(nodes', arcs', nodeSet', arcSet')
           /\ status' # "dangling" => status' = outcome
           /\ ~ reckless' => ~ reckless
  BY DEF Outcome, IntactOK, Sorts

\* Unless the program is reckless, an element is removed only when its loop has
\* passed the cells up to it.
LEMMA InLoop ==
    ASSUME NEW outcome, Outcome(outcome), ~ reckless'
    PROVE  LET old == SetOf(loop.over, nodeSet, arcSet)
               new == SetOf(loop.over, nodeSet', arcSet')
           IN  \A i \in 1..Len(old) : old[i].key \notin Keys(new) =>
                   \A j \in 1..i : old[j].cell \notin ToSet(loop.rest)
  BY DEF Outcome

\* What one operation makes of a set.
Changed(s, t) ==
    \/ t = s
    \/ \E k \in Nat : k \notin Keys(s) /\ PutIn(t, s, k)
    \/ \E i \in 1..Len(s) : t \in OneOut(s, i)

\* A set remains one.
LEMMA ChangedSet ==
    ASSUME NEW s, IsSet(s), NEW t, Changed(s, t)
    PROVE  IsSet(t)
<1>1. CASE t = s
  BY <1>1
<1>2. CASE \E k \in Nat : k \notin Keys(s) /\ PutIn(t, s, k)
  BY <1>2, Inserted, SetIsTree DEF PutIn
<1>3. CASE \E i \in 1..Len(s) : t \in OneOut(s, i)
  BY <1>3, TakenOut
<1> QED
  BY <1>1, <1>2, <1>3 DEF Changed

\* It keeps the cells of a loop that has passed those up to the removed one.
LEMMA ChangedKeeps ==
    ASSUME NEW s, IsSet(s), NEW t, Changed(s, t), NEW C,
           \A i \in 1..Len(s) : s[i].key \notin Keys(t) => \A j \in 1..i : s[j].cell \notin C
    PROVE  Keeps(s, t, C)
<1>1. CASE t = s
  BY <1>1, Same, SetIsTree
<1>2. CASE \E k \in Nat : k \notin Keys(s) /\ PutIn(t, s, k)
  BY <1>2, Inserted, SetIsTree DEF PutIn
<1>3. CASE \E i \in 1..Len(s) : t \in OneOut(s, i)
  <2>1. PICK i \in 1..Len(s) : t \in OneOut(s, i)
    BY <1>3
  <2>2. s[i].key \notin Keys(t)
    BY <2>1, TakenOut
  <2>3. \A j \in 1..i : s[j].cell \notin C
    BY <2>2
  <2> QED
    BY <2>1, <2>3, TakenFrom
<1> QED
  BY <1>1, <1>2, <1>3 DEF Changed

\* So no operation on the sets disturbs the loop of the program.
LEMMA LoopKept ==
    ASSUME NEW outcome \in {"ok", "error"}, Outcome(outcome), Sorts, LoopOK, loop' = loop,
           status # "freed", ~ upset' => ~ upset,
           ~ upset' => /\ IsSet(nodeSet) /\ IsSet(arcSet)
                       /\ Changed(nodeSet, nodeSet') /\ Changed(arcSet, arcSet')
    PROVE  LoopOK'
<1>0. /\ status' \in {"ok", "error", "dangling"}
      /\ ~ reckless' => ~ reckless
  BY Outcomes
<1>1. ASSUME loop # NoLoop, ~ upset', ~ reckless'
      PROVE  Ahead(loop, SetOf(loop.over, nodeSet', arcSet'))
  <2> DEFINE s == SetOf(loop.over, nodeSet, arcSet)
             t == SetOf(loop.over, nodeSet', arcSet')
  <2>1. loop.over \in {"nodes", "arcs"} /\ Ahead(loop, s)
    BY <1>0, <1>1 DEF LoopOK
  <2>2. IsSet(s) /\ Changed(s, t)
    BY <1>1, <2>1 DEF SetOf
  <2>3. \A i \in 1..Len(s) : s[i].key \notin Keys(t) =>
            \A j \in 1..i : s[j].cell \notin ToSet(loop.rest)
    BY <1>1, InLoop
  <2>4. loop \in Loops
    BY DEF Sorts
  <2> HIDE DEF s, t
  <2>5. IsSet(t)
    BY <2>2, ChangedSet
  <2>6. Keeps(s, t, ToSet(loop.rest))
    BY <2>2, <2>3, ChangedKeeps
  <2>7. Ahead(loop, t)
    BY <2>1, <2>2, <2>4, <2>5, <2>6, SetIsTree, StaysAhead
  <2> QED
    BY <2>7 DEF t
<1> QED
  BY <1>0, <1>1 DEF LoopOK

\* A node gets another set of arcs; nothing else of it changes.
LEMMA ArcsReplaced ==
    ASSUME NEW ns, ns \in [DOMAIN ns -> NodeBlocks], NEW n \in DOMAIN ns,
           NEW s \in Seq(Elements), NEW ms, ms = [ns EXCEPT ![n].arcs = s]
    PROVE  /\ ms \in [DOMAIN ns -> NodeBlocks] /\ DOMAIN ms = DOMAIN ns
           /\ ms[n].arcs = s
           /\ \A m \in DOMAIN ns : /\ ms[m].name = ns[m].name /\ ms[m].cmpFn = ns[m].cmpFn
                                   /\ m # n => ms[m].arcs = ns[m].arcs
  BY DEF NodeBlocks

\* A step of a loop gives a loop over the same set.
LEMMA AdvancedSort ==
    ASSUME NEW l \in Loops, NEW s, IsTree(s), l.rest # <<>>, Head(l.rest) \in Cells(s)
    PROVE  LET m == Advanced(l, KeyAt(s, Head(l.rest)))
           IN  m \in Loops /\ m.over = l.over /\ m.node = l.node /\ m.rest = Tail(l.rest)
<1> DEFINE k == KeyAt(s, Head(l.rest))
<1>1. PICK p \in 1..Len(s) : s[p].cell = Head(l.rest)
  BY DEF Cells
<1>2. k \in Nat
  BY <1>1, KeyAtPlace, InElements DEF IsTree
<1> HIDE DEF k
<1>3. l.rest \in Seq(Nat) /\ l.seen \in Seq(Nat)
  BY DEF Loops
<1>4. Tail(l.rest) \in Seq(Nat) /\ Append(l.seen, k) \in Seq(Nat)
  BY <1>2, <1>3
<1>5. Advanced(l, k) \in Loops /\ Advanced(l, k).over = l.over /\ Advanced(l, k).node = l.node
      /\ Advanced(l, k).rest = Tail(l.rest)
  BY <1>4 DEF Advanced, Loops
<1> QED
  BY <1>5 DEF k

\* Where all belongs together, nothing refers to a freed block.
LEMMA WholeIntact ==
    ASSUME NEW ns, NEW ars, NEW nset, NEW aset, NEW names, Whole(ns, ars, nset, aset, names)
    PROVE  Intact(ns, ars, nset, aset)
  BY DEF Whole, Intact

\* What is left to show of an operation that ends with an Outcome.
LEMMA Concluded ==
    ASSUME NEW outcome \in {"ok", "error"}, Outcome(outcome), Sorts,
           ~ upset' => /\ Whole(nodes', arcs', nodeSet', arcSet', nameMap')
                       /\ InOrder(nodes', arcs', nodeSet', arcSet', nodeCmpFn', arcCmpFn')
    PROVE  /\ IntactOK' /\ WholeOK'
           /\ ~ upset' => status' = outcome
           /\ status' \in {outcome, "dangling"}
<1>1. ~ upset' => Intact(nodes', arcs', nodeSet', arcSet')
  BY WholeIntact
<1>2. IntactOK'
  BY Outcomes
<1>3. ASSUME ~ upset'
      PROVE  /\ status' = outcome
             /\ InOrder(nodes', arcs', nodeSet', arcSet', nodeCmpFn', arcCmpFn')
  BY <1>1, <1>3, Outcomes
<1>4. status' \in {outcome, "dangling"}
  BY DEF Outcome
<1> QED
  BY <1>2, <1>3, <1>4 DEF WholeOK

-----------------------------------------------------------------------------
\* The invariant, operation by operation: setCost moves nothing.
LEMMA setCostInv ==
    ASSUME GraphInv, NEW a, NEW cost \in Costs, setCost(a, cost)
    PROVE  GraphInv'
<1> USE DEF GraphInv
<1>0. /\ status = "ok" /\ removal = NoLoop /\ a \in DOMAIN arcs
      /\ arcs' = [arcs EXCEPT ![a].cost = cost] /\ Outcome("ok")
      /\ UNCHANGED <<program, nodes, nodeSet, arcSet, nameMap, nodeCmpFn, arcCmpFn, loop,
                     removal, unused>>
      /\ upset' \in BOOLEAN
      /\ ~ upset' => /\ ~ upset
                     /\ InOrder(nodes', arcs', nodeSet', arcSet', nodeCmpFn', arcCmpFn')
  BY DEF setCost, May, setVars, Ordering, Sorts
<1>1. /\ DOMAIN arcs' = DOMAIN arcs /\ arcs' \in [DOMAIN arcs -> ArcBlocks]
      /\ \A b \in DOMAIN arcs : arcs'[b].start = arcs[b].start /\ arcs'[b].end = arcs[b].end
  BY <1>0 DEF BlocksOK, ArcBlocks
<1>2. Sorts'
  BY <1>0, Outcomes DEF Sorts, Statuses
<1>3. BlocksOK' /\ UnusedOK'
  BY <1>0, <1>1 DEF BlocksOK, UnusedOK
<1>4. ~ upset' => Whole(nodes', arcs', nodeSet', arcSet', nameMap')
  <2>1. ~ upset' => Whole(nodes, arcs, nodeSet, arcSet, nameMap)
    BY <1>0 DEF WholeOK
  <2> QED
    BY <2>1, <1>0, <1>1 DEF Whole
<1>5. IntactOK' /\ WholeOK'
  BY <1>0, <1>4, Concluded
<1>6. RemovalOK'
  BY <1>0 DEF RemovalOK
<1>7. LoopOK'
  BY <1>0, LoopKept, SetsDistinct DEF Changed
<1> QED
  BY <1>2, <1>3, <1>5, <1>6, <1>7

\* setNodeOrdering and setArcOrdering move nothing either.
LEMMA OrderingInv ==
    ASSUME GraphInv, \/ \E fn \in {"name", "reverse"} : setNodeOrdering(fn)
                     \/ \E fn \in {"default", "cost"} : setArcOrdering(fn)
    PROVE  GraphInv'
<1> USE DEF GraphInv
<1>0. /\ status = "ok" /\ removal = NoLoop /\ Outcome("ok")
      /\ nodeCmpFn' \in {"name", "reverse"} /\ arcCmpFn' \in {"default", "cost"}
      /\ UNCHANGED <<program, nodes, arcs, nodeSet, arcSet, nameMap, loop, removal, unused>>
      /\ upset' \in BOOLEAN
      /\ ~ upset' => /\ ~ upset
                     /\ InOrder(nodes', arcs', nodeSet', arcSet', nodeCmpFn', arcCmpFn')
  BY DEF setNodeOrdering, setArcOrdering, May, blockVars, Sorts, Ordering
<1>2. Sorts'
  BY <1>0, Outcomes DEF Sorts, Statuses
<1>3. BlocksOK' /\ UnusedOK'
  BY <1>0 DEF BlocksOK, UnusedOK
<1>4. ~ upset' => Whole(nodes', arcs', nodeSet', arcSet', nameMap')
  BY <1>0 DEF WholeOK
<1>5. IntactOK' /\ WholeOK'
  BY <1>0, <1>4, Concluded
<1>6. RemovalOK'
  BY <1>0 DEF RemovalOK
<1>7. LoopOK'
  BY <1>0, LoopKept, SetsDistinct DEF Changed
<1> QED
  BY <1>2, <1>3, <1>5, <1>6, <1>7

\* The steps that leave the graph as it is.
LEMMA GraphUnchanged ==
    ASSUME GraphInv, UNCHANGED <<program, blockVars, setVars, unused, upset>>,
           status' \in Statuses, status' # "dangling",
           status \in {"ok", "error"},
           status' # "freed"
    PROVE  UnusedOK' /\ BlocksOK' /\ IntactOK' /\ WholeOK'
<1> USE DEF GraphInv, blockVars, setVars
<1>1. UnusedOK' /\ BlocksOK'
  BY DEF UnusedOK, BlocksOK
<1>2. IntactOK'
  BY DEF IntactOK
<1>3. WholeOK'
  BY DEF WholeOK
<1> QED
  BY <1>1, <1>2, <1>3

\* initForEach: the cells ahead are those of the set.
LEMMA BeginLoopInv ==
    ASSUME GraphInv, NEW over \in {"nodes", "arcs"}, BeginLoop(over)
    PROVE  GraphInv'
<1> USE DEF GraphInv
<1>0. /\ status = "ok" /\ removal = NoLoop
      /\ loop' = LoopOver(over, SetOf(over, nodeSet, arcSet), 0) /\ reckless' = FALSE
      /\ UNCHANGED <<program, status, blockVars, setVars, removal, unused, upset>>
  BY DEF BeginLoop, May
<1> DEFINE s == SetOf(over, nodeSet, arcSet)
<1>1. IsTree(s)
  BY DEF SetOf, BlocksOK
<1> HIDE DEF s
<1>2. LoopOver(over, s, 0) \in Loops /\ Ahead(LoopOver(over, s, 0), s)
  BY <1>1, BeginsAhead
<1>3. LoopOver(over, s, 0).over = over
  BY DEF LoopOver
<1> USE DEF s
<1>4. Sorts'
  BY <1>0, <1>2 DEF Sorts, setVars
<1>5. UnusedOK' /\ BlocksOK' /\ IntactOK' /\ WholeOK'
  BY <1>0, GraphUnchanged DEF Sorts
<1>6. RemovalOK'
  BY <1>0 DEF RemovalOK
<1>7. LoopOK'
  <2>1. Ahead(loop', SetOf(loop'.over, nodeSet', arcSet'))
    BY <1>0, <1>2, <1>3 DEF setVars
  <2> QED
    BY <2>1, <1>0, <1>3 DEF LoopOK
<1> QED
  BY <1>4, <1>5, <1>6, <1>7

\* stepForEach: it reads freed memory only after an upset or a reckless removal.
LEMMA StepLoopInv ==
    ASSUME GraphInv, StepLoop
    PROVE  GraphInv'
<1> USE DEF GraphInv
<1> DEFINE s == SetOf(loop.over, nodeSet, arcSet)
<1>0. /\ status = "ok" /\ removal = NoLoop /\ loop # NoLoop
      /\ IF loop.rest = <<>> THEN loop' = NoLoop /\ UNCHANGED status
         ELSE IF Head(loop.rest) \in Cells(s)
         THEN loop' = Advanced(loop, KeyAt(s, Head(loop.rest))) /\ UNCHANGED status
         ELSE status' = "undefined" /\ UNCHANGED loop
      /\ UNCHANGED <<program, blockVars, setVars, removal, unused, upset, reckless>>
  BY DEF StepLoop, May
<1>1. loop \in Loops /\ loop.over \in {"nodes", "arcs"}
  BY <1>0 DEF Sorts, LoopOK
<1>2. IsTree(s)
  BY <1>1 DEF SetOf, BlocksOK
<1>3. status' \in {"ok", "undefined"}
  BY <1>0
<1>5. UnusedOK' /\ BlocksOK' /\ IntactOK' /\ WholeOK'
  BY <1>0, <1>3, GraphUnchanged DEF Statuses
<1>6. RemovalOK'
  BY <1>0 DEF RemovalOK
<1>7. CASE loop.rest = <<>>
  <2>1. Sorts'
    BY <1>0, <1>7, NoLoopSort DEF Sorts, setVars
  <2>2. LoopOK'
    BY <1>0, <1>7, NoLoopSort DEF LoopOK
  <2> QED
    BY <2>1, <2>2, <1>5, <1>6
<1>8. CASE loop.rest # <<>> /\ Head(loop.rest) \in Cells(s)
  <2>1. loop' = Advanced(loop, KeyAt(s, Head(loop.rest))) /\ status' = status
    BY <1>0, <1>8
  <2>2. loop' \in Loops /\ loop'.over = loop.over
    BY <1>0, <1>1, <1>2, <1>8, <2>1, AdvancedSort
  <2>3. Sorts'
    BY <1>0, <2>1, <2>2 DEF Sorts, setVars
  <2>4. ASSUME ~ upset, ~ reckless PROVE Ahead(loop', SetOf(loop'.over, nodeSet', arcSet'))
    <3>1. Ahead(loop, s)
      BY <1>0, <2>4 DEF LoopOK
    <3> HIDE DEF s
    <3>2. Ahead(loop', s)
      BY <1>1, <1>2, <1>8, <2>1, <3>1, GoesAhead
    <3> USE DEF s
    <3>3. s = SetOf(loop'.over, nodeSet', arcSet')
      BY <1>0, <2>2 DEF setVars
    <3> QED
      BY <3>2, <3>3
  <2>5. LoopOK'
    BY <1>0, <1>1, <2>1, <2>2, <2>4 DEF LoopOK
  <2> QED
    BY <2>3, <2>5, <1>5, <1>6
<1>9. CASE loop.rest # <<>> /\ Head(loop.rest) \notin Cells(s)
  <2>1. loop' = loop /\ status' = "undefined"
    BY <1>0, <1>9
  <2>2. upset \/ reckless
    <3> SUFFICES ASSUME ~ upset, ~ reckless PROVE FALSE
      OBVIOUS
    <3>1. Ahead(loop, s)
      BY <1>0 DEF LoopOK
    <3> HIDE DEF s
    <3> QED
      BY <1>1, <1>2, <1>9, <3>1, Heads
  <2>3. Sorts'
    BY <1>0, <2>1 DEF Sorts, setVars, Statuses
  <2>4. LoopOK'
    BY <1>0, <1>1, <2>1, <2>2 DEF LoopOK
  <2> QED
    BY <2>3, <2>4, <1>5, <1>6
<1> QED
  BY <1>7, <1>8, <1>9

\* Catching an error changes nothing else.
LEMMA CatchInv ==
    ASSUME GraphInv, Catch
    PROVE  GraphInv'
<1> USE DEF GraphInv, Catch
<1>1. Sorts' /\ RemovalOK'
  BY DEF Sorts, Statuses, RemovalOK, AllAhead, AtNode, setVars, blockVars
<1>2. UnusedOK' /\ BlocksOK' /\ IntactOK' /\ WholeOK'
  BY GraphUnchanged DEF Statuses
<1>3. LoopOK'
  BY DEF LoopOK, setVars
<1> QED
  BY <1>1, <1>2, <1>3

\* freeGraph leaves nothing.
LEMMA freeGraphInv ==
    ASSUME GraphInv, freeGraph
    PROVE  GraphInv'
<1> USE DEF GraphInv
<1>0. /\ status' = "freed" /\ loop = NoLoop /\ removal = NoLoop
      /\ nodes' = <<>> /\ arcs' = <<>> /\ nodeSet' = <<>> /\ arcSet' = <<>> /\ nameMap' = <<>>
      /\ UNCHANGED <<program, nodeCmpFn, arcCmpFn, loop, removal, unused, upset, reckless>>
  BY DEF freeGraph, May
<1>1. DOMAIN nodes' = {} /\ DOMAIN arcs' = {} /\ DOMAIN nameMap' = {}
  BY <1>0, EmptyFunction
<1>2. /\ nodes' \in [DOMAIN nodes' -> NodeBlocks] /\ arcs' \in [DOMAIN arcs' -> ArcBlocks]
      /\ nameMap' \in [DOMAIN nameMap' -> Nat]
  BY <1>0, <1>1, EmptyFunction
<1>3. Sorts'
  BY <1>0, <1>1, <1>2 DEF Sorts, Statuses
<1>4. BlocksOK' /\ UnusedOK'
  BY <1>0, <1>1, <1>2, EmptySet DEF BlocksOK, UnusedOK
<1>5. IntactOK' /\ WholeOK' /\ RemovalOK' /\ LoopOK'
  BY <1>0 DEF IntactOK, WholeOK, RemovalOK, LoopOK
<1> QED
  BY <1>3, <1>4, <1>5

\* Neighbors.  The comparison of nodes is transitive.
LEMMA NodeOrderTransitive ==
    ASSUME NEW fn, NEW ns, NEW l, NEW m, NEW n,
           ns[l].name \in Int, ns[m].name \in Int, ns[n].name \in Int,
           nodeOrdering(fn, ns, l, m) < 0, nodeOrdering(fn, ns, m, n) < 0
    PROVE  nodeOrdering(fn, ns, l, n) < 0
  BY DEF nodeOrdering, Sign

\* A search that finds nothing ends in a gap.
LEMMA GapThere ==
    ASSUME NEW n \in Nat, NEW c, \A p \in 1..n : c[p] \in Int /\ c[p] # 0
    PROVE  \E j \in 0..n : (j = 0 \/ c[j] > 0) /\ (j = n \/ c[j + 1] < 0)
<1> DEFINE Ends == {j \in 0..n : j = n \/ c[j + 1] < 0}
<1>1. Ends \in SUBSET Nat /\ n \in Ends
  OBVIOUS
<1> DEFINE j == Min(Ends)
<1>2. j \in Ends /\ \A y \in Ends : j <= y
  BY <1>1, LeastIn
<1>3. j \in 0..n /\ (j = n \/ c[j + 1] < 0)
  BY <1>2
<1>4. ASSUME j # 0 PROVE c[j] > 0
  <2>1. j - 1 \in 0..n /\ j - 1 \notin Ends /\ (j - 1) + 1 = j /\ j \in 1..n
    BY <1>2, <1>3, <1>4
  <2>2. ~(c[j] < 0)
    BY <2>1
  <2> HIDE DEF j
  <2> QED
    BY <2>1, <2>2
<1> HIDE DEF j
<1> QED
  BY <1>3, <1>4

\* The keys of s stand so that each is below all that come after it; the gap at j is
\* the place of key d, and t has it there.
Stands(s, below) == \A p, q \in 1..Len(s) : p < q => s[p].key \in below[s[q].key]
Transitive(below, K) == \A k, l, m \in K : k \in below[l] /\ l \in below[m] => k \in below[m]
Fits(s, d, below, j) == /\ j = 0 \/ s[j].key \in below[d]
                        /\ j = Len(s) \/ d \in below[s[j + 1].key]
PutAt(t, s, j, d) == t = InsertAt(s, j + 1, Entry(FreshCell(s), d))

\* A key put into the gap stands there in order.
LEMMA InGap ==
    ASSUME NEW s \in Seq(Elements), NEW d \in Nat, NEW below, Stands(s, below),
           Transitive(below, Keys(s) \cup {d}),
           NEW j \in 0..Len(s), Fits(s, d, below, j), NEW t, PutAt(t, s, j, d)
    PROVE  t \in Seq(Elements) /\ Stands(t, below) /\ Keys(t) = Keys(s) \cup {d}
<1> DEFINE e == Entry(FreshCell(s), d)
<1>1. e \in Elements /\ e.key = d
  BY CellIsFresh DEF Entry, Elements
<1> HIDE DEF e
<1>2. /\ t \in Seq(Elements) /\ Len(t) = Len(s) + 1 /\ Len(s) \in Nat
      /\ \A p \in 1..Len(s) + 1 :
             t[p] = IF p < j + 1 THEN s[p] ELSE IF p = j + 1 THEN e ELSE s[p - 1]
  <2>1. j + 1 \in 1..Len(s) + 1
    OBVIOUS
  <2>2. t = InsertAt(s, j + 1, e)
    BY DEF e, PutAt
  <2> DEFINE at == j + 1
  <2>3. at \in 1..Len(s) + 1 /\ t = InsertAt(s, at, e)
    BY <2>1, <2>2
  <2> HIDE DEF at
  <2>4. /\ t \in Seq(Elements) /\ Len(t) = Len(s) + 1
        /\ \A p \in 1..Len(s) + 1 :
               t[p] = IF p < at THEN s[p] ELSE IF p = at THEN e ELSE s[p - 1]
    <3>1. s \in Seq(Elements) /\ e \in Elements /\ at \in 1..Len(s) + 1
      BY <1>1, <2>3
    <3>2. ASSUME NEW x \in Elements, NEW m \in 1..Len(s) + 1
          PROVE  /\ InsertAt(s, m, x) \in Seq(Elements) /\ Len(InsertAt(s, m, x)) = Len(s) + 1
                 /\ \A p \in 1..Len(s) + 1 : InsertAt(s, m, x)[p] =
                        IF p < m THEN s[p] ELSE IF p = m THEN x ELSE s[p - 1]
      BY InsertAtElements
    <3> QED
      BY <2>3, <3>1, <3>2
  <2>5. Len(s) \in Nat
    OBVIOUS
  <2> QED
    BY <2>4, <2>5 DEF at
<1>3. \A p, q \in 1..Len(s) : p < q => s[p].key \in below[s[q].key]
  BY DEF Stands
<1>9. \A p \in 1..Len(s) : s[p].key \in Keys(s) \cup {d}
  BY DEF Keys
<1>0. \A k, l, m \in Keys(s) \cup {d} : k \in below[l] /\ l \in below[m] => k \in below[m]
  BY DEF Transitive
<1>4. ASSUME NEW p \in 1..Len(s), p <= j PROVE s[p].key \in below[d]
  <2>1. j \in 1..Len(s) /\ s[j].key \in below[d]
    BY <1>4 DEF Fits
  <2>2. p = j \/ s[p].key \in below[s[j].key]
    BY <1>3, <1>4, <2>1
  <2> QED
    BY <1>0, <1>9, <2>1, <2>2
<1>5. ASSUME NEW p \in 1..Len(s), p > j PROVE d \in below[s[p].key]
  <2>1. j + 1 \in 1..Len(s) /\ d \in below[s[j + 1].key]
    BY <1>5 DEF Fits
  <2>2. p = j + 1 \/ s[j + 1].key \in below[s[p].key]
    BY <1>3, <1>5, <2>1
  <2> QED
    BY <1>0, <1>9, <2>1, <2>2
<1>6. ASSUME NEW p \in 1..Len(t), NEW q \in 1..Len(t), p < q
      PROVE  t[p].key \in below[t[q].key]
  <2>0. /\ p \in Int /\ q \in Int /\ j \in Int /\ Len(s) \in Nat
        /\ p \in 1..Len(s) + 1 /\ q \in 1..Len(s) + 1
    BY <1>2
  <2>1. CASE q < j + 1
    <3>1. p \in 1..Len(s) /\ q \in 1..Len(s) /\ p < j + 1
      BY <2>0, <1>6, <2>1
    <3>2. t[p] = s[p] /\ t[q] = s[q]
      BY <1>2, <2>0, <2>1, <3>1
    <3> QED
      BY <3>1, <3>2, <1>3, <1>6
  <2>2. CASE q = j + 1
    <3>1. t[p] = s[p] /\ p \in 1..Len(s) /\ p <= j /\ t[q] = e
      BY <1>2, <1>6, <2>2
    <3> QED
      BY <3>1, <1>1, <1>4
  <2>3. CASE q > j + 1 /\ p < j + 1
    <3>1. p \in 1..Len(s) /\ q - 1 \in 1..Len(s) /\ p < q - 1 /\ ~(q < j + 1) /\ q # j + 1
      BY <2>0, <1>6, <2>3
    <3>2. t[p] = s[p] /\ t[q] = s[q - 1]
      BY <1>2, <2>0, <2>3, <3>1
    <3> QED
      BY <3>1, <3>2, <1>3
  <2>4. CASE q > j + 1 /\ p = j + 1
    <3>1. t[p] = e /\ t[q] = s[q - 1] /\ q - 1 \in 1..Len(s) /\ q - 1 > j
      BY <1>2, <1>6, <2>4
    <3> QED
      BY <3>1, <1>1, <1>5
  <2>5. CASE q > j + 1 /\ p > j + 1
    <3>1. /\ t[p] = s[p - 1] /\ p - 1 \in 1..Len(s) /\ t[q] = s[q - 1] /\ q - 1 \in 1..Len(s)
          /\ p - 1 < q - 1
      BY <1>2, <1>6, <2>5
    <3> QED
      BY <3>1, <1>3
  <2>6. p \in Int /\ q \in Int /\ j \in Int
    BY <1>2
  <2> QED
    BY <2>1, <2>2, <2>3, <2>4, <2>5, <2>6
<1>7. Stands(t, below)
  BY <1>6 DEF Stands
<1>8. Keys(t) = Keys(s) \cup {d}
  <2>1. ASSUME NEW k \in Keys(t) PROVE k \in Keys(s) \cup {d}
    <3>1. PICK p \in 1..Len(t) : k = t[p].key
      BY <2>1 DEF Keys
    <3>2. p < j + 1 => p \in 1..Len(s) /\ k = s[p].key
      BY <1>2, <3>1
    <3>3. p = j + 1 => k = d
      BY <1>1, <1>2, <3>1
    <3>4. p > j + 1 => p - 1 \in 1..Len(s) /\ k = s[p - 1].key
      BY <1>2, <3>1
    <3>5. p < j + 1 \/ p = j + 1 \/ p > j + 1
      BY <1>2, <3>1
    <3> QED
      BY <3>2, <3>3, <3>4, <3>5 DEF Keys
  <2>2. ASSUME NEW p \in 1..Len(s) PROVE s[p].key \in Keys(t)
    <3>1. CASE p < j + 1
      <4>1. p \in 1..Len(t) /\ t[p] = s[p]
        BY <1>2, <3>1
      <4> QED
        BY <4>1 DEF Keys
    <3>2. CASE p >= j + 1
      <4>1. p + 1 \in 1..Len(t) /\ t[p + 1] = s[p]
        BY <1>2, <3>2
      <4> QED
        BY <4>1 DEF Keys
    <3> QED
      BY <3>1, <3>2
  <2>3. d \in Keys(t)
    <3>1. j + 1 \in 1..Len(t) /\ t[j + 1] = e
      BY <1>2
    <3> QED
      BY <3>1, <1>1 DEF Keys
  <2> QED
    BY <2>1, <2>2, <2>3 DEF Keys
<1> QED
  BY <1>2, <1>7, <1>8

\* The nodes of K below each, and the gap of node d.
NodesBelow(K, fn, ns) == [k \in K |-> {l \in K : nodeOrdering(fn, ns, l, k) < 0}]
NodeGapAt(s, d, fn, ns, j) ==
    /\ j = 0 \/ nodeOrdering(fn, ns, d, s[j].key) > 0
    /\ j = Len(s) \/ nodeOrdering(fn, ns, d, s[j + 1].key) < 0

\* Nodes in order stand, each above those below it.
LEMMA NodesStand ==
    ASSUME NEW s \in Seq(Elements), NEW fn, NEW ns, NEW K, Keys(s) \subseteq K
    PROVE  NodesOrdered(s, fn, ns) <=> Stands(s, NodesBelow(K, fn, ns))
<1>1. \A p \in 1..Len(s) : s[p].key \in K
  BY DEF Keys
<1>2. \A p, q \in 1..Len(s) :
          nodeOrdering(fn, ns, s[p].key, s[q].key) < 0 <=> s[p].key \in NodesBelow(K, fn, ns)[s[q].key]
  BY <1>1 DEF NodesBelow
<1>3. NodesOrdered(s, fn, ns) <=>
          \A p, q \in 1..Len(s) : p < q => nodeOrdering(fn, ns, s[p].key, s[q].key) < 0
  BY DEF NodesOrdered, Ordered
<1> QED
  BY <1>2, <1>3 DEF Stands

\* A node put into its gap stands there in order.
LEMMA NodeInGap ==
    ASSUME NEW s \in Seq(Elements), NEW fn, NEW ns, NodesOrdered(s, fn, ns),
           NEW d \in Nat, ns[d].name \in Int, \A p \in 1..Len(s) : ns[s[p].key].name \in Int,
           NEW j \in 0..Len(s), NodeGapAt(s, d, fn, ns, j), NEW t, PutAt(t, s, j, d)
    PROVE  t \in Seq(Elements) /\ NodesOrdered(t, fn, ns) /\ Keys(t) = Keys(s) \cup {d}
<1> DEFINE K == Keys(s) \cup {d}  below == NodesBelow(K, fn, ns)
<1>1. Keys(s) \subseteq K /\ d \in K /\ \A k \in K : ns[k].name \in Int
  BY DEF Keys
<1>2. \A p \in 1..Len(s) : s[p].key \in K
  BY DEF Keys
<1> HIDE DEF K
<1>3. \A k, l \in K : l \in below[k] <=> nodeOrdering(fn, ns, l, k) < 0
  BY DEF NodesBelow
<1>4. Stands(s, below)
  BY <1>1, NodesStand
<1>5. Transitive(below, K)
  <2> SUFFICES ASSUME NEW k \in K, NEW l \in K, NEW m \in K, k \in below[l], l \in below[m]
               PROVE  k \in below[m]
    BY DEF Transitive
  <2> HIDE DEF below
  <2>1. nodeOrdering(fn, ns, k, m) < 0
    BY <1>1, <1>3, NodeOrderTransitive
  <2> QED
    BY <1>3, <2>1
<1>6. Fits(s, d, below, j)
  <2>1. j # 0 => j \in 1..Len(s) /\ nodeOrdering(fn, ns, s[j].key, d) < 0
    <3> SUFFICES ASSUME j # 0 PROVE j \in 1..Len(s) /\ nodeOrdering(fn, ns, s[j].key, d) < 0
      OBVIOUS
    <3>1. j \in 1..Len(s)
      OBVIOUS
    <3> QED
      BY <3>1, NodeOrderFacts DEF NodeGapAt
  <2>2. j # Len(s) => j + 1 \in 1..Len(s) /\ nodeOrdering(fn, ns, d, s[j + 1].key) < 0
    BY DEF NodeGapAt
  <2> HIDE DEF below
  <2> QED
    BY <1>1, <1>2, <1>3, <2>1, <2>2 DEF Fits
<1> HIDE DEF below
<1>7. t \in Seq(Elements) /\ Stands(t, below) /\ Keys(t) = Keys(s) \cup {d}
  BY <1>4, <1>5, <1>6, InGap DEF K
<1>8. Keys(t) \subseteq K
  BY <1>7 DEF K
<1> QED
  BY <1>7, <1>8, NodesStand DEF below

\* addSet of a node of the graph: it is in the set then, which keeps its order.
LEMMA NodeAdded ==
    ASSUME NEW s \in Seq(Elements), NEW fn, NEW ns, NodesOrdered(s, fn, ns),
           NEW d \in DOMAIN ns, DOMAIN ns \subseteq Nat, Keys(s) \subseteq DOMAIN ns,
           \A m \in DOMAIN ns : ns[m].name \in Int,
           \A l, m \in DOMAIN ns : ns[l].name = ns[m].name => l = m
    PROVE  /\ NodesWith(s, d, fn, ns) # {}
           /\ \A t \in NodesWith(s, d, fn, ns) :
                  t \in Seq(Elements) /\ NodesOrdered(t, fn, ns) /\ Keys(t) = Keys(s) \cup {d}
<1>1. /\ Len(s) \in Nat /\ d \in Nat /\ ns[d].name \in Int
      /\ \A p \in 1..Len(s) : s[p].key \in DOMAIN ns /\ ns[s[p].key].name \in Int
  BY DEF Keys
<1>2. CASE \E i \in 1..Len(s) : ns[s[i].key].name = ns[d].name
  <2>1. PICK i \in 1..Len(s) : ns[s[i].key].name = ns[d].name
    BY <1>2
  <2>2. \A t \in NodesWith(s, d, fn, ns) : t = s
    BY <1>1, <2>1, NodeFound
  <2>3. s[i].key = d
    BY <1>1, <2>1
  <2>4. Keys(s) = Keys(s) \cup {d}
    BY <2>1, <2>3 DEF Keys
  <2>5. nodeOrdering(fn, ns, d, s[i].key) = 0
    BY <1>1, <2>1, NodeOrderFacts
  <2>6. s \in NodesWith(s, d, fn, ns)
    BY <2>1, <2>5 DEF NodesWith, Added, Hits
  <2> QED
    BY <2>2, <2>4, <2>6
<1>3. CASE ~ \E i \in 1..Len(s) : ns[s[i].key].name = ns[d].name
  <2>1. \A p \in 1..Len(s) : /\ nodeOrdering(fn, ns, d, s[p].key) \in Int
                             /\ nodeOrdering(fn, ns, d, s[p].key) # 0
    BY <1>1, <1>3, NodeOrderFacts
  <2> DEFINE c == [p \in 1..Len(s) |-> nodeOrdering(fn, ns, d, s[p].key)]
  <2>2. \A p \in 1..Len(s) : c[p] = nodeOrdering(fn, ns, d, s[p].key)
    OBVIOUS
  <2> HIDE DEF c
  <2>3. PICK j \in 0..Len(s) : (j = 0 \/ c[j] > 0) /\ (j = Len(s) \/ c[j + 1] < 0)
    <3>1. \A p \in 1..Len(s) : c[p] \in Int /\ c[p] # 0
      BY <2>1, <2>2
    <3> QED
      BY ONLY <1>1, <3>1, GapThere
  <2>4. /\ j = 0 \/ nodeOrdering(fn, ns, d, s[j].key) > 0
        /\ j = Len(s) \/ nodeOrdering(fn, ns, d, s[j + 1].key) < 0
    <3>1. j # 0 => j \in 1..Len(s)
      BY <1>1
    <3>2. j # Len(s) => j + 1 \in 1..Len(s)
      BY <1>1
    <3> QED
      BY <2>2, <2>3, <3>1, <3>2
  <2>5. InsertAt(s, j + 1, Entry(FreshCell(s), d)) \in NodesWith(s, d, fn, ns)
    BY <2>4 DEF NodesWith, Added, Gaps
  <2>6. ASSUME NEW t \in NodesWith(s, d, fn, ns)
        PROVE  t \in Seq(Elements) /\ NodesOrdered(t, fn, ns) /\ Keys(t) = Keys(s) \cup {d}
    <3>1. PICK k \in 0..Len(s) : NodeGapAt(s, d, fn, ns, k) /\ PutAt(t, s, k, d)
      BY <2>1, <2>6 DEF NodesWith, Added, Hits, Gaps, NodeGapAt, PutAt
    <3>2. s \in Seq(Elements) /\ NodesOrdered(s, fn, ns) /\ k \in 0..Len(s)
      OBVIOUS
    <3>3. d \in Nat /\ ns[d].name \in Int /\ \A p \in 1..Len(s) : ns[s[p].key].name \in Int
      BY <1>1
    <3> QED
      BY ONLY <3>1, <3>2, <3>3, NodeInGap
  <2> QED
    BY <2>5, <2>6
<1> QED
  BY <1>2, <1>3

\* The arcs of K below each, and the gap of arc d.
ArcsBelow(K, fn, ns, ar) == [k \in K |-> {l \in K : arcOrdering(fn, ns, ar, l, k) < 0}]
ArcGapAt(s, d, fn, ns, ar, j) ==
    /\ j = 0 \/ arcOrdering(fn, ns, ar, d, s[j].key) > 0
    /\ j = Len(s) \/ arcOrdering(fn, ns, ar, d, s[j + 1].key) < 0

\* Arcs in order stand, each above those below it.
LEMMA ArcsStand ==
    ASSUME NEW s \in Seq(Elements), NEW fn, NEW ns, NEW ar, NEW K, Keys(s) \subseteq K
    PROVE  ArcsOrdered(s, fn, ns, ar) <=> Stands(s, ArcsBelow(K, fn, ns, ar))
<1>1. \A p \in 1..Len(s) : s[p].key \in K
  BY DEF Keys
<1>2. \A p, q \in 1..Len(s) :
          arcOrdering(fn, ns, ar, s[p].key, s[q].key) < 0 <=> s[p].key \in ArcsBelow(K, fn, ns, ar)[s[q].key]
  BY <1>1 DEF ArcsBelow
<1>3. ArcsOrdered(s, fn, ns, ar) <=>
          \A p, q \in 1..Len(s) : p < q => arcOrdering(fn, ns, ar, s[p].key, s[q].key) < 0
  BY DEF ArcsOrdered, Ordered
<1> QED
  BY <1>2, <1>3 DEF Stands

\* The order of arcs is transitive.
LEMMA ArcOrderTransitive ==
    ASSUME NEW fn, NEW ns, NEW ar, NEW a \in Int, NEW b \in Int, NEW c \in Int,
           ar[a].cost \in Int, ar[b].cost \in Int, ar[c].cost \in Int,
           ns[ar[a].start].name \in Int, ns[ar[b].start].name \in Int,
           ns[ar[c].start].name \in Int, ns[ar[a].end].name \in Int,
           ns[ar[b].end].name \in Int, ns[ar[c].end].name \in Int,
           arcOrdering(fn, ns, ar, a, b) < 0, arcOrdering(fn, ns, ar, b, c) < 0
    PROVE  arcOrdering(fn, ns, ar, a, c) < 0
<1> DEFINE s1 == ns[ar[a].start].name  s2 == ns[ar[b].start].name  s3 == ns[ar[c].start].name
           e1 == ns[ar[a].end].name    e2 == ns[ar[b].end].name    e3 == ns[ar[c].end].name
           c1 == ar[a].cost            c2 == ar[b].cost            c3 == ar[c].cost
           D(s, u, e, g, k, l, m, n) ==
               IF Sign(s, u) # 0 THEN Sign(s, u) ELSE IF Sign(e, g) # 0 THEN Sign(e, g)
               ELSE IF Sign(k, l) # 0 THEN Sign(k, l) ELSE Sign(m, n)
<1>1. /\ s1 \in Int /\ s2 \in Int /\ s3 \in Int /\ e1 \in Int /\ e2 \in Int /\ e3 \in Int
      /\ c1 \in Int /\ c2 \in Int /\ c3 \in Int
  OBVIOUS
<1>2. CASE fn = "default"
  <2>1. /\ arcOrdering(fn, ns, ar, a, b) = D(s1, s2, e1, e2, c1, c2, a, b)
        /\ arcOrdering(fn, ns, ar, b, c) = D(s2, s3, e2, e3, c2, c3, b, c)
        /\ arcOrdering(fn, ns, ar, a, c) = D(s1, s3, e1, e3, c1, c3, a, c)
    BY <1>2 DEF arcOrdering, defaultArcOrdering
  <2> HIDE DEF s1, s2, s3, e1, e2, e3, c1, c2, c3
  <2>2. D(s1, s2, e1, e2, c1, c2, a, b) < 0 /\ D(s2, s3, e2, e3, c2, c3, b, c) < 0
    BY <2>1
  <2>3. D(s1, s3, e1, e3, c1, c3, a, c) < 0
    BY <1>1, <2>2, SMTT(30) DEF Sign
  <2> QED
    BY <2>1, <2>3
<1>3. CASE fn # "default"
  <2>1. /\ arcOrdering(fn, ns, ar, a, b) = Sign(c1, c2)
        /\ arcOrdering(fn, ns, ar, b, c) = Sign(c2, c3)
        /\ arcOrdering(fn, ns, ar, a, c) = Sign(c1, c3)
    BY <1>3 DEF arcOrdering
  <2> HIDE DEF s1, s2, s3, e1, e2, e3, c1, c2, c3
  <2> QED
    BY <1>1, <2>1 DEF Sign
<1> QED
  BY <1>2, <1>3

\* The arcs of K have numbers for costs and names.
ArcNumbers(K, ns, ar) ==
    \A a \in K : /\ ar[a].cost \in Int
                 /\ ns[ar[a].start].name \in Int /\ ns[ar[a].end].name \in Int

\* An arc put into its gap stands there in order.
LEMMA ArcInGap ==
    ASSUME NEW s \in Seq(Elements), NEW fn, NEW ns, NEW ar, ArcsOrdered(s, fn, ns, ar),
           NEW d \in Nat, ArcNumbers(Keys(s) \cup {d}, ns, ar),
           NEW j \in 0..Len(s), ArcGapAt(s, d, fn, ns, ar, j), NEW t, PutAt(t, s, j, d)
    PROVE  t \in Seq(Elements) /\ ArcsOrdered(t, fn, ns, ar) /\ Keys(t) = Keys(s) \cup {d}
<1> DEFINE K == Keys(s) \cup {d}  below == ArcsBelow(K, fn, ns, ar)
<1>1. /\ Keys(s) \subseteq K /\ d \in K
      /\ \A a \in K : /\ ar[a].cost \in Int /\ ns[ar[a].start].name \in Int
                      /\ ns[ar[a].end].name \in Int
  BY DEF ArcNumbers
<1>2. \A p \in 1..Len(s) : s[p].key \in K /\ s[p].key \in Int
  BY InElements DEF Keys
<1>9. \A k \in K : k \in Int
  BY <1>2 DEF Keys
<1> HIDE DEF K
<1>3. \A k, l \in K : l \in below[k] <=> arcOrdering(fn, ns, ar, l, k) < 0
  BY DEF ArcsBelow
<1>4. Stands(s, below)
  BY <1>1, ArcsStand
<1>5. Transitive(below, K)
  <2> SUFFICES ASSUME NEW k \in K, NEW l \in K, NEW m \in K, k \in below[l], l \in below[m]
               PROVE  k \in below[m]
    BY DEF Transitive
  <2> HIDE DEF below
  <2>0. k \in Int /\ l \in Int /\ m \in Int
    BY <1>9
  <2>1. arcOrdering(fn, ns, ar, k, l) < 0 /\ arcOrdering(fn, ns, ar, l, m) < 0
    BY <1>3
  <2>2. arcOrdering(fn, ns, ar, k, m) < 0
    BY <1>1, <2>0, <2>1, ArcOrderTransitive
  <2> QED
    BY <1>3, <2>2
<1>6. Fits(s, d, below, j)
  <2>1. j # 0 => j \in 1..Len(s) /\ arcOrdering(fn, ns, ar, s[j].key, d) < 0
    <3> SUFFICES ASSUME j # 0 PROVE j \in 1..Len(s) /\ arcOrdering(fn, ns, ar, s[j].key, d) < 0
      OBVIOUS
    <3>1. j \in 1..Len(s)
      OBVIOUS
    <3>2. arcOrdering(fn, ns, ar, d, s[j].key) > 0
      BY DEF ArcGapAt
    <3> DEFINE k == s[j].key
    <3>3. k \in Int /\ k \in K /\ d \in Int
      BY <1>2, <3>1
    <3> HIDE DEF k
    <3>4. arcOrdering(fn, ns, ar, k, d) < 0 <=> arcOrdering(fn, ns, ar, d, k) > 0
      BY <1>1, <3>3, ArcOrderFacts
    <3> QED
      BY <3>1, <3>2, <3>4 DEF k
  <2>2. j # Len(s) => j + 1 \in 1..Len(s) /\ arcOrdering(fn, ns, ar, d, s[j + 1].key) < 0
    BY DEF ArcGapAt
  <2> HIDE DEF below
  <2> QED
    BY <1>1, <1>2, <1>3, <2>1, <2>2 DEF Fits
<1> HIDE DEF below
<1>7. t \in Seq(Elements) /\ Stands(t, below) /\ Keys(t) = Keys(s) \cup {d}
  BY <1>4, <1>5, <1>6, InGap DEF K
<1>8. Keys(t) \subseteq K
  BY <1>7 DEF K
<1> QED
  BY <1>7, <1>8, ArcsStand DEF below

\* addSet of an arc that compares different from all others: the set keeps its order.
LEMMA ArcAdded ==
    ASSUME NEW s \in Seq(Elements), NEW fn, NEW ns, NEW ar, ArcsOrdered(s, fn, ns, ar),
           NEW d \in Nat, ArcNumbers(Keys(s) \cup {d}, ns, ar),
           \A b \in Keys(s) : arcOrdering(fn, ns, ar, d, b) # 0,
           NEW t \in ArcsWith(s, d, fn, ns, ar)
    PROVE  ArcsOrdered(t, fn, ns, ar) /\ PutIn(t, s, d)
<1>1. \A i \in 1..Len(s) : arcOrdering(fn, ns, ar, d, s[i].key) # 0
  BY DEF Keys
<1>2. PICK j \in 0..Len(s) : ArcGapAt(s, d, fn, ns, ar, j) /\ PutAt(t, s, j, d)
  BY <1>1 DEF ArcsWith, Added, Hits, Gaps, ArcGapAt, PutAt
<1>3. ArcsOrdered(t, fn, ns, ar)
  BY <1>2, ArcInGap
<1> QED
  BY <1>2, <1>3 DEF PutIn, PutAt

\* Arcs that are the same, between nodes of the same names, stand in the same order.
LEMMA ArcsOrderKept ==
    ASSUME NEW s, NEW fn, NEW ns, NEW ms, NEW ar, NEW br, ArcsOrdered(s, fn, ns, ar),
           \A a \in Keys(s) : /\ br[a] = ar[a]
                              /\ ms[ar[a].start].name = ns[ar[a].start].name
                              /\ ms[ar[a].end].name = ns[ar[a].end].name
    PROVE  ArcsOrdered(s, fn, ms, br)
<1>1. \A i \in 1..Len(s) : s[i].key \in Keys(s)
  BY DEF Keys
<1>2. ASSUME NEW a \in Keys(s), NEW b \in Keys(s)
      PROVE  arcOrdering(fn, ms, br, a, b) = arcOrdering(fn, ns, ar, a, b)
  BY DEF arcOrdering, defaultArcOrdering
<1> QED
  BY <1>1, <1>2 DEF ArcsOrdered, Ordered

\* Taking one element out leaves the others in their order.
LEMMA OneOutStands ==
    ASSUME NEW s, IsSet(s), NEW i \in 1..Len(s), NEW t \in OneOut(s, i)
    PROVE  /\ \A fn, ns : NodesOrdered(s, fn, ns) => NodesOrdered(t, fn, ns)
           /\ \A fn, ns, ar : ArcsOrdered(s, fn, ns, ar) => ArcsOrdered(t, fn, ns, ar)
<1>1. PICK was \in [1..Len(t) -> 1..Len(s)] : LessOne(s, t, i, was)
  BY OneLess
<1>2. \A q \in 1..Len(t) : was[q] \in 1..Len(s) /\ t[q].key = s[was[q]].key
  BY <1>1 DEF LessOne
<1>3. \A q1, q2 \in 1..Len(t) : q1 < q2 => was[q1] < was[q2]
  BY <1>1 DEF LessOne
<1>4. ASSUME NEW fn, NEW ns, NodesOrdered(s, fn, ns) PROVE NodesOrdered(t, fn, ns)
  BY <1>2, <1>3, <1>4 DEF NodesOrdered, Ordered
<1>5. ASSUME NEW fn, NEW ns, NEW ar, ArcsOrdered(s, fn, ns, ar) PROVE ArcsOrdered(t, fn, ns, ar)
  BY <1>2, <1>3, <1>5 DEF ArcsOrdered, Ordered
<1> QED
  BY <1>4, <1>5

\* Nodes of the same names stand in the same order.
LEMMA NodesOrderKept ==
    ASSUME NEW s, NEW fn, NEW ns, NEW ms, NodesOrdered(s, fn, ns),
           \A i \in 1..Len(s) : ms[s[i].key].name = ns[s[i].key].name
    PROVE  NodesOrdered(s, fn, ms)
<1>1. \A i, j \in 1..Len(s) :
          nodeOrdering(fn, ms, s[i].key, s[j].key) = nodeOrdering(fn, ns, s[i].key, s[j].key)
  BY DEF nodeOrdering
<1> QED
  BY <1>1 DEF NodesOrdered, Ordered

\* addNode: a name that is known ends the search at its node, and the block that
\* was made is in no set; a new name goes to a place of its own, and so into the map.
LEMMA addNodeInv ==
    ASSUME GraphInv, NEW name \in Names, addNode(name)
    PROVE  GraphInv'
<1> USE DEF GraphInv
<1> DEFINE n == Min(unused.nodes)
           block == [name |-> name, arcs |-> <<>>, cmpFn |-> arcCmpFn]
           ns == With(nodes, n, block)
           known == name \in DOMAIN nameMap
           outcome == IF known THEN "error" ELSE "ok"
<1>0. /\ status = "ok" /\ removal = NoLoop /\ unused.nodes # {}
      /\ nodeSet' \in NodesWith(nodeSet, n, nodeCmpFn, ns)
      /\ nodes' = IF known /\ n \notin Keys(nodeSet') THEN nodes ELSE ns
      /\ IF known THEN nameMap' = nameMap ELSE nameMap' = With(nameMap, name, n)
      /\ unused' = [unused EXCEPT !.nodes = @ \ {n}]
      /\ UNCHANGED <<program, arcs, arcSet, nodeCmpFn, arcCmpFn, loop, removal, upset>>
      /\ Outcome(outcome)
  BY DEF addNode, May
<1>1. n \in unused.nodes /\ n \in 1..MaxNodes /\ n \in Nat
  <2>1. unused.nodes \in SUBSET (1..MaxNodes)
    BY DEF Sorts
  <2>2. unused.nodes \in SUBSET Nat
    BY <2>1, GraphAssumption
  <2>3. n \in unused.nodes
    BY <1>0, <2>2, LeastIn
  <2> QED
    BY <2>1, <2>2, <2>3
<1>2. n \notin DOMAIN nodes /\ n \notin Keys(nodeSet)
  BY <1>1 DEF UnusedOK
<1>3. block \in NodeBlocks
  BY DEF NodeBlocks, Sorts
<1>4. /\ ns \in [DOMAIN nodes \cup {n} -> NodeBlocks] /\ DOMAIN ns = DOMAIN nodes \cup {n}
      /\ ns[n] = block /\ \A m \in DOMAIN nodes : ns[m] = nodes[m]
  <2> HIDE DEF n, block
  <2>1. nodes \in [DOMAIN nodes -> NodeBlocks]
    BY DEF BlocksOK
  <2> QED
    BY <1>2, <1>3, <2>1 DEF With
<1>5. outcome \in {"ok", "error"}
  OBVIOUS
<1>6. ns[n].name = name /\ ns[n].arcs = <<>>
  BY <1>4
<1> HIDE DEF n, ns, block, outcome
<1>7. unused'.nodes = unused.nodes \ {n} /\ unused'.arcs = unused.arcs
  BY <1>0 DEF Sorts
<1>8. nameMap' \in [DOMAIN nameMap' -> Nat] /\ DOMAIN nameMap' \subseteq Names
  <2>1. CASE known
    BY <1>0, <2>1 DEF Sorts
  <2>2. CASE ~ known
    <3>1. nameMap \in [DOMAIN nameMap -> Nat] /\ DOMAIN nameMap \subseteq Names
      BY DEF Sorts
    <3>2. nameMap' \in [DOMAIN nameMap \cup {name} -> Nat]
      BY <1>0, <1>1, <2>2, <3>1 DEF With
    <3> QED
      BY <3>1, <3>2
  <2> QED
    BY <2>1, <2>2
<1>9. Sorts'
  BY <1>0, <1>5, <1>7, <1>8, Outcomes DEF Sorts, Statuses
<1>10. Changed(nodeSet, nodeSet')
  BY <1>0, <1>1, <1>2, NodesWithEither DEF Changed
<1>11. IsTree(nodeSet') /\ Keys(nodeSet') \subseteq Keys(nodeSet) \cup {n}
  <2>1. nodeSet' = nodeSet \/ PutIn(nodeSet', nodeSet, n)
    BY <1>0, NodesWithEither
  <2> QED
    BY <2>1, <1>1, <1>2, Inserted DEF PutIn, BlocksOK
<1>12. nodes' = nodes \/ nodes' = ns
  BY <1>0
<1>13. BlocksOK'
  BY <1>0, <1>1, <1>4, <1>6, <1>11, <1>12, EmptySet DEF BlocksOK
<1>14. UnusedOK'
  BY <1>0, <1>4, <1>6, <1>7, <1>11, <1>12, EmptySet DEF UnusedOK
<1>15. ASSUME ~ upset'
       PROVE  /\ Whole(nodes', arcs', nodeSet', arcSet', nameMap')
              /\ NodesOrdered(nodeSet', nodeCmpFn', nodes')
  <2>1. /\ Whole(nodes, arcs, nodeSet, arcSet, nameMap)
        /\ NodesOrdered(nodeSet, nodeCmpFn, nodes)
    BY <1>0, <1>15 DEF WholeOK, InOrder
  <2>2. \A i \in 1..Len(nodeSet) : /\ nodeSet[i].key \in DOMAIN nodes
                                   /\ ns[nodeSet[i].key].name = nodes[nodeSet[i].key].name
    BY <2>1, <1>4 DEF Whole, Keys
  <2>3. \A m \in DOMAIN nodes : nodes[m].name \in Int
    BY GraphAssumption DEF BlocksOK, NodeBlocks
  <2>4. nodeSet \in Seq(Elements) /\ Len(nodeSet) \in Nat
    BY DEF BlocksOK, IsTree
  <2>5. ns[n].name \in Int
    BY <1>6, GraphAssumption
  <2>6. CASE known
    <3>1. nameMap[name] \in DOMAIN nodes /\ nodes[nameMap[name]].name = name
      BY <2>1, <2>6 DEF Whole
    <3>2. PICK i \in 1..Len(nodeSet) : nodeSet[i].key = nameMap[name]
      BY <2>1, <3>1 DEF Whole, Keys
    <3>3. ns[nodeSet[i].key].name = ns[n].name
      BY <2>2, <3>1, <3>2, <1>6
    <3>4. NodesOrdered(nodeSet, nodeCmpFn, ns)
      BY <2>1, <2>2, NodesOrderKept
    <3>5. nodeSet' = nodeSet
      BY <1>0, <1>1, <2>2, <2>3, <2>4, <2>5, <3>3, <3>4, NodeFound
    <3> QED
      BY <1>0, <1>2, <2>1, <2>6, <3>5
  <2>7. CASE ~ known
    <3>1. \A m \in DOMAIN nodes : nodes[m].name # name
      BY <2>1, <2>7 DEF Whole
    <3>2. ASSUME NEW m \in Keys(nodeSet) PROVE nodeOrdering(nodeCmpFn, ns, n, m) # 0
      <4>1. m \in DOMAIN nodes
        BY <2>1 DEF Whole
      <4>2. ns[m].name = nodes[m].name
        BY <4>1, <1>4
      <4> QED
        BY <4>1, <4>2, <1>6, <2>3, <2>5, <3>1, NodeOrderFacts
    <3>3. NodesOrdered(nodeSet, nodeCmpFn, ns)
      BY <2>1, <2>2, NodesOrderKept
    <3>4. NodesOrdered(nodeSet', nodeCmpFn, ns) /\ Keys(nodeSet') = Keys(nodeSet) \cup {n}
      <4>1. n \in DOMAIN ns /\ DOMAIN ns \subseteq Nat /\ Keys(nodeSet) \subseteq DOMAIN ns
        BY <1>1, <1>4, <2>1, BlockSorts DEF Whole
      <4>2. \A m \in DOMAIN ns : ns[m].name \in Int
        BY <1>4, <2>3, <2>5
      <4>3. \A l, m \in DOMAIN nodes : nodes[l].name = nodes[m].name => l = m
        BY <2>1 DEF Whole
      <4>4. \A l, m \in DOMAIN ns : ns[l].name = ns[m].name => l = m
        BY <1>4, <1>6, <3>1, <4>3
      <4> QED
        BY <1>0, <2>4, <3>3, <4>1, <4>2, <4>4, NodeAdded
    <3>5. nodes' = ns /\ nameMap' = With(nameMap, name, n)
      BY <1>0, <2>7
    <3>6. /\ DOMAIN nameMap' = DOMAIN nameMap \cup {name} /\ nameMap'[name] = n
          /\ \A z \in DOMAIN nameMap : nameMap'[z] = nameMap[z]
      BY <3>5, <2>7 DEF With
    <3>7. Keys(nodeSet') = DOMAIN nodes'
      BY <2>1, <3>4, <3>5, <1>4 DEF Whole
    <3>8. \A a \in DOMAIN arcs : /\ arcs[a].start \in DOMAIN nodes /\ arcs[a].end \in DOMAIN nodes
      BY <2>1 DEF Whole
    <3>9. \A m \in DOMAIN nodes' : Keys(nodes'[m].arcs) = {a \in DOMAIN arcs : arcs[a].start = m}
      <4> SUFFICES ASSUME NEW m \in DOMAIN nodes'
                   PROVE  Keys(nodes'[m].arcs) = {a \in DOMAIN arcs : arcs[a].start = m}
        OBVIOUS
      <4>1. CASE m = n
        BY <4>1, <3>5, <3>8, <1>2, <1>6, EmptySet
      <4>2. CASE m # n
        <5>1. m \in DOMAIN nodes /\ nodes'[m] = nodes[m]
          BY <4>2, <3>5, <1>4
        <5> QED
          BY <5>1, <2>1 DEF Whole
      <4> QED
        BY <4>1, <4>2
    <3>10. \A m \in DOMAIN nodes' :
               nodes'[m].name \in DOMAIN nameMap' /\ nameMap'[nodes'[m].name] = m
      <4> SUFFICES ASSUME NEW m \in DOMAIN nodes'
                   PROVE  nodes'[m].name \in DOMAIN nameMap' /\ nameMap'[nodes'[m].name] = m
        OBVIOUS
      <4>1. CASE m = n
        BY <4>1, <3>5, <3>6, <1>6
      <4>2. CASE m # n
        <5>1. m \in DOMAIN nodes /\ nodes'[m] = nodes[m]
          BY <4>2, <3>5, <1>4
        <5> QED
          BY <5>1, <2>1, <3>6 DEF Whole
      <4> QED
        BY <4>1, <4>2
    <3>11. \A z \in DOMAIN nameMap' : nameMap'[z] \in DOMAIN nodes' /\ nodes'[nameMap'[z]].name = z
      <4> SUFFICES ASSUME NEW z \in DOMAIN nameMap'
                   PROVE  nameMap'[z] \in DOMAIN nodes' /\ nodes'[nameMap'[z]].name = z
        OBVIOUS
      <4>1. CASE z = name
        BY <4>1, <3>5, <3>6, <1>4, <1>6
      <4>2. CASE z # name
        <5>1. z \in DOMAIN nameMap /\ nameMap'[z] = nameMap[z]
          BY <4>2, <3>6
        <5> QED
          BY <5>1, <2>1, <3>5, <1>4 DEF Whole
      <4> QED
        BY <4>1, <4>2
    <3>12. Keys(arcSet') = DOMAIN arcs' /\ arcs' = arcs /\ DOMAIN nodes \subseteq DOMAIN nodes'
      BY <2>1, <1>0, <1>4, <3>5 DEF Whole
    <3>13. NodesOrdered(nodeSet', nodeCmpFn', nodes')
      BY <1>0, <3>4, <3>5
    <3> QED
      BY <3>7, <3>8, <3>9, <3>10, <3>11, <3>12, <3>13 DEF Whole
  <2> QED
    BY <2>6, <2>7
<1>19. ASSUME ~ upset' PROVE InOrder(nodes', arcs', nodeSet', arcSet', nodeCmpFn', arcCmpFn')
  <2>1. /\ Whole(nodes, arcs, nodeSet, arcSet, nameMap)
        /\ InOrder(nodes, arcs, nodeSet, arcSet, nodeCmpFn, arcCmpFn)
    BY <1>0, <1>19 DEF WholeOK
  <2>2. \A m \in DOMAIN nodes : m \in DOMAIN nodes' /\ nodes'[m] = nodes[m]
    BY <1>4, <1>12
  <2>3. ASSUME NEW t, NEW fn, Keys(t) \subseteq DOMAIN arcs, ArcsOrdered(t, fn, nodes, arcs)
        PROVE  ArcsOrdered(t, fn, nodes', arcs')
    <3>1. \A a \in Keys(t) : /\ arcs'[a] = arcs[a]
                             /\ nodes'[arcs[a].start].name = nodes[arcs[a].start].name
                             /\ nodes'[arcs[a].end].name = nodes[arcs[a].end].name
      BY <1>0, <2>1, <2>2, <2>3 DEF Whole
    <3> QED
      BY <2>3, <3>1, ArcsOrderKept
  <2>4. ArcsOrdered(arcSet', arcCmpFn', nodes', arcs')
    BY <1>0, <2>1, <2>3 DEF InOrder, Whole
  <2>5. ASSUME NEW m \in DOMAIN nodes' PROVE ArcsOrdered(nodes'[m].arcs, nodes'[m].cmpFn, nodes', arcs')
    <3>1. CASE m \in DOMAIN nodes
      <4>1. /\ ArcsOrdered(nodes[m].arcs, nodes[m].cmpFn, nodes, arcs)
            /\ Keys(nodes[m].arcs) \subseteq DOMAIN arcs
        BY <2>1, <3>1 DEF InOrder, Whole
      <4> QED
        BY <2>2, <2>3, <3>1, <4>1
    <3>2. CASE m \notin DOMAIN nodes
      <4>1. nodes'[m].arcs = <<>> /\ Len(<<>>) = 0
        BY <1>4, <1>6, <1>12, <3>2
      <4> QED
        BY <4>1 DEF ArcsOrdered, Ordered
    <3> QED
      BY <3>1, <3>2
  <2> QED
    BY <1>15, <1>19, <2>4, <2>5 DEF InOrder
<1>16. IntactOK' /\ WholeOK'
  BY <1>0, <1>5, <1>15, <1>19, Concluded
<1>17. RemovalOK'
  BY <1>0 DEF RemovalOK
<1>18. LoopOK'
  <2>1. ~ upset' => IsSet(nodeSet) /\ IsSet(arcSet) /\ Changed(arcSet, arcSet')
    BY <1>0, SetsDistinct DEF Changed
  <2> QED
    BY <2>1, <1>0, <1>5, <1>10, LoopKept
<1> QED
  BY <1>9, <1>13, <1>14, <1>16, <1>17, <1>18

\* Arcs between nodes of the same names compare the same.
LEMMA ArcOrderKept ==
    ASSUME NEW fn, NEW ns, NEW ms, NEW ar, NEW a, NEW b,
           ms[ar[a].start].name = ns[ar[a].start].name, ms[ar[a].end].name = ns[ar[a].end].name,
           ms[ar[b].start].name = ns[ar[b].start].name, ms[ar[b].end].name = ns[ar[b].end].name
    PROVE  arcOrdering(fn, ms, ar, a, b) = arcOrdering(fn, ns, ar, a, b)
  BY DEF arcOrdering, defaultArcOrdering

\* addSet adds its key or nothing.
LEMMA EitherKeys ==
    ASSUME NEW s, IsTree(s), NEW t, NEW k \in Nat, k \notin Keys(s), t = s \/ PutIn(t, s, k)
    PROVE  /\ IsTree(t) /\ Keys(t) \subseteq Keys(s) \cup {k} /\ Changed(s, t)
           /\ PutIn(t, s, k) => Keys(t) = Keys(s) \cup {k}
<1>1. CASE PutIn(t, s, k)
  <2>1. PICK j \in 0..Len(s) : t = InsertAt(s, j + 1, Entry(FreshCell(s), k))
    BY <1>1 DEF PutIn
  <2>2. IsTree(t) /\ Keys(t) = Keys(s) \cup {k}
    BY <2>1, Inserted
  <2> QED
    BY <1>1, <2>2 DEF Changed
<1>2. CASE ~ PutIn(t, s, k)
  BY <1>2 DEF Changed
<1> QED
  BY <1>1, <1>2

\* addArc: the arc compares different from all others, so both sets get it.
LEMMA addArcInv ==
    ASSUME GraphInv, NEW n1 \in DOMAIN nodes, NEW n2 \in DOMAIN nodes, addArc(n1, n2)
    PROVE  GraphInv'
<1> USE DEF GraphInv
<1>00. PICK a \in unused.arcs :
          /\ unused' = [unused EXCEPT !.arcs = @ \ {a}]
          /\ arcs' = With(arcs, a, [start |-> n1, end |-> n2, cost |-> 0])
          /\ arcSet' \in ArcsWith(arcSet, a, arcCmpFn, nodes, arcs')
          /\ \E s \in ArcsWith(nodes[n1].arcs, a, nodes[n1].cmpFn, nodes, arcs') :
                 nodes' = [nodes EXCEPT ![n1].arcs = s]
  BY DEF addArc
<1>01. PICK s \in ArcsWith(nodes[n1].arcs, a, nodes[n1].cmpFn, nodes, arcs') :
          nodes' = [nodes EXCEPT ![n1].arcs = s]
  BY <1>00
<1>0. /\ status = "ok" /\ removal = NoLoop /\ Outcome("ok")
      /\ UNCHANGED <<program, nodeSet, nameMap, nodeCmpFn, arcCmpFn, loop, removal>>
      /\ upset' = (upset \/ ~ToldApart(nodes', arcs', arcCmpFn))
  BY DEF addArc, May
<1>1. a \in 1..MaxArcs /\ a \in Nat
  BY GraphAssumption DEF Sorts
<1>2. /\ a \notin DOMAIN arcs /\ a \notin Keys(arcSet)
      /\ \A n \in DOMAIN nodes : a \notin Keys(nodes[n].arcs)
  BY DEF UnusedOK
<1>3. [start |-> n1, end |-> n2, cost |-> 0] \in ArcBlocks
  BY DEF ArcBlocks, BlocksOK
<1>4. /\ DOMAIN arcs' = DOMAIN arcs \cup {a} /\ arcs' \in [DOMAIN arcs' -> ArcBlocks]
      /\ arcs'[a].start = n1 /\ arcs'[a].end = n2
      /\ \A b \in DOMAIN arcs : arcs'[b] = arcs[b]
  <2> DEFINE block == [start |-> n1, end |-> n2, cost |-> 0]
  <2>1. block.start = n1 /\ block.end = n2 /\ block \in ArcBlocks
    BY <1>3
  <2> HIDE DEF block
  <2>2. arcs \in [DOMAIN arcs -> ArcBlocks] /\ arcs' = With(arcs, a, block)
    BY <1>00 DEF BlocksOK, block
  <2>3. /\ DOMAIN arcs' = DOMAIN arcs \cup {a} /\ arcs' \in [DOMAIN arcs' -> ArcBlocks]
        /\ arcs'[a] = block /\ \A b \in DOMAIN arcs : arcs'[b] = arcs[b]
    BY ONLY <2>1, <2>2, <1>2 DEF With
  <2> QED
    BY <2>1, <2>3
<1>5. /\ IsTree(nodes[n1].arcs) /\ IsTree(arcSet)
      /\ nodes \in [DOMAIN nodes -> NodeBlocks]
  BY DEF BlocksOK
<1>6. /\ s = nodes[n1].arcs \/ PutIn(s, nodes[n1].arcs, a)
      /\ arcSet' = arcSet \/ PutIn(arcSet', arcSet, a)
  BY <1>00, ArcsWithEither
<1>7. /\ IsTree(s) /\ Keys(s) \subseteq Keys(nodes[n1].arcs) \cup {a}
      /\ PutIn(s, nodes[n1].arcs, a) => Keys(s) = Keys(nodes[n1].arcs) \cup {a}
  <2> DEFINE r == nodes[n1].arcs
  <2>1. IsTree(r) /\ a \notin Keys(r) /\ (s = r \/ PutIn(s, r, a))
    BY <1>2, <1>5, <1>6
  <2> HIDE DEF r
  <2>2. /\ IsTree(s) /\ Keys(s) \subseteq Keys(r) \cup {a}
        /\ PutIn(s, r, a) => Keys(s) = Keys(r) \cup {a}
    BY <2>1, <1>1, EitherKeys
  <2> QED
    BY <2>2 DEF r
<1>8. /\ IsTree(arcSet') /\ Keys(arcSet') \subseteq Keys(arcSet) \cup {a}
      /\ Changed(arcSet, arcSet')
      /\ PutIn(arcSet', arcSet, a) => Keys(arcSet') = Keys(arcSet) \cup {a}
  <2> DEFINE t == arcSet'
  <2>1. t = arcSet \/ PutIn(t, arcSet, a)
    BY <1>6
  <2> HIDE DEF t
  <2>2. /\ IsTree(t) /\ Keys(t) \subseteq Keys(arcSet) \cup {a} /\ Changed(arcSet, t)
        /\ PutIn(t, arcSet, a) => Keys(t) = Keys(arcSet) \cup {a}
    BY <2>1, <1>1, <1>2, <1>5, EitherKeys
  <2> QED
    BY <2>2 DEF t
<1>9. /\ nodes' \in [DOMAIN nodes -> NodeBlocks] /\ DOMAIN nodes' = DOMAIN nodes
      /\ nodes'[n1].arcs = s
      /\ \A m \in DOMAIN nodes : /\ nodes'[m].name = nodes[m].name
                                 /\ nodes'[m].cmpFn = nodes[m].cmpFn
                                 /\ m # n1 => nodes'[m].arcs = nodes[m].arcs
  <2>1. s \in Seq(Elements)
    BY <1>7 DEF IsTree
  <2> QED
    BY <1>01, <1>5, <2>1, ArcsReplaced
<1>10. unused'.arcs = unused.arcs \ {a} /\ unused'.nodes = unused.nodes
  BY <1>00 DEF Sorts
<1>11. Sorts'
  BY <1>00, <1>0, <1>10, Outcomes DEF Sorts, Statuses
<1>12. BlocksOK'
  <2>1. \A n \in DOMAIN nodes' : IsTree(nodes'[n].arcs)
    BY <1>7, <1>9 DEF BlocksOK
  <2> QED
    BY <2>1, <1>0, <1>1, <1>4, <1>8, <1>9 DEF BlocksOK
<1>13. UnusedOK'
  <2>1. \A n \in DOMAIN nodes' : Keys(nodes'[n].arcs) \subseteq Keys(nodes[n].arcs) \cup {a}
    BY <1>7, <1>9
  <2> QED
    BY <2>1, <1>0, <1>4, <1>8, <1>9, <1>10 DEF UnusedOK
<1>14. Intact(nodes, arcs, nodeSet, arcSet)
  BY <1>0 DEF IntactOK
<1>15. Intact(nodes', arcs', nodeSet', arcSet')
  <2>1. \A n \in DOMAIN nodes' : Keys(nodes'[n].arcs) \subseteq DOMAIN arcs'
    BY <1>4, <1>7, <1>9, <1>14 DEF Intact
  <2>2. \A b \in DOMAIN arcs' : {arcs'[b].start, arcs'[b].end} \subseteq DOMAIN nodes'
    BY <1>4, <1>9, <1>14 DEF Intact
  <2> QED
    BY <2>1, <2>2, <1>0, <1>4, <1>8, <1>9, <1>14 DEF Intact
<1>16. ASSUME ~ upset'
       PROVE  /\ Whole(nodes', arcs', nodeSet', arcSet', nameMap')
              /\ InOrder(nodes', arcs', nodeSet', arcSet', nodeCmpFn', arcCmpFn')
  <2>1. /\ Whole(nodes, arcs, nodeSet, arcSet, nameMap)
        /\ InOrder(nodes, arcs, nodeSet, arcSet, nodeCmpFn, arcCmpFn)
    BY <1>0, <1>16 DEF WholeOK
  <2>2. \A a1, a2 \in DOMAIN arcs' : a1 # a2 =>
            /\ arcOrdering(arcCmpFn, nodes', arcs', a1, a2) # 0
            /\ arcs'[a1].start = arcs'[a2].start =>
                   arcOrdering(nodes'[arcs'[a1].start].cmpFn, nodes', arcs', a1, a2) # 0
    BY <1>0, <1>16 DEF ToldApart
  <2>3. ASSUME NEW b \in DOMAIN arcs, NEW fn
        PROVE  arcOrdering(fn, nodes', arcs', a, b) = arcOrdering(fn, nodes, arcs', a, b)
    <3>1. \A c \in {a, b} : arcs'[c].start \in DOMAIN nodes /\ arcs'[c].end \in DOMAIN nodes
      BY <1>4, <1>14 DEF Intact
    <3> QED
      BY <3>1, <1>9, ArcOrderKept
  <2>4. ASSUME NEW b \in Keys(arcSet) PROVE arcOrdering(arcCmpFn, nodes, arcs', a, b) # 0
    <3>1. b \in DOMAIN arcs /\ b # a
      BY <2>1, <1>2 DEF Whole
    <3> QED
      BY <3>1, <2>2, <2>3, <1>4
  <2>5. ASSUME NEW b \in Keys(nodes[n1].arcs)
        PROVE  arcOrdering(nodes[n1].cmpFn, nodes, arcs', a, b) # 0
    <3>1. b \in DOMAIN arcs /\ arcs[b].start = n1 /\ b # a
      BY <2>1, <1>2 DEF Whole
    <3>2. arcs'[b].start = n1 /\ nodes'[n1].cmpFn = nodes[n1].cmpFn
      BY <3>1, <1>4, <1>9
    <3> QED
      BY <3>1, <3>2, <2>2, <2>3, <1>4
  <2>14. ASSUME NEW t, NEW fn, Keys(t) \subseteq DOMAIN arcs, ArcsOrdered(t, fn, nodes, arcs)
         PROVE  ArcsOrdered(t, fn, nodes, arcs') /\ ArcNumbers(Keys(t) \cup {a}, nodes, arcs')
    <3>1. \A b \in Keys(t) : arcs'[b] = arcs[b]
      BY <2>14, <1>4
    <3>2. ArcsOrdered(t, fn, nodes, arcs')
      BY <2>14, <3>1, ArcsOrderKept
    <3>3. \A b \in DOMAIN arcs' : /\ arcs'[b].cost \in Int
                                  /\ arcs'[b].start \in DOMAIN nodes
                                  /\ arcs'[b].end \in DOMAIN nodes
      <4>1. \A b \in DOMAIN arcs' : arcs'[b].cost \in Int
        BY <1>4, GraphAssumption DEF ArcBlocks
      <4> QED
        BY <4>1, <1>4, <1>14 DEF Intact
    <3>4. Keys(t) \cup {a} \subseteq DOMAIN arcs'
      BY <2>14, <1>4
    <3> QED
      BY <3>2, <3>3, <3>4, BlockSorts DEF ArcNumbers
  <2>15. ASSUME NEW t, NEW fn, ArcsOrdered(t, fn, nodes, arcs'), Keys(t) \subseteq DOMAIN arcs'
         PROVE  ArcsOrdered(t, fn, nodes', arcs')
    <3>1. \A b \in Keys(t) : /\ nodes'[arcs'[b].start].name = nodes[arcs'[b].start].name
                             /\ nodes'[arcs'[b].end].name = nodes[arcs'[b].end].name
      <4>1. \A b \in DOMAIN arcs' : arcs'[b].start \in DOMAIN nodes /\ arcs'[b].end \in DOMAIN nodes
        BY <1>4, <1>14 DEF Intact
      <4> QED
        BY <4>1, <2>15, <1>9
    <3> QED
      BY <2>15, <3>1, ArcsOrderKept
  <2>6. PutIn(arcSet', arcSet, a) /\ ArcsOrdered(arcSet', arcCmpFn, nodes, arcs')
    <3> DEFINE t == arcSet'  ar == arcs'  fn == arcCmpFn
    <3>1. /\ ArcsOrdered(arcSet, fn, nodes, ar) /\ ArcNumbers(Keys(arcSet) \cup {a}, nodes, ar)
          /\ t \in ArcsWith(arcSet, a, fn, nodes, ar)
          /\ \A b \in Keys(arcSet) : arcOrdering(fn, nodes, ar, a, b) # 0
      BY <2>1, <2>4, <2>14, <1>00 DEF InOrder, Whole
    <3>2. arcSet \in Seq(Elements)
      BY DEF BlocksOK, IsTree
    <3> HIDE DEF t, ar, fn
    <3>3. PutIn(t, arcSet, a) /\ ArcsOrdered(t, fn, nodes, ar)
      BY <3>1, <3>2, <1>1, ArcAdded
    <3> QED
      BY <3>3 DEF t, ar, fn
  <2>7. PutIn(s, nodes[n1].arcs, a) /\ ArcsOrdered(s, nodes[n1].cmpFn, nodes, arcs')
    <3> DEFINE r == nodes[n1].arcs  ar == arcs'  fn == nodes[n1].cmpFn
    <3>1. /\ ArcsOrdered(r, fn, nodes, ar) /\ ArcNumbers(Keys(r) \cup {a}, nodes, ar)
          /\ s \in ArcsWith(r, a, fn, nodes, ar)
          /\ \A b \in Keys(r) : arcOrdering(fn, nodes, ar, a, b) # 0
      <4>1. ArcsOrdered(r, fn, nodes, arcs) /\ Keys(r) \subseteq DOMAIN arcs
        BY <2>1 DEF InOrder, Whole
      <4> QED
        BY <4>1, <2>5, <2>14
    <3>2. r \in Seq(Elements)
      BY <1>5 DEF IsTree
    <3> HIDE DEF r, ar, fn
    <3>3. PutIn(s, r, a) /\ ArcsOrdered(s, fn, nodes, ar)
      BY <3>1, <3>2, <1>1, ArcAdded
    <3> QED
      BY <3>3 DEF r, ar, fn
  <2>16. NodesOrdered(nodeSet', nodeCmpFn', nodes')
    <3>1. \A i \in 1..Len(nodeSet) : nodes'[nodeSet[i].key].name = nodes[nodeSet[i].key].name
      BY <2>1, <1>9 DEF Whole, Keys
    <3> QED
      BY <2>1, <3>1, <1>0, NodesOrderKept DEF InOrder
  <2>17. ArcsOrdered(arcSet', arcCmpFn', nodes', arcs')
    <3>1. Keys(arcSet') \subseteq DOMAIN arcs'
      BY <2>1, <1>4, <1>8 DEF Whole
    <3> QED
      BY <2>6, <2>15, <3>1, <1>0
  <2>18. ASSUME NEW m \in DOMAIN nodes' PROVE ArcsOrdered(nodes'[m].arcs, nodes'[m].cmpFn, nodes', arcs')
    <3>1. CASE m = n1
      <4>1. Keys(s) \subseteq DOMAIN arcs'
        BY <2>1, <1>4, <1>7 DEF Whole
      <4> QED
        BY <2>7, <2>15, <3>1, <4>1, <1>9
    <3>2. CASE m # n1
      <4>1. /\ ArcsOrdered(nodes[m].arcs, nodes[m].cmpFn, nodes, arcs)
            /\ Keys(nodes[m].arcs) \subseteq DOMAIN arcs
        BY <2>1, <1>9 DEF InOrder, Whole
      <4>2. ArcsOrdered(nodes[m].arcs, nodes[m].cmpFn, nodes, arcs')
        BY <4>1, <2>14
      <4> QED
        BY <4>1, <4>2, <2>15, <3>2, <1>4, <1>9
    <3> QED
      BY <3>1, <3>2
  <2>19. InOrder(nodes', arcs', nodeSet', arcSet', nodeCmpFn', arcCmpFn')
    BY <2>16, <2>17, <2>18 DEF InOrder
  <2>8. Keys(arcSet') = DOMAIN arcs'
    BY <2>1, <2>6, <1>4, <1>8 DEF Whole
  <2>9. ASSUME NEW n \in DOMAIN nodes'
        PROVE  Keys(nodes'[n].arcs) = {b \in DOMAIN arcs' : arcs'[b].start = n}
    <3>1. Keys(nodes[n].arcs) = {b \in DOMAIN arcs : arcs[b].start = n}
      BY <2>1, <1>9 DEF Whole
    <3>2. CASE n = n1
      BY <3>1, <3>2, <2>7, <1>4, <1>7, <1>9
    <3>3. CASE n # n1
      BY <3>1, <3>3, <1>4, <1>9
    <3> QED
      BY <3>2, <3>3
  <2>10. \A b \in DOMAIN arcs' : arcs'[b].start \in DOMAIN nodes' /\ arcs'[b].end \in DOMAIN nodes'
    BY <2>1, <1>4, <1>9 DEF Whole
  <2>11. \A n \in DOMAIN nodes' : /\ nodes'[n].name \in DOMAIN nameMap'
                                  /\ nameMap'[nodes'[n].name] = n
    BY <2>1, <1>0, <1>9 DEF Whole
  <2>12. \A name \in DOMAIN nameMap' : /\ nameMap'[name] \in DOMAIN nodes'
                                       /\ nodes'[nameMap'[name]].name = name
    BY <2>1, <1>0, <1>9 DEF Whole
  <2>13. Keys(nodeSet') = DOMAIN nodes'
    BY <2>1, <1>0, <1>9 DEF Whole
  <2> QED
    BY <2>8, <2>9, <2>10, <2>11, <2>12, <2>13, <2>19 DEF Whole
<1>17. IntactOK' /\ WholeOK'
  BY <1>0, <1>16, Concluded
<1>18. RemovalOK'
  BY <1>0 DEF RemovalOK
<1>19. LoopOK'
  <2>1. ~ upset' => /\ IsSet(nodeSet) /\ IsSet(arcSet)
                    /\ Changed(nodeSet, nodeSet') /\ Changed(arcSet, arcSet')
    BY <1>0, <1>8, SetsDistinct DEF Changed
  <2> QED
    BY <2>1, <1>0, LoopKept
<1> QED
  BY <1>11, <1>12, <1>13, <1>17, <1>18, <1>19

\* What taking an arc out of both its sets makes of the graph.
LEMMA TakeOutFacts ==
    ASSUME Sorts, BlocksOK, IntactOK, WholeOK, status = "ok", NEW a \in DOMAIN arcs, TakeOut(a)
    PROVE  /\ DOMAIN arcs' = DOMAIN arcs \ {a} /\ arcs' \in [DOMAIN arcs' -> ArcBlocks]
           /\ \A b \in DOMAIN arcs' : arcs'[b] = arcs[b]
           /\ DOMAIN nodes' = DOMAIN nodes /\ nodes' \in [DOMAIN nodes -> NodeBlocks]
           /\ \A n \in DOMAIN nodes : /\ nodes'[n].name = nodes[n].name
                                      /\ nodes'[n].cmpFn = nodes[n].cmpFn
                                      /\ IsTree(nodes'[n].arcs)
                                      /\ Keys(nodes'[n].arcs) \subseteq Keys(nodes[n].arcs)
           /\ IsTree(arcSet') /\ Keys(arcSet') \subseteq Keys(arcSet)
           /\ ~ upset => /\ Changed(arcSet, arcSet')
                         /\ InOrder(nodes', arcs', nodeSet, arcSet', nodeCmpFn, arcCmpFn)
                         /\ \A i \in 1..Len(arcSet) :
                                arcSet[i].key = a => arcSet' \in OneOut(arcSet, i)
                         /\ Keys(arcSet') = Keys(arcSet) \ {a}
                         /\ \A n \in DOMAIN nodes :
                                Keys(nodes'[n].arcs) = Keys(nodes[n].arcs) \ {a}
<1> DEFINE n == arcs[a].start
<1>0. n \in DOMAIN nodes
  BY DEF IntactOK, Intact
<1> HIDE DEF n
<1>1. /\ arcSet' \in ArcsWithout(arcSet, a, arcCmpFn, nodes, arcs)
      /\ arcs' = [b \in DOMAIN arcs \ {a} |-> arcs[b]]
      /\ \E s \in ArcsWithout(nodes[n].arcs, a, nodes[n].cmpFn, nodes, arcs) :
             nodes' = [nodes EXCEPT ![n].arcs = s]
  BY DEF TakeOut, n
<1>2. PICK s \in ArcsWithout(nodes[n].arcs, a, nodes[n].cmpFn, nodes, arcs) :
          nodes' = [nodes EXCEPT ![n].arcs = s]
  BY <1>1
<1> DEFINE r == nodes[n].arcs
<1>3. IsTree(r) /\ IsTree(arcSet) /\ nodes \in [DOMAIN nodes -> NodeBlocks] /\ a \in Nat
  BY <1>0, GraphAssumption DEF BlocksOK
<1>4. s \in ArcsWithout(r, a, nodes[n].cmpFn, nodes, arcs)
  OBVIOUS
<1> HIDE DEF r
<1>5. r \in Seq(Elements) /\ arcSet \in Seq(Elements)
  BY <1>3 DEF IsTree
<1>6. IsTree(s) /\ Keys(s) \subseteq Keys(r)
  <2>1. s = r \/ LooseOut(s, r)
    BY <1>4, <1>5, ArcsWithoutEither
  <2> QED
    BY <1>3, <2>1, LooseTree
<1>7. IsTree(arcSet') /\ Keys(arcSet') \subseteq Keys(arcSet)
  <2> DEFINE t == arcSet'
  <2>1. t = arcSet \/ LooseOut(t, arcSet)
    BY <1>1, <1>5, ArcsWithoutEither
  <2> HIDE DEF t
  <2>2. IsTree(t) /\ Keys(t) \subseteq Keys(arcSet)
    BY <1>3, <2>1, LooseTree
  <2> QED
    BY <2>2 DEF t
<1>8. /\ DOMAIN nodes' = DOMAIN nodes /\ nodes' \in [DOMAIN nodes -> NodeBlocks]
      /\ nodes'[n].arcs = s
      /\ \A m \in DOMAIN nodes : /\ nodes'[m].name = nodes[m].name
                                 /\ nodes'[m].cmpFn = nodes[m].cmpFn
                                 /\ m # n => nodes'[m].arcs = nodes[m].arcs
  <2>1. s \in Seq(Elements)
    BY <1>6 DEF IsTree
  <2> QED
    BY <1>0, <1>2, <1>3, <2>1, ArcsReplaced
<1>9. /\ DOMAIN arcs' = DOMAIN arcs \ {a} /\ arcs' \in [DOMAIN arcs' -> ArcBlocks]
      /\ \A b \in DOMAIN arcs' : arcs'[b] = arcs[b]
  BY <1>1 DEF BlocksOK
<1>10. ASSUME NEW m \in DOMAIN nodes
       PROVE  IsTree(nodes'[m].arcs) /\ Keys(nodes'[m].arcs) \subseteq Keys(nodes[m].arcs)
  BY <1>6, <1>8 DEF BlocksOK, r
<1>11. ASSUME ~ upset
       PROVE  /\ Changed(arcSet, arcSet')
              /\ InOrder(nodes', arcs', nodeSet, arcSet', nodeCmpFn, arcCmpFn)
              /\ \A i \in 1..Len(arcSet) : arcSet[i].key = a => arcSet' \in OneOut(arcSet, i)
              /\ Keys(arcSet') = Keys(arcSet) \ {a}
              /\ \A m \in DOMAIN nodes : Keys(nodes'[m].arcs) = Keys(nodes[m].arcs) \ {a}
  <2>1. /\ Whole(nodes, arcs, nodeSet, arcSet, nameMap)
        /\ ArcsOrdered(arcSet, arcCmpFn, nodes, arcs)
        /\ ArcsOrdered(r, nodes[n].cmpFn, nodes, arcs)
        /\ NodesOrdered(nodeSet, nodeCmpFn, nodes)
        /\ \A m \in DOMAIN nodes : ArcsOrdered(nodes[m].arcs, nodes[m].cmpFn, nodes, arcs)
    BY <1>0, <1>11 DEF WholeOK, InOrder, r
  <2>2. \A b \in DOMAIN arcs : /\ arcs[b].cost \in Int
                               /\ nodes[arcs[b].start].name \in Int
                               /\ nodes[arcs[b].end].name \in Int
    <3>1. \A b \in DOMAIN arcs : arcs[b].cost \in Int
      BY GraphAssumption DEF BlocksOK, ArcBlocks
    <3>2. \A m \in DOMAIN nodes : nodes[m].name \in Int
      BY GraphAssumption DEF BlocksOK, NodeBlocks
    <3> QED
      BY <3>1, <3>2, <2>1 DEF Whole
  <2>3. Keys(arcSet) = DOMAIN arcs /\ Keys(r) = {b \in DOMAIN arcs : arcs[b].start = n}
    BY <1>0, <2>1 DEF Whole, r
  <2>4. a \in Keys(arcSet) /\ a \in Keys(r)
    BY <2>3 DEF n
  <2>5. IsSet(arcSet) /\ IsSet(r)
    BY <1>0, <1>11, SetsDistinct DEF r
  <2>6. \A i \in 1..Len(arcSet) : arcSet[i].key = a => arcSet' \in OneOut(arcSet, i)
    BY <1>1, <1>3, <1>5, <2>1, <2>2, <2>3, ArcFound
  <2>7. \A i \in 1..Len(r) : r[i].key = a => s \in OneOut(r, i)
    BY <1>3, <1>4, <1>5, <2>1, <2>2, <2>3, ArcFound
  <2>8. /\ Keys(arcSet') = Keys(arcSet) \ {a} /\ Changed(arcSet, arcSet')
        /\ ArcsOrdered(arcSet', arcCmpFn, nodes, arcs)
    <3> DEFINE t == arcSet'
    <3>1. PICK i \in 1..Len(arcSet) : arcSet[i].key = a
      BY <2>4 DEF Keys
    <3>2. t \in OneOut(arcSet, i)
      BY <3>1, <2>6
    <3> HIDE DEF t
    <3>3. Keys(t) = Keys(arcSet) \ {a} /\ ArcsOrdered(t, arcCmpFn, nodes, arcs)
      BY <3>1, <3>2, <2>1, <2>5, TakenOut, OneOutStands
    <3> QED
      BY <3>2, <3>3 DEF t, Changed
  <2>9. Keys(s) = Keys(r) \ {a} /\ ArcsOrdered(s, nodes[n].cmpFn, nodes, arcs)
    <3>1. PICK i \in 1..Len(r) : r[i].key = a
      BY <2>4 DEF Keys
    <3>2. s \in OneOut(r, i)
      BY <3>1, <2>7
    <3> QED
      BY <3>1, <3>2, <2>1, <2>5, TakenOut, OneOutStands
  <2>10. ASSUME NEW m \in DOMAIN nodes
         PROVE  Keys(nodes'[m].arcs) = Keys(nodes[m].arcs) \ {a}
    <3>1. CASE m = n
      BY <3>1, <1>8, <2>9 DEF r
    <3>2. CASE m # n
      <4>1. a \notin Keys(nodes[m].arcs)
        BY <3>2, <2>1 DEF Whole, n
      <4> QED
        BY <3>2, <4>1, <1>8
    <3> QED
      BY <3>1, <3>2
  <2>11. ASSUME NEW t, NEW fn, ArcsOrdered(t, fn, nodes, arcs), Keys(t) \subseteq DOMAIN arcs'
         PROVE  ArcsOrdered(t, fn, nodes', arcs')
    <3>1. \A b \in Keys(t) : /\ arcs'[b] = arcs[b]
                             /\ nodes'[arcs[b].start].name = nodes[arcs[b].start].name
                             /\ nodes'[arcs[b].end].name = nodes[arcs[b].end].name
      BY <2>11, <2>1, <1>8, <1>9 DEF Whole
    <3> QED
      BY <2>11, <3>1, ArcsOrderKept
  <2>12. NodesOrdered(nodeSet, nodeCmpFn, nodes')
    <3>1. \A i \in 1..Len(nodeSet) : nodes'[nodeSet[i].key].name = nodes[nodeSet[i].key].name
      BY <2>1, <1>8 DEF Whole, Keys
    <3> QED
      BY <2>1, <3>1, NodesOrderKept
  <2>13. ArcsOrdered(arcSet', arcCmpFn, nodes', arcs')
    BY <2>3, <2>8, <2>11, <1>9
  <2>14. ASSUME NEW m \in DOMAIN nodes'
         PROVE  ArcsOrdered(nodes'[m].arcs, nodes'[m].cmpFn, nodes', arcs')
    <3>1. Keys(nodes'[m].arcs) \subseteq DOMAIN arcs'
      <4>1. m \in DOMAIN nodes
        BY <1>8
      <4>2. Keys(nodes[m].arcs) \subseteq DOMAIN arcs
        BY <4>1, <2>1 DEF Whole
      <4>3. Keys(nodes'[m].arcs) = Keys(nodes[m].arcs) \ {a}
        BY <4>1, <2>10
      <4> QED
        BY <4>2, <4>3, <1>9
    <3>2. ArcsOrdered(nodes'[m].arcs, nodes'[m].cmpFn, nodes, arcs)
      BY <1>8, <2>1, <2>9
    <3> QED
      BY <3>1, <3>2, <2>11
  <2>15. InOrder(nodes', arcs', nodeSet, arcSet', nodeCmpFn, arcCmpFn)
    BY <2>12, <2>13, <2>14 DEF InOrder
  <2> QED
    BY <2>6, <2>8, <2>10, <2>15
<1> QED
  BY <1>7, <1>8, <1>9, <1>10, <1>11

\* Parts of the invariant after an arc is taken out of both its sets.
LEMMA TakeOutInv ==
    ASSUME GraphInv, status = "ok", NEW a \in DOMAIN arcs, TakeOut(a), Outcome("ok"),
           removal' \in Loops,
           UNCHANGED <<program, nodeSet, nameMap, nodeCmpFn, arcCmpFn, loop, unused, upset>>
    PROVE  /\ Sorts' /\ BlocksOK' /\ UnusedOK' /\ IntactOK' /\ WholeOK' /\ LoopOK'
           /\ ~ upset' => status' = "ok"
           /\ status' \in {"ok", "dangling"}
<1> USE DEF GraphInv
<1>1. Sorts'
  BY Outcomes DEF Sorts, Statuses
<1>2. /\ DOMAIN arcs' = DOMAIN arcs \ {a} /\ arcs' \in [DOMAIN arcs' -> ArcBlocks]
      /\ \A b \in DOMAIN arcs' : arcs'[b] = arcs[b]
      /\ DOMAIN nodes' = DOMAIN nodes /\ nodes' \in [DOMAIN nodes -> NodeBlocks]
      /\ \A n \in DOMAIN nodes : /\ nodes'[n].name = nodes[n].name
                                 /\ IsTree(nodes'[n].arcs)
                                 /\ Keys(nodes'[n].arcs) \subseteq Keys(nodes[n].arcs)
      /\ IsTree(arcSet') /\ Keys(arcSet') \subseteq Keys(arcSet)
      /\ ~ upset => /\ Changed(arcSet, arcSet')
                    /\ InOrder(nodes', arcs', nodeSet, arcSet', nodeCmpFn, arcCmpFn)
                    /\ Keys(arcSet') = Keys(arcSet) \ {a}
                    /\ \A n \in DOMAIN nodes :
                           Keys(nodes'[n].arcs) = Keys(nodes[n].arcs) \ {a}
  BY TakeOutFacts
<1>3. BlocksOK'
  BY <1>2 DEF BlocksOK
<1>4. UnusedOK'
  BY <1>2 DEF UnusedOK
<1>5. ASSUME ~ upset'
      PROVE  /\ Whole(nodes', arcs', nodeSet', arcSet', nameMap')
             /\ InOrder(nodes', arcs', nodeSet', arcSet', nodeCmpFn', arcCmpFn')
  <2>1. ~ upset /\ Whole(nodes, arcs, nodeSet, arcSet, nameMap)
    BY <1>5 DEF WholeOK
  <2>2. Keys(arcSet') = DOMAIN arcs' /\ Keys(nodeSet') = DOMAIN nodes'
    BY <1>2, <2>1 DEF Whole
  <2>3. \A b \in DOMAIN arcs' : arcs'[b].start \in DOMAIN nodes' /\ arcs'[b].end \in DOMAIN nodes'
    BY <1>2, <2>1 DEF Whole
  <2>4. \A n \in DOMAIN nodes' : Keys(nodes'[n].arcs) = {b \in DOMAIN arcs' : arcs'[b].start = n}
    <3> SUFFICES ASSUME NEW n \in DOMAIN nodes'
                 PROVE  Keys(nodes'[n].arcs) = {b \in DOMAIN arcs' : arcs'[b].start = n}
      OBVIOUS
    <3>1. Keys(nodes'[n].arcs) = {b \in DOMAIN arcs : arcs[b].start = n} \ {a}
      BY <1>2, <2>1 DEF Whole
    <3> QED
      BY <3>1, <1>2
  <2>5. \A n \in DOMAIN nodes' : /\ nodes'[n].name \in DOMAIN nameMap'
                                 /\ nameMap'[nodes'[n].name] = n
    BY <1>2, <2>1 DEF Whole
  <2>6. \A name \in DOMAIN nameMap' : /\ nameMap'[name] \in DOMAIN nodes'
                                      /\ nodes'[nameMap'[name]].name = name
    BY <1>2, <2>1 DEF Whole
  <2> QED
    BY <2>1, <2>2, <2>3, <2>4, <2>5, <2>6, <1>2 DEF Whole
<1>6. IntactOK' /\ WholeOK' /\ (~ upset' => status' = "ok") /\ status' \in {"ok", "dangling"}
  BY <1>5, Concluded
<1>7. LoopOK'
  <2>1. ~ upset' => /\ IsSet(nodeSet) /\ IsSet(arcSet)
                    /\ Changed(nodeSet, nodeSet') /\ Changed(arcSet, arcSet')
    BY <1>2, SetsDistinct DEF Changed
  <2> QED
    BY <2>1, LoopKept
<1> QED
  BY <1>1, <1>3, <1>4, <1>6, <1>7

\* removeArc does no more than that.
LEMMA removeArcInv ==
    ASSUME GraphInv, NEW a, removeArc(a)
    PROVE  GraphInv'
<1>0. /\ status = "ok" /\ removal = NoLoop /\ a \in DOMAIN arcs /\ TakeOut(a) /\ Outcome("ok")
      /\ UNCHANGED <<program, nodeSet, nameMap, nodeCmpFn, arcCmpFn, loop, removal, unused,
                     upset>>
  BY DEF removeArc, May
<1>1. removal' \in Loops
  BY <1>0, NoLoopSort
<1>2. Sorts' /\ BlocksOK' /\ UnusedOK' /\ IntactOK' /\ WholeOK' /\ LoopOK'
  BY <1>0, <1>1, TakeOutInv
<1>3. RemovalOK'
  BY <1>0 DEF RemovalOK
<1> QED
  BY <1>2, <1>3 DEF GraphInv

\* removeNode begins with all arcs ahead.
LEMMA BeginRemoveNodeInv ==
    ASSUME GraphInv, NEW n \in DOMAIN nodes, BeginRemoveNode(n)
    PROVE  GraphInv'
<1> USE DEF GraphInv
<1>0. /\ status = "ok" /\ removal' = LoopOver("arcs", arcSet, n)
      /\ UNCHANGED <<program, status, nodes, arcs, nodeSet, arcSet, nameMap, nodeCmpFn,
                     arcCmpFn, loop, unused, upset, reckless>>
  BY DEF BeginRemoveNode, May, blockVars, setVars
<1>1. IsTree(arcSet) /\ n \in Nat
  BY GraphAssumption DEF BlocksOK
<1>2. LoopOver("arcs", arcSet, n) \in Loops /\ Ahead(LoopOver("arcs", arcSet, n), arcSet)
  BY <1>1, BeginsAhead
<1>3. removal'.over = "arcs" /\ removal'.node = n /\ removal'.rest = CellSeq(arcSet)
  BY <1>0 DEF LoopOver
<1>4. \A p \in 1..Len(arcSet) : arcSet[p].cell \in ToSet(removal'.rest)
  <2>1. Len(arcSet) \in Nat
    BY <1>1 DEF IsTree
  <2>2. DOMAIN CellSeq(arcSet) = 1..Len(arcSet)
        /\ \A p \in 1..Len(arcSet) : CellSeq(arcSet)[p] = arcSet[p].cell
    BY DEF CellSeq
  <2> QED
    BY <1>3, <2>1, <2>2 DEF ToSet
<1>5. Sorts'
  BY <1>0, <1>2 DEF Sorts
<1>6. BlocksOK' /\ UnusedOK' /\ IntactOK' /\ WholeOK' /\ LoopOK'
  BY <1>0 DEF BlocksOK, UnusedOK, IntactOK, WholeOK, LoopOK
<1>7. RemovalOK'
  <2>1. Ahead(removal', arcSet') /\ AllAhead'
    BY <1>0, <1>2, <1>4 DEF AllAhead
  <2> QED
    BY <2>1, <1>0, <1>3 DEF RemovalOK
<1> QED
  BY <1>5, <1>6, <1>7

\* The element that the loop has come to is no longer among those ahead; the
\* others are as before.
LEMMA OthersAhead ==
    ASSUME NEW l \in Loops, l.rest # <<>>, NEW c \in ToSet(l.rest), c # Head(l.rest)
    PROVE  c \in ToSet(Tail(l.rest))
<1>1. l.rest \in Seq(Nat) /\ Len(l.rest) > 0 /\ Len(l.rest) \in Nat
  BY DEF Loops
<1>2. PICK i \in 1..Len(l.rest) : l.rest[i] = c
  BY <1>1 DEF ToSet
<1>3. i # 1
  BY <1>1, <1>2
<1> DEFINE h == i - 1
<1>4. h \in 1..Len(l.rest) - 1 /\ h + 1 = i
  BY <1>1, <1>3
<1>5. Len(Tail(l.rest)) = Len(l.rest) - 1 /\ Tail(l.rest)[h] = l.rest[h + 1]
  BY <1>1, <1>4
<1>6. h \in DOMAIN Tail(l.rest)
  BY <1>1, <1>4, <1>5
<1> QED
  BY <1>2, <1>4, <1>5, <1>6 DEF ToSet

\* Its step: an arc at the node is taken out when the loop has come to it, so the
\* loop keeps the cells ahead, and every other arc at the node is still among them.
LEMMA StepRemoveNodeInv ==
    ASSUME GraphInv, StepRemoveNode
    PROVE  GraphInv'
<1> USE DEF GraphInv
<1> DEFINE c == Head(removal.rest)
           a == KeyAt(arcSet, c)
<1>0. /\ status = "ok" /\ removal.rest # <<>>
      /\ program' = program
      /\ IF c \in Cells(arcSet)
         THEN /\ removal' = Advanced(removal, a)
              /\ IF AtNode(a, removal.node) THEN TakeOut(a) ELSE UNCHANGED <<blockVars, arcSet>>
              /\ UNCHANGED <<nodeSet, nameMap, nodeCmpFn, arcCmpFn, loop, unused, upset>>
              /\ Outcome("ok")
         ELSE /\ status' = "undefined"
              /\ UNCHANGED <<blockVars, setVars, loop, removal, unused, upset, reckless>>
  BY DEF StepRemoveNode
<1>1. removal \in Loops /\ IsTree(arcSet) /\ removal # NoLoop /\ removal.over = "arcs"
  <2>1. removal # NoLoop
    BY <1>0, NoLoopSort
  <2> QED
    BY <2>1 DEF Sorts, BlocksOK, RemovalOK
<1> HIDE DEF c
<1>2. CASE c \notin Cells(arcSet)
  <2>0. /\ status' = "undefined"
        /\ UNCHANGED <<program, blockVars, setVars, loop, removal, unused, upset, reckless>>
    BY <1>0, <1>2
  <2>1. upset
    <3> SUFFICES ASSUME ~ upset PROVE FALSE
      OBVIOUS
    <3>1. Ahead(removal, arcSet)
      BY <1>1 DEF RemovalOK
    <3> QED
      BY <1>0, <1>1, <1>2, <3>1, Heads DEF c
  <2>2. UnusedOK' /\ BlocksOK' /\ IntactOK' /\ WholeOK'
    BY <1>0, <2>0, GraphUnchanged DEF Statuses
  <2>3. Sorts'
    BY <2>0 DEF Sorts, Statuses, setVars
  <2>4. RemovalOK' /\ LoopOK'
    BY <2>0, <2>1, <1>1 DEF RemovalOK, LoopOK
  <2> QED
    BY <2>2, <2>3, <2>4
<1>3. CASE c \in Cells(arcSet)
  <2>0. /\ removal' = Advanced(removal, a)
        /\ IF AtNode(a, removal.node) THEN TakeOut(a) ELSE UNCHANGED <<blockVars, arcSet>>
        /\ UNCHANGED <<program, nodeSet, nameMap, nodeCmpFn, arcCmpFn, loop, unused, upset>>
        /\ Outcome("ok")
    BY <1>0, <1>3
  <2>1. PICK i \in 1..Len(arcSet) : arcSet[i].cell = c
    BY <1>3 DEF Cells
  <2>2. a = arcSet[i].key /\ a \in Keys(arcSet)
    <3>1. KeyAt(arcSet, arcSet[i].cell) = arcSet[i].key
      BY <1>1, KeyAtPlace
    <3> QED
      BY <2>1, <3>1 DEF Keys
  <2>3. a \in DOMAIN arcs
    BY <1>0, <2>2 DEF IntactOK, Intact
  <2>4. /\ removal' \in Loops /\ removal'.over = removal.over
        /\ removal'.node = removal.node /\ removal'.rest = Tail(removal.rest)
    BY <1>0, <1>1, <1>3, <2>0, AdvancedSort DEF c
  <2>5. removal' # NoLoop
    BY <1>1, <2>4, NoLoopSort
  <2>6. ASSUME ~ upset
        PROVE  /\ Ahead(removal', arcSet) /\ removal.node \in DOMAIN nodes
               /\ \A q \in 1..i : arcSet[q].cell \notin ToSet(removal'.rest)
               /\ \A p \in 1..Len(arcSet) :
                      p # i /\ AtNode(arcSet[p].key, removal.node)
                      => arcSet[p].cell \in ToSet(removal'.rest)
    <3>1. Ahead(removal, arcSet) /\ AllAhead /\ removal.node \in DOMAIN nodes
      BY <1>1, <2>6 DEF RemovalOK
    <3>2. Ahead(removal', arcSet)
      BY <1>0, <1>1, <2>0, <3>1, GoesAhead DEF c
    <3>3. \A q \in 1..i : arcSet[q].cell \notin ToSet(removal'.rest)
      BY <1>0, <1>1, <2>1, <2>4, <3>1, Heads DEF c
    <3>4. ASSUME NEW p \in 1..Len(arcSet), p # i, AtNode(arcSet[p].key, removal.node)
          PROVE  arcSet[p].cell \in ToSet(removal'.rest)
      <4>1. arcSet[p].cell # c
        BY <1>1, <2>1, <3>4 DEF IsTree
      <4>2. arcSet[p].cell \in ToSet(removal.rest)
        BY <3>1, <3>4 DEF AllAhead
      <4> QED
        BY <1>0, <1>1, <2>4, <4>1, <4>2, OthersAhead DEF c
    <3> QED
      BY <3>1, <3>2, <3>3, <3>4
  <2> HIDE DEF a
  <2>7. CASE ~ AtNode(a, removal.node)
    <3>0. UNCHANGED <<nodes, arcs, nodeSet, arcSet, nameMap>>
      BY <2>0, <2>7 DEF blockVars
    <3>1. Sorts'
      BY <2>0, <2>4, Outcomes DEF Sorts, Statuses
    <3>2. BlocksOK' /\ UnusedOK'
      BY <2>0, <3>0 DEF BlocksOK, UnusedOK
    <3>3. ~ upset' => /\ Whole(nodes', arcs', nodeSet', arcSet', nameMap')
                      /\ InOrder(nodes', arcs', nodeSet', arcSet', nodeCmpFn', arcCmpFn')
      BY <1>0, <2>0, <3>0 DEF WholeOK
    <3>4. IntactOK' /\ WholeOK' /\ (~ upset' => status' = "ok") /\ status' \in {"ok", "dangling"}
      BY <2>0, <3>3, Concluded
    <3>5. LoopOK'
      <4>1. ~ upset' => /\ IsSet(nodeSet) /\ IsSet(arcSet)
                        /\ Changed(nodeSet, nodeSet') /\ Changed(arcSet, arcSet')
        BY <1>0, <2>0, <3>0, SetsDistinct DEF Changed
      <4> QED
        BY <4>1, <1>0, <2>0, LoopKept
    <3>6. ASSUME ~ upset' PROVE Ahead(removal', arcSet') /\ AllAhead'
      <4>1. ~ upset
        BY <2>0, <3>6
      <4>2. ASSUME NEW p \in 1..Len(arcSet), AtNode(arcSet[p].key, removal.node)
            PROVE  arcSet[p].cell \in ToSet(removal'.rest)
        BY <4>1, <4>2, <2>2, <2>6, <2>7
      <4> QED
        BY <4>1, <4>2, <2>4, <2>6, <3>0 DEF AllAhead, AtNode
    <3>7. RemovalOK'
      <4>1. ~ upset' => removal'.node \in DOMAIN nodes'
        BY <2>0, <2>4, <2>6, <3>0
      <4> QED
        BY <4>1, <1>1, <2>4, <3>4, <3>6 DEF RemovalOK
    <3> QED
      BY <3>1, <3>2, <3>4, <3>5, <3>7
  <2>8. CASE AtNode(a, removal.node)
    <3>0. TakeOut(a)
      BY <2>0, <2>8
    <3>1. /\ Sorts' /\ BlocksOK' /\ UnusedOK' /\ IntactOK' /\ WholeOK' /\ LoopOK'
          /\ ~ upset' => status' = "ok"
          /\ status' \in {"ok", "dangling"}
      BY <1>0, <2>0, <2>3, <2>4, <3>0, TakeOutInv
    <3>2. /\ DOMAIN nodes' = DOMAIN nodes /\ IsTree(arcSet')
          /\ DOMAIN arcs' = DOMAIN arcs \ {a} /\ \A b \in DOMAIN arcs' : arcs'[b] = arcs[b]
          /\ ~ upset => arcSet' \in OneOut(arcSet, i) /\ Keys(arcSet') = Keys(arcSet) \ {a}
      BY <1>0, <2>2, <2>3, <3>0, TakeOutFacts
    <3>3. ASSUME ~ upset'
          PROVE  Ahead(removal', arcSet') /\ AllAhead' /\ removal'.node \in DOMAIN nodes'
      <4>1. ~ upset /\ IsSet(arcSet)
        BY <1>0, <2>0, <3>3, SetsDistinct
      <4>2. Keeps(arcSet, arcSet', ToSet(removal'.rest))
        BY <2>6, <3>2, <4>1, TakenFrom
      <4>3. Ahead(removal', arcSet')
        BY <1>1, <2>4, <2>6, <3>2, <4>1, <4>2, StaysAhead
      <4>4. ASSUME NEW q \in 1..Len(arcSet'),
                   arcs'[arcSet'[q].key].start = removal.node
                   \/ arcs'[arcSet'[q].key].end = removal.node
            PROVE  arcSet'[q].cell \in ToSet(removal'.rest)
        <5> DEFINE b == arcSet'[q].key
        <5>1. b \in Keys(arcSet') /\ b \in Keys(arcSet) /\ b # a
          BY <3>2, <4>1 DEF Keys
        <5>2. b \in DOMAIN arcs /\ arcs'[b] = arcs[b]
          BY <1>0, <3>2, <5>1 DEF IntactOK, Intact
        <5>3. PICK p \in 1..Len(arcSet) : arcSet[p].key = b
          BY <5>1 DEF Keys
        <5>4. p # i
          BY <2>2, <5>1, <5>3
        <5>5. AtNode(arcSet[p].key, removal.node)
          BY <4>4, <5>2, <5>3 DEF AtNode
        <5>6. arcSet[p].cell \in ToSet(removal'.rest)
          BY <2>6, <4>1, <5>4, <5>5
        <5>7. PICK r \in 1..Len(arcSet') : arcSet'[r] = arcSet[p]
          BY <4>2, <5>6 DEF Keeps
        <5>8. r = q
          <6>1. arcSet' \in Seq(Elements) /\ IsSet(arcSet')
            BY <3>2, <4>1, TakenOut DEF IsTree
          <6> QED
            BY <6>1, <5>3, <5>7 DEF IsSet, Distinct
        <5> QED
          BY <5>6, <5>7, <5>8
      <4>5. AllAhead'
        BY <4>4, <2>4 DEF AllAhead, AtNode
      <4> QED
        BY <2>4, <2>6, <3>2, <4>1, <4>3, <4>5
    <3>4. RemovalOK'
      BY <1>1, <2>4, <3>1, <3>3 DEF RemovalOK
    <3> QED
      BY <3>1, <3>4
  <2> QED
    BY <2>7, <2>8
<1> QED
  BY <1>2, <1>3

\* Its end: no arc is left at the node, which goes with its name.
LEMMA EndRemoveNodeInv ==
    ASSUME GraphInv, EndRemoveNode
    PROVE  GraphInv'
<1> USE DEF GraphInv
<1> DEFINE n == removal.node
<1>0. /\ status = "ok" /\ removal # NoLoop /\ removal.rest = <<>>
      /\ nodeSet' \in NodesWithout(nodeSet, n, nodeCmpFn, nodes)
      /\ nameMap' = [name \in DOMAIN nameMap \ {nodes[n].name} |-> nameMap[name]]
      /\ nodes' = [m \in DOMAIN nodes \ {n} |-> nodes[m]]
      /\ removal' = NoLoop
      /\ UNCHANGED <<program, arcs, arcSet, nodeCmpFn, arcCmpFn, loop, unused, upset>>
      /\ Outcome("ok")
  BY DEF EndRemoveNode
<1>1. n \in Nat
  BY DEF Sorts, Loops
<1> HIDE DEF n
<1>2. Sorts'
  <2>1. nameMap' \in [DOMAIN nameMap' -> Nat] /\ DOMAIN nameMap' \subseteq Names
    BY <1>0 DEF Sorts
  <2> QED
    BY <2>1, <1>0, NoLoopSort, Outcomes DEF Sorts, Statuses
<1>3. /\ DOMAIN nodes' = DOMAIN nodes \ {n} /\ nodes' \in [DOMAIN nodes' -> NodeBlocks]
      /\ \A m \in DOMAIN nodes' : nodes'[m] = nodes[m]
  BY <1>0 DEF BlocksOK
<1>4. IsTree(nodeSet) /\ nodeSet \in Seq(Elements)
  BY DEF BlocksOK, IsTree
<1>5. IsTree(nodeSet') /\ Keys(nodeSet') \subseteq Keys(nodeSet)
  <2> DEFINE t == nodeSet'
  <2>1. t = nodeSet \/ LooseOut(t, nodeSet)
    BY <1>0, <1>4, NodesWithoutEither
  <2> HIDE DEF t
  <2>2. IsTree(t) /\ Keys(t) \subseteq Keys(nodeSet)
    BY <1>4, <2>1, LooseTree
  <2> QED
    BY <2>2 DEF t
<1>6. BlocksOK' /\ UnusedOK'
  BY <1>0, <1>3, <1>5 DEF BlocksOK, UnusedOK
<1>7. ASSUME ~ upset'
      PROVE  /\ Whole(nodes', arcs', nodeSet', arcSet', nameMap')
             /\ InOrder(nodes', arcs', nodeSet', arcSet', nodeCmpFn', arcCmpFn')
             /\ Changed(nodeSet, nodeSet')
  <2>1. /\ Whole(nodes, arcs, nodeSet, arcSet, nameMap)
        /\ NodesOrdered(nodeSet, nodeCmpFn, nodes) /\ ArcsOrdered(arcSet, arcCmpFn, nodes, arcs)
        /\ \A m \in DOMAIN nodes : ArcsOrdered(nodes[m].arcs, nodes[m].cmpFn, nodes, arcs)
        /\ n \in DOMAIN nodes /\ AllAhead /\ IsSet(nodeSet)
    BY <1>0, <1>7, SetsDistinct DEF WholeOK, InOrder, RemovalOK, n
  <2>2. ASSUME NEW a \in DOMAIN arcs PROVE ~ AtNode(a, n)
    <3>1. PICK p \in 1..Len(arcSet) : arcSet[p].key = a
      BY <2>1 DEF Whole, Keys
    <3>2. ToSet(removal.rest) = {}
      BY <1>0, EmptyFunction DEF ToSet
    <3> QED
      BY <2>1, <3>1, <3>2 DEF AllAhead, n
  <2>3. PICK i \in 1..Len(nodeSet) : nodeSet[i].key = n
    BY <2>1 DEF Whole, Keys
  <2>4. \A m \in DOMAIN nodes : nodes[m].name \in Int
    BY GraphAssumption DEF BlocksOK, NodeBlocks
  <2>5. nodeSet' \in OneOut(nodeSet, i)
    <3>2. \A p \in 1..Len(nodeSet) : nodes[nodeSet[p].key].name \in Int
      BY <2>1, <2>4 DEF Whole, Keys
    <3> QED
      BY <1>0, <1>1, <1>4, <2>1, <2>3, <2>4, <3>2, NodeFound
  <2>6. Keys(nodeSet') = DOMAIN nodes'
    <3>1. Keys(nodeSet') = Keys(nodeSet) \ {nodeSet[i].key}
      BY <2>1, <2>5, TakenOut
    <3> QED
      BY <3>1, <1>3, <2>1, <2>3 DEF Whole
  <2>7. \A a \in DOMAIN arcs : arcs[a].start \in DOMAIN nodes' /\ arcs[a].end \in DOMAIN nodes'
    BY <1>3, <2>1, <2>2 DEF Whole, AtNode
  <2>8. \A m \in DOMAIN nodes' : Keys(nodes'[m].arcs) = {a \in DOMAIN arcs : arcs[a].start = m}
    BY <1>3, <2>1 DEF Whole
  <2>9. \A m \in DOMAIN nodes' : /\ nodes'[m].name \in DOMAIN nameMap'
                                 /\ nameMap'[nodes'[m].name] = m
    BY <1>0, <1>3, <2>1 DEF Whole
  <2>10. \A name \in DOMAIN nameMap' : /\ nameMap'[name] \in DOMAIN nodes'
                                       /\ nodes'[nameMap'[name]].name = name
    BY <1>0, <1>3, <2>1 DEF Whole
  <2>11. Keys(arcSet') = DOMAIN arcs' /\ arcs' = arcs
    BY <1>0, <2>1 DEF Whole
  <2>12. Whole(nodes', arcs', nodeSet', arcSet', nameMap')
    BY <2>6, <2>7, <2>8, <2>9, <2>10, <2>11 DEF Whole
  <2>13. NodesOrdered(nodeSet', nodeCmpFn, nodes')
    <3> DEFINE t == nodeSet'
    <3>1. t \in OneOut(nodeSet, i) /\ Keys(t) \subseteq DOMAIN nodes'
      BY <2>5, <2>6
    <3> HIDE DEF t
    <3>2. NodesOrdered(t, nodeCmpFn, nodes)
      BY <2>1, <3>1, OneOutStands
    <3>3. \A p \in 1..Len(t) : nodes'[t[p].key].name = nodes[t[p].key].name
      BY <1>3, <3>1 DEF Keys
    <3>4. NodesOrdered(t, nodeCmpFn, nodes')
      BY <3>2, <3>3, NodesOrderKept
    <3> QED
      BY <3>4 DEF t
  <2>14. ASSUME NEW t, NEW fn, ArcsOrdered(t, fn, nodes, arcs), Keys(t) \subseteq DOMAIN arcs
         PROVE  ArcsOrdered(t, fn, nodes', arcs)
    <3>1. \A b \in Keys(t) : /\ nodes'[arcs[b].start].name = nodes[arcs[b].start].name
                             /\ nodes'[arcs[b].end].name = nodes[arcs[b].end].name
      BY <2>14, <2>7, <1>3
    <3> QED
      BY <2>14, <3>1, ArcsOrderKept
  <2>15. ArcsOrdered(arcSet, arcCmpFn, nodes', arcs)
    BY <2>1, <2>11, <2>14 DEF Whole
  <2>16. \A m \in DOMAIN nodes' : ArcsOrdered(nodes'[m].arcs, nodes'[m].cmpFn, nodes', arcs)
    BY <2>1, <2>14, <1>3 DEF Whole
  <2>17. InOrder(nodes', arcs', nodeSet', arcSet', nodeCmpFn', arcCmpFn')
    BY <2>13, <2>15, <2>16, <1>0 DEF InOrder
  <2>18. Changed(nodeSet, nodeSet')
    BY <2>5 DEF Changed
  <2> QED
    BY <2>12, <2>17, <2>18
<1>8. IntactOK' /\ WholeOK'
  BY <1>0, <1>7, Concluded
<1>9. RemovalOK'
  BY <1>0 DEF RemovalOK
<1>10. LoopOK'
  <2>1. ~ upset' => /\ IsSet(nodeSet) /\ IsSet(arcSet)
                    /\ Changed(nodeSet, nodeSet') /\ Changed(arcSet, arcSet')
    BY <1>0, <1>7, SetsDistinct DEF Changed
  <2> QED
    BY <2>1, <1>0, LoopKept
<1> QED
  BY <1>2, <1>6, <1>8, <1>9, <1>10

\* A step that changes nothing.
LEMMA Stuttering ==
    ASSUME GraphInv, UNCHANGED vars
    PROVE  GraphInv'
<1> USE DEF GraphInv, vars, blockVars, setVars
<1>1. Sorts' /\ BlocksOK' /\ UnusedOK'
  BY DEF Sorts, BlocksOK, UnusedOK
<1>2. IntactOK' /\ WholeOK'
  BY DEF IntactOK, WholeOK
<1>3. RemovalOK' /\ LoopOK'
  BY DEF RemovalOK, LoopOK, AllAhead, AtNode
<1> QED
  BY <1>1, <1>2, <1>3

-----------------------------------------------------------------------------
\* The passes of the loop in getNeighbors: f[i] is the set after i of them.
Pass(r, e) == CHOOSE t \in NodesWith(r, arcs[e.key].end, nodeCmpFn, nodes) : TRUE
Passes(s, m, f) == f = [i \in 0..m |-> IF i = 0 THEN <<>> ELSE Pass(f[i - 1], s[i])]
AllPasses(s) == CHOOSE f : Passes(s, Len(s), f)

\* There are such sets: the shortest loop without could be continued.
LEMMA SomePasses ==
    ASSUME NEW s, NEW n \in Nat
    PROVE  \E f : Passes(s, n, f)
<1> DEFINE Without == {m \in Nat : ~ \E f : Passes(s, m, f)}
<1>1. Without = {}
  <2> SUFFICES ASSUME Without # {} PROVE FALSE
    OBVIOUS
  <2>0. Without \in SUBSET Nat
    OBVIOUS
  <2> HIDE DEF Without
  <2>1. PICK m \in Without : \A y \in Without : m <= y
    BY <2>0, LeastIn
  <2> USE DEF Without
  <2>2. m # 0
    <3>1. Passes(s, 0, [i \in 0 .. 0 |-> <<>>])
      BY DEF Passes
    <3> QED
      BY <3>1
  <2>3. PICK g : Passes(s, m - 1, g)
    BY <2>1, <2>2
  <2> DEFINE h == [i \in 0 .. m |-> IF i = m THEN Pass(g[m - 1], s[m]) ELSE g[i]]
  <2>4. Passes(s, m, h)
    <3> SUFFICES ASSUME NEW i \in 0 .. m
                 PROVE  h[i] = IF i = 0 THEN <<>> ELSE Pass(h[i - 1], s[i])
      BY DEF Passes
    <3>1. CASE i = m
      BY <2>2, <3>1
    <3>2. CASE i # m
      <4>1. g[i] = IF i = 0 THEN <<>> ELSE Pass(g[i - 1], s[i])
        BY <2>2, <2>3, <3>2 DEF Passes
      <4> QED
        BY <2>2, <3>2, <4>1
    <3> QED
      BY <3>1, <3>2
  <2> QED
    BY <2>4
<1> QED
  BY <1>1

\* What getNeighbors returns is the set after the last pass.
LEMMA LastPass ==
    ASSUME NEW n, NEW s, s = nodes[n].arcs, Len(s) \in Nat
    PROVE  \E f : /\ getNeighbors(n) = f[Len(s)] /\ f[0] = <<>>
                  /\ \A i \in 1..Len(s) : f[i] = Pass(f[i - 1], s[i])
<1> DEFINE f == AllPasses(s)
<1>1. Passes(s, Len(s), f)
  BY SomePasses, Zenon DEF AllPasses
<1>2. AllPasses(nodes[n].arcs)[Len(nodes[n].arcs)] = getNeighbors(n)
  BY Zenon DEF getNeighbors, AllPasses, Passes, Pass
<1>3. getNeighbors(n) = f[Len(s)]
  BY <1>2
<1> HIDE DEF f
<1>4. PICK h : h = [i \in 0..Len(s) |-> IF i = 0 THEN <<>> ELSE Pass(f[i - 1], s[i])]
  OBVIOUS
<1>5. f = h
  BY <1>1, <1>4, Zenon DEF Passes
<1>6. ASSUME NEW i \in 0..Len(s) PROVE h[i] = IF i = 0 THEN <<>> ELSE Pass(f[i - 1], s[i])
  BY <1>4
<1>7. f[0] = <<>> /\ \A i \in 1..Len(s) : f[i] = Pass(f[i - 1], s[i])
  BY <1>5, <1>6
<1> QED
  BY <1>3, <1>7

\* The set of the ends of the first i arcs, in order.
EndsOf(s, i) == {arcs[s[p].key].end : p \in 1..i}
Neighbors(r, s, i) ==
    r \in Seq(Elements) /\ NodesOrdered(r, nodeCmpFn, nodes) /\ Keys(r) = EndsOf(s, i)

\* After n passes the set holds the ends of the first n arcs, in order.
LEMMA PassAdds ==
    ASSUME NEW s, NEW n \in Nat, NEW f, f[0] = <<>>,
           \A i \in 1..n : f[i] = Pass(f[i - 1], s[i]),
           \A i \in 1..n : arcs[s[i].key].end \in DOMAIN nodes,
           DOMAIN nodes \subseteq Nat, \A m \in DOMAIN nodes : nodes[m].name \in Int,
           \A l, m \in DOMAIN nodes : nodes[l].name = nodes[m].name => l = m
    PROVE  Neighbors(f[n], s, n)
<1> DEFINE Bad == {i \in 0..n : ~Neighbors(f[i], s, i)}
<1>1. SUFFICES ASSUME Bad # {} PROVE FALSE
  OBVIOUS
<1>2. Bad \in SUBSET Nat
  OBVIOUS
<1> HIDE DEF Bad
<1>3. PICK m \in Bad : \A y \in Bad : m <= y
  BY <1>1, <1>2, LeastIn
<1>4. m \in 0..n /\ ~Neighbors(f[m], s, m) /\ m \in Nat
  BY <1>3 DEF Bad
<1>5. m # 0
  <2>1. Keys(<<>>) = {} /\ <<>> \in Seq(Elements) /\ Len(<<>>) = 0
    BY EmptySet
  <2>2. NodesOrdered(<<>>, nodeCmpFn, nodes)
    BY <2>1 DEF NodesOrdered, Ordered
  <2>3. EndsOf(s, 0) = {}
    BY DEF EndsOf
  <2> QED
    BY <1>4, <2>1, <2>2, <2>3 DEF Neighbors
<1>6. m - 1 \in 0..n /\ m \in 1..n /\ m - 1 \in Nat
  BY <1>4, <1>5
<1>7. Neighbors(f[m - 1], s, m - 1)
  <2>1. m - 1 \notin Bad
    BY <1>2, <1>3
  <2> QED
    BY <1>6, <2>1 DEF Bad
<1> DEFINE r == f[m - 1]
           d == arcs[s[m].key].end
<1>8. /\ r \in Seq(Elements) /\ NodesOrdered(r, nodeCmpFn, nodes)
      /\ Keys(r) = EndsOf(s, m - 1) /\ d \in DOMAIN nodes
  BY <1>6, <1>7 DEF Neighbors
<1>9. Keys(r) \subseteq DOMAIN nodes
  <2>1. \A p \in 1..m - 1 : p \in 1..n
    BY <1>6
  <2>2. \A p \in 1..m - 1 : arcs[s[p].key].end \in DOMAIN nodes
    BY <2>1
  <2> QED
    BY <2>2, <1>8 DEF EndsOf
<1>10. f[m] = CHOOSE t \in NodesWith(r, d, nodeCmpFn, nodes) : TRUE
  BY <1>6 DEF Pass
<1> HIDE DEF r, d
<1>11. /\ NodesWith(r, d, nodeCmpFn, nodes) # {}
       /\ \A t \in NodesWith(r, d, nodeCmpFn, nodes) :
              /\ t \in Seq(Elements) /\ NodesOrdered(t, nodeCmpFn, nodes)
              /\ Keys(t) = Keys(r) \cup {d}
  BY <1>8, <1>9, NodeAdded
<1>12. f[m] \in NodesWith(r, d, nodeCmpFn, nodes)
  BY <1>10, <1>11
<1>13. EndsOf(s, m - 1) \cup {d} = EndsOf(s, m)
  <2>1. \A p \in 1..m : p \in 1..m - 1 \/ p = m
    BY <1>6
  <2>2. m \in 1..m /\ 1..m - 1 \subseteq 1..m
    BY <1>6
  <2> QED
    BY <2>1, <2>2 DEF EndsOf, d
<1> QED
  BY <1>4, <1>8, <1>11, <1>12, <1>13 DEF Neighbors

-----------------------------------------------------------------------------
\* The invariant holds of every graph, with any names, any costs, any programs.
THEOREM GraphInvariant == Spec => []GraphInv
<1>1. ASSUME GraphInv, [Next]_vars PROVE GraphInv'
  <2>1. CASE \E name \in Names : addNode(name)
    BY <1>1, <2>1, addNodeInv
  <2>2. CASE \E n1, n2 \in DOMAIN nodes : addArc(n1, n2)
    BY <1>1, <2>2, addArcInv
  <2>3. CASE \E a \in DOMAIN arcs : removeArc(a)
    BY <1>1, <2>3, removeArcInv
  <2>4. CASE \E a \in DOMAIN arcs : \E c \in Costs : setCost(a, c)
    BY <1>1, <2>4, setCostInv
  <2>5. CASE \E n \in DOMAIN nodes : BeginRemoveNode(n)
    BY <1>1, <2>5, BeginRemoveNodeInv
  <2>6. CASE StepRemoveNode
    BY <1>1, <2>6, StepRemoveNodeInv
  <2>7. CASE EndRemoveNode
    BY <1>1, <2>7, EndRemoveNodeInv
  <2>8. CASE \/ \E fn \in {"name", "reverse"} : setNodeOrdering(fn)
             \/ \E fn \in {"default", "cost"} : setArcOrdering(fn)
    BY <1>1, <2>8, OrderingInv
  <2>9. CASE \E over \in {"nodes", "arcs"} : BeginLoop(over)
    BY <1>1, <2>9, BeginLoopInv
  <2>10. CASE StepLoop
    BY <1>1, <2>10, StepLoopInv
  <2>11. CASE Catch
    BY <1>1, <2>11, CatchInv
  <2>12. CASE freeGraph
    BY <1>1, <2>12, freeGraphInv
  <2>13. CASE UNCHANGED vars
    BY <1>1, <2>13, Stuttering
  <2> QED
    BY <1>1, <2>1, <2>2, <2>3, <2>4, <2>5, <2>6, <2>7, <2>8, <2>9, <2>10, <2>11, <2>12, <2>13
       DEF Next
<1> QED
  BY <1>1, InitInv, PTL DEF Spec

\* Nothing is left of a graph that was freed.
FreedOK == status = "freed" => nodes = <<>> /\ nodeSet = <<>> /\ arcSet = <<>>

\* Only freeGraph makes the status so, and no operation is called after it.
LEMMA NothingAfterFree ==
    ASSUME FreedOK, [Next]_vars
    PROVE  FreedOK'
<1>1. \A outcome : Outcome(outcome) => status' = outcome \/ status' = "dangling"
  BY DEF Outcome
<1>2. CASE \E name \in Names : addNode(name)
  BY <1>1, <1>2 DEF addNode, FreedOK
<1>3. CASE \E n1, n2 \in DOMAIN nodes : addArc(n1, n2)
  BY <1>1, <1>3 DEF addArc, FreedOK
<1>4. CASE \E a \in DOMAIN arcs : removeArc(a) \/ \E c \in Costs : setCost(a, c)
  BY <1>1, <1>4 DEF removeArc, setCost, FreedOK
<1>5. CASE (\E n \in DOMAIN nodes : BeginRemoveNode(n)) \/ StepRemoveNode \/ EndRemoveNode
  BY <1>1, <1>5 DEF BeginRemoveNode, StepRemoveNode, EndRemoveNode, May, FreedOK
<1>6. CASE \/ \E fn \in {"name", "reverse"} : setNodeOrdering(fn)
           \/ \E fn \in {"default", "cost"} : setArcOrdering(fn)
  BY <1>1, <1>6 DEF setNodeOrdering, setArcOrdering, FreedOK
<1>7. CASE (\E over \in {"nodes", "arcs"} : BeginLoop(over)) \/ StepLoop \/ Catch
  BY <1>7 DEF BeginLoop, StepLoop, Catch, May, FreedOK
<1>8. CASE freeGraph
  BY <1>8 DEF freeGraph, FreedOK
<1>9. CASE UNCHANGED vars
  BY <1>9 DEF vars, blockVars, setVars, FreedOK
<1> QED
  BY <1>2, <1>3, <1>4, <1>5, <1>6, <1>7, <1>8, <1>9 DEF Next

\* Blocks have the types of graph.c.  No set holds a cell twice, in whatever order a
\* removal found it, and none holds an element twice until the program has upset it.
THEOREM TypeCorrect == Spec => []TypeOK
<1>1. ASSUME GraphInv, FreedOK PROVE TypeOK
  <2>1. Sorts /\ BlocksOK
    BY <1>1 DEF GraphInv
  <2>2. \A s \in {nodeSet, arcSet} \cup {nodes[n].arcs : n \in DOMAIN nodes} :
            IsTree(s) /\ (~ upset => IsSet(s))
    <3>1. IsTree(nodeSet) /\ IsTree(arcSet) /\ \A n \in DOMAIN nodes : IsTree(nodes[n].arcs)
      BY <2>1 DEF BlocksOK
    <3>2. ASSUME ~ upset
          PROVE  IsSet(nodeSet) /\ IsSet(arcSet) /\ \A n \in DOMAIN nodes : IsSet(nodes[n].arcs)
      <4>1. CASE status # "freed"
        BY <1>1, <2>1, <3>2, <4>1, SetsDistinct DEF GraphInv
      <4>2. CASE status = "freed"
        BY <1>1, <3>1, <4>2 DEF FreedOK, IsTree, IsSet, Distinct
      <4> QED
        BY <4>1, <4>2
    <3> QED
      BY <3>1, <3>2
  <2>3. \A s \in {nodeSet, arcSet} \cup {nodes[n].arcs : n \in DOMAIN nodes} :
            \A i, j \in 1..Len(s) :
                s[i].cell = s[j].cell \/ (~ upset /\ s[i].key = s[j].key) => i = j
    BY <2>2 DEF IsTree, IsSet, Distinct
  <2>4. /\ \A n \in DOMAIN nodes : nodes[n].name \in Names
        /\ \A a \in DOMAIN arcs : /\ arcs[a].start \in 1..MaxNodes
                                  /\ arcs[a].end \in 1..MaxNodes
                                  /\ arcs[a].cost \in Costs \cup {0}
    BY <2>1 DEF BlocksOK, NodeBlocks, ArcBlocks
  <2> QED
    BY <2>1, <2>3, <2>4 DEF TypeOK, Sorts, Statuses, BlocksOK
<1>2. Init => FreedOK
  BY DEF Init, FreedOK
<1> QED
  BY <1>1, <1>2, NothingAfterFree, GraphInvariant, PTL DEF Spec

\* The arcs of the graph are those of its nodes, none without its nodes, and names
\* and nodes belong to each other: after every call of graph.c and within removeNode.
THEOREM AlwaysConsistent == Spec => []Consistent
<1>1. ASSUME GraphInv PROVE Consistent
  BY <1>1 DEF GraphInv, WholeOK, Whole, Consistent, getNode
<1> QED
  BY <1>1, GraphInvariant, PTL

\* A foreach over the graph, and the one in removeNode that removes the arcs it runs
\* over, delivers each element once.
THEOREM EachAlwaysOnce == Spec => []EachOnce
<1>1. ASSUME GraphInv PROVE EachOnce
  BY <1>1 DEF GraphInv, RemovalOK, LoopOK, Ahead, EachOnce
<1> QED
  BY <1>1, GraphInvariant, PTL

\* graph.c leads nobody to freed memory who keeps the orders and removes only what
\* the loop has come to.
THEOREM FreedAlwaysByUpset == Spec => []FreedOnlyByUpset
<1>1. ASSUME GraphInv PROVE FreedOnlyByUpset
  BY <1>1 DEF GraphInv, WholeOK, LoopOK, FreedOnlyByUpset
<1> QED
  BY <1>1, GraphInvariant, PTL

\* getNeighbors returns the nodes that isConnected says an arc leads to, each once
\* and in the order of the nodes, for any number of arcs.
THEOREM NeighborsAlwaysConnected == Spec => []NeighborsConnected
<1>1. ASSUME GraphInv, ~upset, status = "ok", removal = NoLoop, NEW n \in DOMAIN nodes
      PROVE  /\ Keys(getNeighbors(n)) = {m \in DOMAIN nodes : isConnected(n, m)}
             /\ NodesOrdered(getNeighbors(n), nodeCmpFn, nodes)
  <2> DEFINE s == nodes[n].arcs
  <2>1. /\ s \in Seq(Elements) /\ Len(s) \in Nat
        /\ DOMAIN nodes \subseteq Nat /\ \A m \in DOMAIN nodes : nodes[m].name \in Int
    BY <1>1, GraphAssumption DEF GraphInv, BlocksOK, IsSet, NodeBlocks
  <2>2. Whole(nodes, arcs, nodeSet, arcSet, nameMap)
    BY <1>1 DEF GraphInv, WholeOK
  <2>3. \A l, m \in DOMAIN nodes : nodes[l].name = nodes[m].name => l = m
    BY <2>2 DEF Whole
  <2>4. \A i \in 1..Len(s) : arcs[s[i].key].end \in DOMAIN nodes
    <3>1. ASSUME NEW i \in 1..Len(s) PROVE s[i].key \in DOMAIN arcs
      <4>1. s[i].key \in Keys(nodes[n].arcs)
        BY DEF Keys
      <4> QED
        BY <1>1, <2>2, <4>1 DEF Whole
    <3> QED
      BY <2>2, <3>1 DEF Whole
  <2>5. PICK f : /\ getNeighbors(n) = f[Len(s)] /\ f[0] = <<>>
                 /\ \A i \in 1..Len(s) : f[i] = Pass(f[i - 1], s[i])
    BY <2>1, LastPass
  <2>6. Neighbors(f[Len(s)], s, Len(s))
    <3> HIDE DEF s
    <3> QED
      BY <2>1, <2>3, <2>4, <2>5, PassAdds
  <2>7. EndsOf(s, Len(s)) = {m \in DOMAIN nodes : isConnected(n, m)}
    BY <2>4 DEF EndsOf, isConnected
  <2> QED
    BY <2>5, <2>6, <2>7 DEF Neighbors
<1>2. GraphInv => NeighborsConnected
  BY <1>1 DEF NeighborsConnected
<1> QED
  BY <1>2, GraphInvariant, PTL
=============================================================================
