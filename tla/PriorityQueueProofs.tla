-------------------------- MODULE PriorityQueueProofs -------------------------
(***************************************************************************)
(* Proofs about module PriorityQueue for every capacity, every set of      *)
(* values and priorities and any number of values that come: the types,    *)
(* the order of the heap, and that the queue serves in the order of the    *)
(* priorities (module PriorityOrder).                                      *)
(*                                                                         *)
(* HeapOrder says nothing while a loop moves an entry.  The inductive      *)
(* invariant adds what then holds: every entry but the moving one comes    *)
(* after its parent, and the children of the moving one come after its     *)
(* parent, so that it may be passed by.                                    *)
(***************************************************************************)
EXTENDS PriorityQueue, FiniteSetTheorems, WellFoundedInduction, TLAPS

\* One entry comes before another.
Before(a, b) == \/ a.priority < b.priority
                \/ a.priority = b.priority /\ a.sequence < b.sequence

\* The numbers tell the entries apart.
Numbered ==
    /\ \A i \in InUse : heap[i].sequence < sequence
    /\ \A i, j \in InUse : heap[i].sequence = heap[j].sequence => i = j

\* Every entry after its parent, but for those that are left out.
OrderedExcept(left) == \A i \in InUse \ {0} : i \notin left => takesPriority(heap, Parent(i), i)
ChildrenOf(p) == {i \in InUse \ {0} : Parent(i) = p}

\* The children of the moving entry come after its parent.
Passable == index # 0 => \A c \in ChildrenOf(index) : takesPriority(heap, Parent(index), c)

Moving ==
    /\ loop = "none" => OrderedExcept({})
    /\ loop = "up" => index \in InUse /\ OrderedExcept({index}) /\ Passable
    /\ loop = "down" => /\ index \in InUse \/ (index = 0 /\ count = 0)
                        /\ OrderedExcept(ChildrenOf(index)) /\ Passable

BackKept == /\ loop # "down" /\ count > 0 /\ back # NotSet => back \in InUse
            /\ loop = "down" /\ back # NotSet => back \in 0..count /\ (wasBack <=> back = count)

IInv == PQTypeOK /\ Numbered /\ Moving /\ BackKept

-------------------------------------------------------------------------------
(* The comparison of entries is a strict order. *)

LEMMA BeforeOrder ==
    ASSUME NEW a \in Entries, NEW b \in Entries, NEW c \in Entries
    PROVE  /\ Before(a, b) /\ Before(b, c) => Before(a, c)
           /\ ~Before(a, b) /\ a.sequence # b.sequence => Before(b, a)
           /\ ~Before(a, a)
<1>1. /\ a.priority \in Int /\ b.priority \in Int /\ c.priority \in Int
      /\ a.sequence \in Nat /\ b.sequence \in Nat /\ c.sequence \in Nat
  BY PriorityQueueAssumption DEF Entries
<1> QED
  BY <1>1 DEF Before

LEMMA TakesIsBefore ==
    ASSUME NEW h, NEW i, NEW j
    PROVE  takesPriority(h, i, j) <=> Before(h[i], h[j])
  BY DEF takesPriority, Before

LEMMA ParentFacts ==
    ASSUME NEW i \in Nat \ {0}
    PROVE  /\ Parent(i) \in Nat /\ Parent(i) < i
           /\ i = 2 * Parent(i) + 1 \/ i = 2 * Parent(i) + 2
  BY DEF Parent

LEMMA ChildFacts ==
    ASSUME NEW p \in Nat
    PROVE  /\ Parent(2 * p + 1) = p /\ Parent(2 * p + 2) = p
           /\ \A i \in Nat \ {0} : Parent(i) = p => i \in {2 * p + 1, 2 * p + 2}
  BY DEF Parent

-------------------------------------------------------------------------------
(* In an ordered heap the entry at the root comes before every other: were   *)
(* there an entry that does not come after the root, take the least such     *)
(* place; its parent is smaller and comes after the root, or is the root.    *)

LEMMA LeastPlace ==
    ASSUME NEW S, S \subseteq Nat, S # {}
    PROVE  \E x \in S : \A y \in S : x <= y
<1> DEFINE Below == {0..x : x \in S}
<1>1. IsWellFoundedOn(StrictSubsetOrdering(Nat), FiniteSubsetsOf(Nat))
  BY FS_StrictSubsetOrderingWellFounded
<1>2. Below \subseteq FiniteSubsetsOf(Nat)
  <2> SUFFICES ASSUME NEW x \in S PROVE 0..x \in FiniteSubsetsOf(Nat)
    OBVIOUS
  <2>1. x \in Int /\ 0 \in Int /\ 0..x \subseteq Nat
    OBVIOUS
  <2>2. IsFiniteSet(0..x)
    BY <2>1, FS_Interval
  <2> QED
    BY <2>1, <2>2 DEF FiniteSubsetsOf
<1>0. Below # {}
  OBVIOUS
<1> HIDE DEF Below
<1>3. PICK m \in Below : \A b \in Below : ~ (<<b, m>> \in StrictSubsetOrdering(Nat))
  BY <1>0, <1>1, <1>2, WFMin
<1> USE DEF Below
<1>4. PICK x \in S : m = 0..x
  BY <1>3
<1>5. ASSUME NEW y \in S, y < x PROVE FALSE
  <2>1. 0..y \subseteq 0..x /\ x \in 0..x /\ x \notin 0..y
    BY <1>5
  <2>2. <<0..y, 0..x>> \in StrictSubsetOrdering(Nat)
    BY <2>1 DEF StrictSubsetOrdering
  <2> QED
    BY <2>2, <1>3, <1>4
<1> QED
  BY <1>5

LEMMA RootFirst ==
    ASSUME PQTypeOK, OrderedExcept({})
    PROVE  \A i \in InUse \ {0} : Before(heap[0], heap[i])
<1> DEFINE Bad == {i \in InUse \ {0} : ~Before(heap[0], heap[i])}
<1>1. SUFFICES ASSUME Bad # {} PROVE FALSE
  OBVIOUS
<1>2. Bad \subseteq Nat
  BY DEF InUse, PQTypeOK
<1> HIDE DEF Bad
<1>3. PICK x \in Bad : \A y \in Bad : x <= y
  BY <1>1, <1>2, LeastPlace
<1> USE DEF Bad
<1>4. x \in Nat \ {0} /\ x \in InUse
  BY <1>3 DEF InUse, PQTypeOK
<1>5. Parent(x) \in InUse /\ Parent(x) < x /\ Parent(x) \in Nat
  BY <1>4, ParentFacts DEF InUse, PQTypeOK
<1>6. Before(heap[Parent(x)], heap[x])
  BY <1>4, TakesIsBefore DEF OrderedExcept
<1>7. CASE Parent(x) = 0
  BY <1>6, <1>7, <1>3
<1>8. CASE Parent(x) # 0
  <2>1. Parent(x) \notin Bad
    BY <1>5, <1>3, <1>4
  <2>2. Before(heap[0], heap[Parent(x)])
    BY <2>1, <1>5, <1>8
  <2>3. heap[0] \in Entries /\ heap[Parent(x)] \in Entries /\ heap[x] \in Entries
    BY <1>4, <1>5 DEF PQTypeOK, InUse
  <2> QED
    BY <2>2, <2>3, <1>6, <1>3, BeforeOrder
<1> QED
  BY <1>7, <1>8

-------------------------------------------------------------------------------
(* The places that a step of a loop tells apart. *)

LEMMA InRange ==
    ASSUME NEW c \in Nat, NEW k \in Nat
    PROVE  /\ k < c => k \in 0..c - 1
           /\ k <= c => k \in 0..c
  OBVIOUS

LEMMA PlacesInUse ==
    ASSUME PQTypeOK
    PROVE  /\ InUse \subseteq Nat /\ InUse \subseteq DOMAIN heap
           /\ \A i \in InUse \ {0} : Parent(i) \in InUse /\ Parent(i) < i
           /\ \A i \in InUse : heap[i] \in Entries
<1>1. InUse \subseteq Nat /\ InUse \subseteq DOMAIN heap
  BY DEF PQTypeOK, InUse
<1>2. ASSUME NEW i \in InUse \ {0} PROVE Parent(i) \in InUse /\ Parent(i) < i
  <2>1. i \in Nat \ {0}
    BY <1>1
  <2> QED
    BY <2>1, ParentFacts DEF InUse, PQTypeOK
<1> QED
  BY <1>1, <1>2 DEF PQTypeOK

(* A swap of two entries in use keeps the types and the numbers. *)
LEMMA SwapKeeps ==
    ASSUME PQTypeOK, Numbered, NEW i \in InUse, NEW j \in InUse,
           heap' = swapHeapEntries(heap, i, j)
    PROVE  /\ heap' \in [0..capacity - 1 -> Entries \cup {Junk}]
           /\ \A k \in InUse : heap'[k] \in Entries /\ heap'[k].sequence < sequence
           /\ \A k, l \in InUse : heap'[k].sequence = heap'[l].sequence => k = l
           /\ {heap'[k] : k \in InUse} = {heap[k] : k \in InUse}
<1>1. \A k \in InUse : heap'[k] = IF k = j THEN heap[i] ELSE IF k = i THEN heap[j] ELSE heap[k]
  <2>1. i \in DOMAIN heap /\ j \in DOMAIN heap /\ InUse \subseteq DOMAIN heap
    BY PlacesInUse
  <2> QED
    BY <2>1 DEF swapHeapEntries
<1>2. heap' \in [0..capacity - 1 -> Entries \cup {Junk}]
  BY PlacesInUse DEF swapHeapEntries, PQTypeOK
<1>3. \A k \in InUse : heap'[k] \in Entries /\ heap'[k].sequence < sequence
  BY <1>1, PlacesInUse DEF Numbered
<1>4. \A k, l \in InUse : heap'[k].sequence = heap'[l].sequence => k = l
  BY <1>1 DEF Numbered
<1>5. {heap'[k] : k \in InUse} = {heap[k] : k \in InUse}
  <2>1. \A k \in InUse : heap'[k] \in {heap[l] : l \in InUse}
    BY <1>1
  <2>2. ASSUME NEW k \in InUse PROVE heap[k] \in {heap'[l] : l \in InUse}
    <3>1. CASE k = i
      BY <1>1, <3>1
    <3>2. CASE k = j
      BY <1>1, <3>2
    <3>3. CASE k # i /\ k # j
      BY <1>1, <3>3
    <3> QED
      BY <3>1, <3>2, <3>3
  <2> QED
    BY <2>1, <2>2
<1> QED
  BY <1>2, <1>3, <1>4, <1>5

-------------------------------------------------------------------------------
(* One lemma for every action.  A step of a loop is looked at once with the  *)
(* moving entry i and the entry it changes places with.                      *)

LEMMA InitHolds == PQInit => IInv
<1> SUFFICES ASSUME PQInit PROVE IInv
  OBVIOUS
<1>2. InUse = {}
  BY DEF PQInit, InUse
<1>1. PQTypeOK
  <2>1. heap \in [0..capacity - 1 -> Entries \cup {Junk}]
    BY DEF PQInit
  <2>2. capacity \in Nat \ {0} /\ count \in 0..capacity /\ sequence \in 0..MaxSequence
    BY PriorityQueueAssumption DEF PQInit
  <2>3. index \in 0..capacity - 1
    BY PriorityQueueAssumption DEF PQInit
  <2> QED
    BY <1>2, <2>1, <2>2, <2>3 DEF PQInit, PQTypeOK
<1>3. Numbered /\ Moving /\ BackKept
  BY <1>2 DEF Numbered, Moving, OrderedExcept, BackKept, PQInit, NotSet
<1> QED
  BY <1>1, <1>3 DEF IInv

LEMMA MoveUpKeeps == IInv /\ MoveUp => IInv'
<1> SUFFICES ASSUME IInv, MoveUp PROVE IInv'
  OBVIOUS
<1> USE DEF IInv
<1>1. /\ index \in InUse /\ OrderedExcept({index}) /\ Passable
      /\ InUse' = InUse /\ InUse \subseteq Nat /\ index \in Nat
  <2>1. InUse' = InUse
    BY DEF MoveUp, InUse
  <2>2. index \in InUse /\ OrderedExcept({index}) /\ Passable
    BY DEF MoveUp, Moving
  <2> QED
    BY <2>1, <2>2, PlacesInUse
<1>2. BackKept'
  BY DEF BackKept, MoveUp, InUse
<1>3. CASE index = 0 \/ takesPriority(heap, Parent(index), index)
  <2>1. loop' = "none" /\ heap' = heap /\ index' = index
    BY <1>3 DEF MoveUp, Parent
  <2>2. PQTypeOK' /\ Numbered'
    BY <2>1, <1>1 DEF PQTypeOK, Numbered, MoveUp, InUse
  <2>3. OrderedExcept({})'
    BY <2>1, <1>1, <1>3 DEF OrderedExcept, takesPriority
  <2> QED
    BY <2>1, <2>2, <2>3, <1>2 DEF Moving
<1>4. CASE ~ (index = 0 \/ takesPriority(heap, Parent(index), index))
  <2> DEFINE i == index
             p == Parent(index)
  <2>1. /\ loop' = "up" /\ heap' = swapHeapEntries(heap, p, i) /\ index' = p
        /\ i # 0 /\ p \in InUse /\ p < i /\ p # i
    BY <1>4, <1>1, PlacesInUse DEF MoveUp, Parent
  <2> HIDE DEF i, p
  <2>2. i \in InUse \ {0} /\ p = Parent(i) /\ index = i /\ ~takesPriority(heap, p, i)
    BY <2>1, <1>1, <1>4 DEF i, p
  <2>11. index' \in 0..capacity' - 1
    BY <2>1, PlacesInUse DEF PQTypeOK, MoveUp
  <2>3. PQTypeOK' /\ Numbered'
    BY <2>1, <2>2, <2>11, <1>1, SwapKeeps DEF PQTypeOK, Numbered, MoveUp
  <2>4. \A k \in InUse : heap'[k] = IF k = i THEN heap[p] ELSE IF k = p THEN heap[i] ELSE heap[k]
    BY <2>1, <2>2, PlacesInUse DEF swapHeapEntries
  <2>5. Before(heap[i], heap[p])
    <3>1. heap[i].sequence # heap[p].sequence
      BY <2>1, <2>2 DEF Numbered
    <3> QED
      BY <2>1, <2>2, <3>1, PlacesInUse, BeforeOrder, TakesIsBefore
  <2>6. \A k \in InUse \ {0} : k # i => Before(heap[Parent(k)], heap[k])
    BY <1>1, <2>2, TakesIsBefore DEF OrderedExcept
  <2>7. \A k \in InUse \ {0} : Parent(k) = i => Before(heap[p], heap[k])
    BY <1>1, <2>2, TakesIsBefore DEF Passable, ChildrenOf
  <2>8. ASSUME NEW k \in InUse \ {0}, k # p
        PROVE  Before(heap'[Parent(k)], heap'[k])
    <3>1. Parent(k) \in InUse /\ Parent(k) < k
      BY PlacesInUse
    <3>2. CASE k = i
      BY <3>2, <2>1, <2>2, <2>4, <2>5
    <3>3. CASE k # i /\ Parent(k) = i
      BY <3>1, <3>3, <2>1, <2>2, <2>4, <2>7, <2>8
    <3>4. CASE k # i /\ Parent(k) = p
      <4>1. Before(heap[i], heap[k])
        BY <3>4, <2>1, <2>2, <2>5, <2>6, PlacesInUse, BeforeOrder
      <4> QED
        BY <4>1, <3>1, <3>4, <2>1, <2>2, <2>4, <2>8
    <3>5. CASE k # i /\ Parent(k) # i /\ Parent(k) # p
      BY <3>1, <3>5, <2>1, <2>2, <2>4, <2>6, <2>8
    <3> QED
      BY <3>2, <3>3, <3>4, <3>5
  <2>9. ASSUME p # 0, NEW k \in InUse \ {0}, Parent(k) = p
        PROVE  Before(heap'[Parent(p)], heap'[k])
    <3>1. /\ p \in InUse \ {0} /\ Parent(p) \in InUse /\ Parent(p) < p /\ p < k
          /\ Parent(p) # p /\ Parent(p) # i /\ k # p
      BY <2>1, <2>2, <2>9, <1>1, PlacesInUse
    <3>2. Before(heap[Parent(p)], heap[p])
      BY <3>1, <2>1, <2>6
    <3>3. heap'[Parent(p)] = heap[Parent(p)]
      BY <3>1, <2>4
    <3>4. CASE k = i
      BY <3>2, <3>3, <3>4, <2>2, <2>4
    <3>5. CASE k # i
      <4>1. Before(heap[p], heap[k]) /\ heap'[k] = heap[k]
        BY <3>5, <3>1, <2>4, <2>6, <2>9
      <4> QED
        BY <4>1, <3>1, <3>2, <3>3, PlacesInUse, BeforeOrder
    <3> QED
      BY <3>4, <3>5
  <2>10. Moving'
    <3>1. OrderedExcept({index})'
      BY <2>8, <2>1, <1>1, TakesIsBefore DEF OrderedExcept
    <3>2. Passable'
      BY <2>9, <2>1, <1>1, TakesIsBefore DEF Passable, ChildrenOf
    <3> QED
      BY <3>1, <3>2, <2>1, <1>1 DEF Moving
  <2> QED
    BY <2>3, <2>10, <1>2
<1> QED
  BY <1>3, <1>4

(* Where the entry that moves down stands, and its child that comes first. *)
LEMMA FirstChildFirst ==
    ASSUME IInv, index \in InUse, 2 * index + 1 < count
    PROVE  /\ FirstChild(index) \in InUse \ {0}
           /\ Parent(FirstChild(index)) = index /\ index < FirstChild(index)
           /\ \A k \in ChildrenOf(index) :
                 k # FirstChild(index) => Before(heap[FirstChild(index)], heap[k])
<1> USE DEF IInv
<1> DEFINE l == 2 * index + 1
           r == 2 * index + 2
<1>1. index \in Nat /\ count \in Nat
  BY DEF PQTypeOK
<1>2. Parent(l) = index /\ Parent(r) = index
  BY <1>1, ChildFacts
<1>3. \A k \in ChildrenOf(index) : k \in {l, r} /\ k \in InUse
  BY <1>1, ChildFacts, PlacesInUse DEF ChildrenOf
<1>4. l \in InUse \ {0} /\ (r < count => r \in InUse) /\ l # r /\ index < l /\ index < r /\ r # 0
  BY <1>1 DEF InUse
<1>5. r \in InUse => r < count
  BY <1>1 DEF InUse
<1> HIDE DEF l, r
<1>6. FirstChild(index) = IF r < count THEN IF takesPriority(heap, r, l) THEN r ELSE l ELSE l
  BY DEF FirstChild, l, r
<1>7. CASE r < count
  <2>1. heap[l].sequence # heap[r].sequence /\ heap[l] \in Entries /\ heap[r] \in Entries
    BY <1>4, <1>7, PlacesInUse DEF Numbered
  <2>2. ~takesPriority(heap, r, l) => Before(heap[l], heap[r])
    BY <2>1, BeforeOrder, TakesIsBefore
  <2>3. takesPriority(heap, r, l) => Before(heap[r], heap[l])
    BY TakesIsBefore
  <2> QED
    BY <2>2, <2>3, <1>2, <1>3, <1>4, <1>6, <1>7
<1>8. CASE ~ (r < count)
  BY <1>8, <1>2, <1>3, <1>4, <1>5, <1>6
<1> QED
  BY <1>7, <1>8

LEMMA MoveDownEnds ==
    ASSUME IInv, MoveDown, LoopEnds,
           index \in InUse => \A k \in ChildrenOf(index) : Before(heap[index], heap[k])
    PROVE  IInv'
<1> USE DEF IInv
<1>1. /\ loop = "down" /\ loop' = "none" /\ heap' = heap /\ index' = index
      /\ UNCHANGED <<capacity, count, sequence, wasBack>>
      /\ back' = IF wasBack THEN index ELSE back
  BY DEF MoveDown, LoopEnds
<1>2. InUse' = InUse
  BY <1>1 DEF InUse
<1>3. PQTypeOK' /\ Numbered'
  BY <1>1, <1>2 DEF PQTypeOK, Numbered
<1>4. index \in InUse \/ (index = 0 /\ count = 0)
  BY <1>1 DEF Moving
<1>5. OrderedExcept({})'
  <2> SUFFICES ASSUME NEW k \in InUse \ {0} PROVE Before(heap[Parent(k)], heap[k])
    BY <1>1, <1>2, TakesIsBefore DEF OrderedExcept
  <2>1. index \in InUse
    BY <1>4 DEF InUse
  <2>2. CASE k \in ChildrenOf(index)
    BY <2>1, <2>2 DEF ChildrenOf
  <2>3. CASE k \notin ChildrenOf(index)
    BY <2>3, <1>1, TakesIsBefore DEF Moving, OrderedExcept
  <2> QED
    BY <2>2, <2>3
<1>6. BackKept'
  <2>1. CASE wasBack
    BY <2>1, <1>1, <1>4, <1>2 DEF BackKept, InUse
  <2>2. CASE ~wasBack
    BY <2>2, <1>1, <1>2 DEF BackKept, InUse, PQTypeOK
  <2> QED
    BY <2>1, <2>2
<1> QED
  BY <1>1, <1>3, <1>5, <1>6 DEF Moving

LEMMA MoveDownKeeps == IInv /\ MoveDown => IInv'
<1> SUFFICES ASSUME IInv, MoveDown PROVE IInv'
  OBVIOUS
<1> USE DEF IInv
<1>1. /\ loop = "down" /\ index \in Nat /\ count \in Nat /\ InUse \subseteq Nat
      /\ UNCHANGED <<capacity, count, sequence, wasBack>>
      /\ index \in InUse \/ (index = 0 /\ count = 0)
      /\ OrderedExcept(ChildrenOf(index)) /\ Passable
  BY PlacesInUse DEF MoveDown, Moving, PQTypeOK
<1>2. InUse' = InUse
  BY <1>1 DEF InUse
<1>3. CASE 2 * index + 1 >= count
  <2>1. LoopEnds
    BY <1>3 DEF MoveDown
  <2>2. ChildrenOf(index) = {}
    <3> SUFFICES ASSUME NEW k \in InUse \ {0}, Parent(k) = index PROVE FALSE
      BY DEF ChildrenOf
    <3>1. k \in {2 * index + 1, 2 * index + 2} /\ k < count
      BY <1>1, ChildFacts DEF InUse
    <3> QED
      BY <3>1, <1>1, <1>3
  <2> QED
    BY <2>1, <2>2, MoveDownEnds
<1>4. CASE 2 * index + 1 < count
  <2> DEFINE i == index
             c == FirstChild(index)
  <2>0. i \in InUse
    BY <1>1, <1>4
  <2>1. /\ c \in InUse \ {0} /\ Parent(c) = i /\ i < c /\ i # c
        /\ \A k \in ChildrenOf(i) : k # c => Before(heap[c], heap[k])
    BY <2>0, <1>1, <1>4, FirstChildFirst
  <2>2. CASE takesPriority(heap, i, c)
    <3>1. LoopEnds
      BY <2>2, <1>4, <1>1 DEF MoveDown
    <3>2. ASSUME NEW k \in ChildrenOf(i) PROVE Before(heap[i], heap[k])
      <4>1. k \in InUse
        BY DEF ChildrenOf
      <4> QED
        BY <4>1, <2>0, <2>1, <2>2, PlacesInUse, BeforeOrder, TakesIsBefore
    <3> QED
      BY <3>1, <3>2, MoveDownEnds
  <2>3. CASE ~takesPriority(heap, i, c)
    <3>1. heap' = swapHeapEntries(heap, i, c) /\ index' = c /\ UNCHANGED <<loop, back>>
      BY <2>3, <1>4, <1>1 DEF MoveDown
    <3>2. i = index
      OBVIOUS
    <3> HIDE DEF i, c
    <3>12. index' \in 0..capacity' - 1
      BY <3>1, <2>1, <1>1, PlacesInUse DEF PQTypeOK
    <3>3. PQTypeOK' /\ Numbered'
      BY <3>1, <3>12, <2>0, <2>1, <1>1, <1>2, SwapKeeps DEF PQTypeOK, Numbered
    <3>4. \A k \in InUse : heap'[k] = IF k = c THEN heap[i] ELSE IF k = i THEN heap[c] ELSE heap[k]
      BY <3>1, <2>0, <2>1, PlacesInUse DEF swapHeapEntries
    <3>5. Before(heap[c], heap[i])
      <4>1. heap[i].sequence # heap[c].sequence
        BY <2>0, <2>1 DEF Numbered
      <4> QED
        BY <4>1, <2>0, <2>1, <2>3, PlacesInUse, BeforeOrder, TakesIsBefore
    <3>6. \A k \in InUse \ {0} : Parent(k) # i => Before(heap[Parent(k)], heap[k])
      BY <1>1, <3>2, TakesIsBefore DEF OrderedExcept, ChildrenOf
    <3>7. i # 0 => Before(heap[Parent(i)], heap[c])
      BY <1>1, <3>2, <2>1, TakesIsBefore DEF Passable, ChildrenOf
    <3>8. ASSUME NEW k \in InUse \ {0}, Parent(k) # c
          PROVE  Before(heap'[Parent(k)], heap'[k])
      <4>1. Parent(k) \in InUse /\ Parent(k) < k
        BY PlacesInUse
      <4>2. CASE k = c
        BY <4>2, <2>0, <2>1, <3>4, <3>5
      <4>3. CASE k # c /\ Parent(k) = i
        <5>1. k \in ChildrenOf(i) /\ k # i
          BY <4>3, <4>1, <1>1 DEF ChildrenOf
        <5> QED
          BY <5>1, <4>3, <2>0, <2>1, <3>4
      <4>4. CASE k = i
        <5>1. Parent(k) # i
          BY <4>1, <4>4, <1>1
        <5> QED
          BY <5>1, <4>1, <4>4, <2>0, <2>1, <3>4, <3>7, <3>8
      <4>5. CASE k # c /\ k # i /\ Parent(k) # i
        BY <4>1, <4>5, <3>4, <3>6, <3>8
      <4> QED
        BY <4>2, <4>3, <4>4, <4>5
    <3>9. ASSUME NEW k \in InUse \ {0}, Parent(k) = c
          PROVE  Before(heap'[Parent(c)], heap'[k])
      <4>1. c < k
        BY <3>9, PlacesInUse
      <4>2. k # c /\ k # i
        BY <4>1, <2>1, <1>1, <3>2
      <4>3. Before(heap[c], heap[k])
        BY <3>6, <3>9, <2>1
      <4> QED
        BY <4>2, <4>3, <2>0, <2>1, <3>4
    <3>10. Moving'
      <4>1. (OrderedExcept(ChildrenOf(index)))'
        <5> SUFFICES ASSUME NEW k \in InUse \ {0}, k \notin ChildrenOf(c)
                     PROVE  Before(heap'[Parent(k)], heap'[k])
          BY <3>1, <1>2, TakesIsBefore DEF OrderedExcept, ChildrenOf, Parent
        <5> QED
          BY <3>8 DEF ChildrenOf
      <4>2. Passable'
        BY <3>9, <3>1, <1>2, TakesIsBefore DEF Passable, ChildrenOf, Parent
      <4> QED
        BY <4>1, <4>2, <3>1, <2>1, <1>1, <1>2 DEF Moving
    <3>11. BackKept'
      BY <3>1, <1>1, <1>2 DEF BackKept
    <3> QED
      BY <3>3, <3>10, <3>11
  <2> QED
    BY <2>2, <2>3
<1> QED
  BY <1>1, <1>3, <1>4

LEMMA EnqueueKeeps ==
    ASSUME IInv, NEW value \in Values, NEW priority \in Priorities,
           loop = "none", sequence < MaxSequence, enqueuePriorityQueue(value, priority)
    PROVE  /\ IInv'
           /\ EntriesInUse' = EntriesInUse \cup
                 {[value |-> value, priority |-> priority, sequence |-> sequence]}
<1> USE DEF IInv
<1> DEFINE room == IF count = capacity THEN expandHeap(heap) ELSE heap
           entry == [value |-> value, priority |-> priority, sequence |-> sequence]
<1>1. /\ loop = "none" /\ loop' = "up" /\ heap' = [room EXCEPT ![count] = entry]
      /\ capacity' = (IF count = capacity THEN 2 * capacity ELSE capacity)
      /\ sequence' = sequence + 1 /\ sequence < MaxSequence
      /\ count' = count + 1 /\ index' = count /\ wasBack' = wasBack
  BY DEF enqueuePriorityQueue
<1>2. /\ count \in Nat /\ capacity \in Nat \ {0} /\ count <= capacity
      /\ sequence \in Nat /\ MaxSequence \in Nat /\ capacity' \in Nat \ {0} /\ count < capacity'
  BY <1>1, PriorityQueueAssumption DEF PQTypeOK
<1>3. /\ InUse' = InUse \cup {count} /\ count \notin InUse
      /\ \A k \in InUse : k < count /\ k \in Nat
  BY <1>1, <1>2 DEF InUse
<1>4. /\ room \in [0..capacity' - 1 -> Entries \cup {Junk}]
      /\ \A k \in InUse : room[k] = heap[k]
  <2>1. CASE count = capacity
    <3>1. room = [i \in 0..2 * capacity - 1 |-> IF i < count THEN heap[i] ELSE Junk]
      BY <2>1 DEF expandHeap
    <3>2. \A i \in 0..2 * capacity - 1 : i < count => i \in InUse
      BY <1>2 DEF InUse
    <3>3. \A k \in InUse : k \in 0..2 * capacity - 1
      BY <1>2, <2>1 DEF InUse
    <3> HIDE DEF room
    <3> QED
      BY <3>1, <3>2, <3>3, <1>1, <1>3, <2>1, PlacesInUse
  <2>2. CASE count # capacity
    BY <2>2, <1>1 DEF PQTypeOK
  <2> QED
    BY <2>1, <2>2
<1> HIDE DEF room
<1>5. entry \in Entries /\ entry.sequence = sequence
  BY <1>2 DEF Entries
<1>6. /\ heap' \in [0..capacity' - 1 -> Entries \cup {Junk}]
      /\ heap'[count] = entry
      /\ \A k \in InUse : heap'[k] = heap[k]
  <2> HIDE DEF entry
  <2>0. count \in Nat /\ capacity' \in Nat /\ count < capacity'
    BY <1>2
  <2>1. count \in 0..capacity' - 1
    BY <2>0, InRange
  <2>2. ASSUME NEW k \in InUse PROVE k \in 0..capacity' - 1 /\ k # count
    <3>1. k \in Nat /\ k # count /\ k < capacity'
      BY <1>3, <2>0
    <3> QED
      BY <2>0, <3>1, InRange
  <2> QED
    BY <2>1, <2>2, <1>1, <1>4, <1>5
<1> HIDE DEF entry
<1>7. back' \in InUse' \cup {NotSet}
  <2>1. CASE count = 0
    BY <2>1, <1>3 DEF enqueuePriorityQueue
  <2>2. CASE count # 0
    <3>1. back' = count \/ back' = back
      BY <2>2 DEF enqueuePriorityQueue
    <3>2. back # NotSet => back \in InUse
      BY <2>2, <1>1, <1>2 DEF BackKept
    <3> QED
      BY <3>1, <3>2, <1>2, <1>3 DEF PQTypeOK
  <2> QED
    BY <2>1, <2>2
<1>8. PQTypeOK'
  <2>1. \A k \in InUse' : heap'[k] \in Entries
    BY <1>3, <1>5, <1>6, PlacesInUse
  <2>2. count' \in 0..capacity' /\ sequence' \in 0..MaxSequence
    BY <1>1, <1>2
  <2>3. wasBack' \in BOOLEAN /\ loop' \in {"none", "up", "down", "crashed"}
    BY <1>1 DEF PQTypeOK
  <2>4. InUse' \subseteq 0..capacity' - 1
    BY <1>1, <1>2 DEF InUse
  <2>5. index' \in 0..capacity' - 1 /\ back' \in 0..capacity' - 1 \cup {NotSet}
    BY <2>4, <1>1, <1>3, <1>7
  <2> QED
    BY <2>1, <2>2, <2>3, <2>5, <1>2, <1>6 DEF PQTypeOK
<1>9. Numbered'
  <2>1. \A k \in InUse : heap'[k].sequence < sequence /\ heap'[k].sequence \in Nat
    BY <1>6, PlacesInUse DEF Numbered, Entries
  <2>2. \A k, l \in InUse : heap'[k].sequence = heap'[l].sequence => k = l
    BY <1>6 DEF Numbered
  <2>3. heap'[count].sequence = sequence
    BY <1>5, <1>6
  <2>4. \A k \in InUse' : heap'[k].sequence < sequence'
    BY <2>1, <2>3, <1>1, <1>2, <1>3
  <2>5. \A k, l \in InUse' : heap'[k].sequence = heap'[l].sequence => k = l
    BY <2>1, <2>2, <2>3, <1>2, <1>3
  <2> QED
    BY <2>4, <2>5 DEF Numbered
<1>10. Moving'
  <2>1. index' \in InUse'
    BY <1>1, <1>3
  <2>2. ASSUME NEW k \in InUse' \ {0}, k # count
        PROVE  Before(heap'[Parent(k)], heap'[k])
    <3>1. k \in InUse \ {0} /\ Parent(k) \in InUse
      BY <2>2, <1>3, PlacesInUse
    <3>2. Before(heap[Parent(k)], heap[k])
      BY <3>1, <1>1, TakesIsBefore DEF Moving, OrderedExcept
    <3> QED
      BY <3>1, <3>2, <1>6
  <2>3. ASSUME NEW k \in InUse' \ {0} PROVE Parent(k) # count
    BY <2>3, <1>2, <1>3, ParentFacts
  <2>4. OrderedExcept({index})' /\ Passable'
    BY <1>1, <2>2, <2>3, TakesIsBefore DEF OrderedExcept, Passable, ChildrenOf, Parent
  <2> QED
    BY <1>1, <2>1, <2>4 DEF Moving
<1>11. BackKept'
  BY <1>1, <1>7 DEF BackKept
<1>12. EntriesInUse' = EntriesInUse \cup {entry}
  BY <1>3, <1>6 DEF EntriesInUse
<1> QED
  BY <1>8, <1>9, <1>10, <1>11, <1>12 DEF entry

(* Where the program is stopped, the queue stays as it was. *)
LEMMA CrashKeeps ==
    ASSUME IInv, ReadOutside
    PROVE  IInv' /\ UNCHANGED <<EntriesInUse, sequence, last>>
<1>1. /\ loop' = "crashed" /\ back = NotSet
      /\ UNCHANGED <<heap, capacity, count, back, sequence, index, wasBack, last>>
  BY DEF ReadOutside
<1>2. InUse' = InUse
  BY <1>1 DEF InUse
<1>3. PQTypeOK' /\ Numbered' /\ BackKept' /\ EntriesInUse' = EntriesInUse
  BY <1>1, <1>2 DEF IInv, PQTypeOK, Numbered, BackKept, EntriesInUse
<1>4. Moving'
  BY <1>1 DEF Moving
<1> QED
  BY <1>1, <1>3, <1>4 DEF IInv

(* The entry at the root leaves; it comes before every other. *)
LEMMA DequeueKeeps ==
    ASSUME IInv, dequeuePriorityQueue, count # 0
    PROVE  /\ IInv'
           /\ heap[0] \in EntriesInUse
           /\ \A f \in EntriesInUse \ {heap[0]} : Before(heap[0], f)
           /\ EntriesInUse' = EntriesInUse \ {heap[0]}
<1> USE DEF IInv
<1> DEFINE n == count - 1
<1>1. /\ loop = "none" /\ loop' = "down" /\ count' = n /\ index' = 0
      /\ wasBack' \in BOOLEAN /\ (back # NotSet => wasBack' = (back = n))
      /\ heap' = swapHeapEntries(heap, 0, n)
      /\ UNCHANGED <<capacity, back, sequence>>
  BY DEF dequeuePriorityQueue, Idle
<1>2. /\ n \in Nat /\ count \in Nat \ {0} /\ n < count /\ n \in InUse /\ 0 \in InUse
      /\ InUse' = InUse \ {n} /\ InUse \subseteq Nat
      /\ \A k \in InUse : k <= n
  BY <1>1 DEF PQTypeOK, InUse
<1>3. n # NotSet
  BY <1>2 DEF NotSet
<1>4. back # NotSet => back \in InUse
  BY <1>1, <1>2 DEF BackKept
<1> HIDE DEF n
<1>5. /\ heap' \in [0..capacity - 1 -> Entries \cup {Junk}]
      /\ \A k \in InUse : heap'[k] \in Entries /\ heap'[k].sequence < sequence
      /\ \A k, l \in InUse : heap'[k].sequence = heap'[l].sequence => k = l
  BY <1>1, <1>2, SwapKeeps
<1>6. \A k \in InUse : heap'[k] = IF k = n THEN heap[0] ELSE IF k = 0 THEN heap[n] ELSE heap[k]
  BY <1>1, <1>2, PlacesInUse DEF swapHeapEntries
<1>7. PQTypeOK'
  <2>1. count' \in 0..capacity'
    BY <1>1, <1>2 DEF PQTypeOK
  <2>2. \A k \in InUse' : heap'[k] \in Entries
    BY <1>2, <1>5
  <2>3. index' \in 0..capacity' - 1
    BY <1>1 DEF PQTypeOK
  <2> QED
    BY <2>1, <2>2, <2>3, <1>1, <1>5 DEF PQTypeOK
<1>8. Numbered'
  BY <1>1, <1>2, <1>5 DEF Numbered
<1>9. Moving'
  <2>1. ASSUME NEW k \in InUse' \ {0}, Parent(k) # 0
        PROVE  Before(heap'[Parent(k)], heap'[k])
    <3>1. k \in InUse \ {0} /\ k # n /\ Parent(k) \in InUse /\ Parent(k) < k /\ k <= n /\ Parent(k) # n
      BY <1>2, PlacesInUse
    <3>2. Before(heap[Parent(k)], heap[k])
      BY <3>1, <1>1, TakesIsBefore DEF Moving, OrderedExcept
    <3> QED
      BY <3>1, <3>2, <2>1, <1>6
  <2>2. OrderedExcept(ChildrenOf(index))'
    BY <1>1, <2>1, TakesIsBefore DEF OrderedExcept, ChildrenOf, Parent
  <2>3. Passable'
    BY <1>1 DEF Passable
  <2>4. index' \in InUse' \/ (index' = 0 /\ count' = 0)
    BY <1>1, <1>2 DEF InUse
  <2> QED
    BY <1>1, <2>2, <2>3, <2>4 DEF Moving
<1>10. BackKept'
  <2>1. back # NotSet => back \in 0..n
    <3>1. back # NotSet => back \in Nat /\ back <= n
      BY <1>2, <1>4
    <3> QED
      BY <3>1, <1>2, InRange
  <2> QED
    BY <2>1, <1>1, <1>3 DEF BackKept
<1>11. heap[0] \in EntriesInUse
  BY <1>2 DEF EntriesInUse
<1>12. \A f \in EntriesInUse \ {heap[0]} : Before(heap[0], f)
  BY <1>1, RootFirst DEF EntriesInUse, Moving
<1>13. EntriesInUse' = EntriesInUse \ {heap[0]}
  <2>1. EntriesInUse' = {heap'[k] : k \in InUse \ {n}}
    BY <1>2 DEF EntriesInUse
  <2>2. EntriesInUse = {heap'[k] : k \in InUse}
    BY <1>1, <1>2, SwapKeeps DEF EntriesInUse
  <2>3. heap'[n] = heap[0] /\ \A k \in InUse \ {n} : heap'[k] # heap'[n]
    BY <1>2, <1>5, <1>6
  <2> QED
    BY <2>1, <2>2, <2>3, <1>2
<1> QED
  BY <1>7, <1>8, <1>9, <1>10, <1>11, <1>12, <1>13

LEMMA CloneKeeps == IInv /\ clonePriorityQueue => IInv' /\ EntriesInUse' = EntriesInUse
<1> SUFFICES ASSUME IInv, clonePriorityQueue PROVE IInv' /\ EntriesInUse' = EntriesInUse
  OBVIOUS
<1> USE DEF IInv
<1>1. /\ loop = "none" /\ back' = NotSet /\ InUse' = InUse
      /\ heap' = [i \in 0..capacity - 1 |-> IF i < count THEN heap[i] ELSE Junk]
      /\ UNCHANGED <<capacity, count, sequence, loop, index, wasBack>>
  BY DEF clonePriorityQueue, Idle, InUse
<1>2. \A i \in 0..capacity - 1 : i < count => i \in InUse
  BY DEF InUse, PQTypeOK
<1>3. \A i \in InUse : i \in 0..capacity - 1 /\ i < count
  BY DEF InUse, PQTypeOK
<1>4. \A i \in InUse : heap'[i] = heap[i]
  BY <1>1, <1>3
<1>5. heap' \in [0..capacity - 1 -> Entries \cup {Junk}]
  BY <1>1, <1>2, PlacesInUse
<1>6. PQTypeOK'
  BY <1>1, <1>4, <1>5 DEF PQTypeOK
<1>7. Numbered'
  <2>1. InUse' = InUse /\ sequence' = sequence
    BY <1>1
  <2> QED
    BY <2>1, <1>4 DEF Numbered
<1>8. OrderedExcept({})'
  <2>1. ASSUME NEW k \in InUse \ {0} PROVE Before(heap'[Parent(k)], heap'[k])
    <3>1. Before(heap[Parent(k)], heap[k]) /\ Parent(k) \in InUse
      BY <1>1, PlacesInUse, TakesIsBefore DEF Moving, OrderedExcept
    <3> QED
      BY <3>1, <1>4
  <2> QED
    BY <2>1, <1>1, TakesIsBefore DEF OrderedExcept, Parent
<1>9. Moving' /\ BackKept'
  BY <1>1, <1>8 DEF Moving, BackKept
<1>10. EntriesInUse' = EntriesInUse
  BY <1>1, <1>4 DEF EntriesInUse
<1> QED
  BY <1>6, <1>7, <1>9, <1>10

LEMMA UnchangedKeeps ==
    ASSUME IInv, UNCHANGED <<heap, capacity, count, back, sequence, loop, index, wasBack>>
    PROVE  IInv' /\ EntriesInUse' = EntriesInUse
<1>1. InUse' = InUse
  BY DEF InUse
<1>2. PQTypeOK' /\ Numbered' /\ BackKept' /\ EntriesInUse' = EntriesInUse
  BY <1>1 DEF IInv, PQTypeOK, Numbered, BackKept, EntriesInUse
<1>3. Moving'
  BY <1>1 DEF IInv, Moving, OrderedExcept, Passable, ChildrenOf, Parent, takesPriority
<1> QED
  BY <1>2, <1>3 DEF IInv

LEMMA StepKeeps == IInv /\ [PQNext]_pqvars => IInv'
<1> SUFFICES ASSUME IInv, [PQNext]_pqvars PROVE IInv'
  OBVIOUS
<1>1. ASSUME NEW value \in Values, NEW argument \in Arguments, Enqueue(value, argument)
      PROVE  IInv'
  <2>1. CASE ReadOutside
    BY <2>1, CrashKeeps
  <2>2. CASE ~ReadOutside
    <3>1. PICK priority \in PrioritiesRead(argument) : enqueuePriorityQueue(value, priority)
      BY <1>1, <2>2 DEF Enqueue
    <3>2. loop = "none" /\ sequence < MaxSequence
      BY <1>1 DEF Enqueue, Idle
    <3>3. priority \in Priorities
      BY DEF PrioritiesRead, Arguments
    <3> QED
      BY <3>1, <3>2, <3>3, EnqueueKeeps
  <2> QED
    BY <2>1, <2>2
<1>2. CASE MoveUp
  BY <1>2, MoveUpKeeps
<1>3. CASE dequeuePriorityQueue
  <2>1. CASE count = 0
    BY <2>1, <1>3, UnchangedKeeps DEF dequeuePriorityQueue, Unchanged
  <2>2. CASE count # 0
    BY <2>2, <1>3, DequeueKeeps
  <2> QED
    BY <2>1, <2>2
<1>4. CASE MoveDown
  BY <1>4, MoveDownKeeps
<1>5. CASE peekPriorityQueue \/ peekPriority \/ clearPriorityQueue
  BY <1>5, UnchangedKeeps DEF peekPriorityQueue, peekPriority, clearPriorityQueue, Unchanged
<1>6. CASE clonePriorityQueue
  BY <1>6, CloneKeeps
<1>7. CASE UNCHANGED pqvars
  BY <1>7, UnchangedKeeps DEF pqvars
<1> QED
  BY <1>1, <1>2, <1>3, <1>4, <1>5, <1>6, <1>7 DEF PQNext

LEMMA Inductive == PQSpec => []IInv
<1>1. PQInit => IInv
  BY InitHolds
<1>2. IInv /\ [PQNext]_pqvars => IInv'
  BY StepKeeps
<1> QED
  BY <1>1, <1>2, PTL DEF PQSpec

-------------------------------------------------------------------------------
\* The variables of a priority queue have their types: the entries in use fill the
\* front of the array, however often it grows, and index and back are places of it,
\* but for the back of a copy, which is not set until the copy gets one.
THEOREM QueueTypeCorrect == PQSpec => []PQTypeOK
<1>1. IInv => PQTypeOK
  BY DEF IInv
<1> QED
  BY <1>1, Inductive, PTL

\* Between two calls the array is a heap, after any sequence of calls: the
\* loops of enqueue and dequeue stop only when no entry comes before its
\* parent.
THEOREM HeapStaysOrdered == PQSpec => []HeapOrder
<1>1. IInv => HeapOrder
  BY DEF IInv, Moving, OrderedExcept, HeapOrder
<1> QED
  BY <1>1, Inductive, PTL

\* The place in back, once set, is that of an entry in use whenever enqueue
\* reads it.  Nothing sets it in a copy: that read is ReadOutside.
THEOREM BackStaysInUse == PQSpec => []BackInUse
<1>1. IInv => BackInUse
  BY DEF IInv, BackKept, BackInUse
<1> QED
  BY <1>1, Inductive, PTL

(* Every step of the heap is a step of the abstract queue, or changes nothing *)
(* there: the passes of the loops only swap entries.                         *)
LEMMA SwapsStutter ==
    ASSUME IInv, MoveUp \/ MoveDown
    PROVE  UNCHANGED <<EntriesInUse, sequence, last>>
<1>1. CASE heap' = heap /\ UNCHANGED <<count, sequence, last>>
  BY <1>1 DEF EntriesInUse, InUse
<1>2. ASSUME NEW i \in InUse, NEW j \in InUse, heap' = swapHeapEntries(heap, i, j),
             UNCHANGED <<count, sequence, last>>
      PROVE  UNCHANGED <<EntriesInUse, sequence, last>>
  <2>1. InUse' = InUse
    BY <1>2 DEF InUse
  <2>2. {heap'[k] : k \in InUse} = {heap[k] : k \in InUse}
    BY <1>2, SwapKeeps DEF IInv
  <2> QED
    BY <1>2, <2>1, <2>2 DEF EntriesInUse
<1>3. CASE MoveUp
  <2>1. CASE heap' = heap
    BY <2>1, <1>1, <1>3 DEF MoveUp
  <2>2. CASE index # 0 /\ heap' = swapHeapEntries(heap, Parent(index), index)
    <3>1. index \in InUse /\ Parent(index) \in InUse
      BY <2>2, <1>3, PlacesInUse DEF MoveUp, Moving, IInv
    <3> QED
      BY <3>1, <2>2, <1>2, <1>3 DEF MoveUp
  <2> QED
    BY <2>1, <2>2, <1>3 DEF MoveUp, Parent
<1>4. CASE MoveDown
  <2>1. CASE heap' = heap
    BY <2>1, <1>1, <1>4 DEF MoveDown
  <2>2. CASE /\ ~ (2 * index + 1 >= count)
             /\ heap' = swapHeapEntries(heap, index, FirstChild(index))
    <3>1. index \in InUse /\ 2 * index + 1 < count
      BY <2>2, <1>4 DEF MoveDown, Moving, IInv, PQTypeOK
    <3>2. FirstChild(index) \in InUse
      BY <3>1, FirstChildFirst
    <3> QED
      BY <3>1, <3>2, <2>2, <1>2, <1>4 DEF MoveDown
  <2> QED
    BY <2>1, <2>2, <1>4 DEF MoveDown, LoopEnds
<1> QED
  BY <1>3, <1>4

LEMMA StepsImplement ==
    ASSUME IInv, [PQNext]_pqvars
    PROVE  [O!OrderNext \/ ClearRefuses \/ ComesMisread]_(O!ordervars)
<1> USE DEF O!ordervars
<1>1. CASE UNCHANGED pqvars
  BY <1>1 DEF pqvars, EntriesInUse, InUse
<1>2. CASE MoveUp \/ MoveDown
  BY <1>2, SwapsStutter
<1>3. ASSUME NEW value \in Values, NEW argument \in Arguments, Enqueue(value, argument)
      PROVE  \/ O!OrderNext \/ ComesMisread
             \/ UNCHANGED <<EntriesInUse, sequence, last>>
  <2>1. CASE ReadOutside
    BY <2>1, CrashKeeps
  <2>2. CASE ~ReadOutside
    <3>1. PICK priority \in PrioritiesRead(argument) : enqueuePriorityQueue(value, priority)
      BY <1>3, <2>2 DEF Enqueue
    <3>2. /\ loop = "none" /\ sequence < MaxSequence
          /\ last' = [made |-> "enqueue", value |-> value, argument |-> argument]
      BY <1>3, <2>2 DEF Enqueue, Idle
    <3>3. priority \in Priorities
      BY DEF PrioritiesRead, Arguments
    <3>4. O!Comes(value, priority)
      BY <3>1, <3>2, <3>3, EnqueueKeeps DEF O!Comes, enqueuePriorityQueue
    <3>5. CASE Guessed(argument)
      BY <3>2, <3>3, <3>4, <3>5 DEF ComesMisread
    <3>6. CASE ~Guessed(argument)
      <4>1. priority = argument.priority
        BY <3>6 DEF PrioritiesRead
      <4>2. O!Arrive(value, argument)
        BY <4>1, <3>2, <3>4 DEF O!Arrive
      <4> QED
        BY <4>2 DEF O!OrderNext
    <3> QED
      BY <3>5, <3>6
  <2> QED
    BY <2>1, <2>2
<1>4. ASSUME count # 0, loop = "none" PROVE O!IsFirst(heap[0])
  <2>1. 0 \in InUse
    BY <1>4 DEF IInv, PQTypeOK, InUse
  <2>2. \A i \in InUse \ {0} : Before(heap[0], heap[i])
    BY <1>4, RootFirst DEF IInv, Moving
  <2> QED
    BY <2>1, <2>2 DEF O!IsFirst, O!Precedes, Before, EntriesInUse
<1>5. ASSUME Unchanged PROVE UNCHANGED <<EntriesInUse, sequence>>
  BY <1>5, UnchangedKeeps DEF Unchanged
<1>6. ASSUME count = 0 PROVE EntriesInUse = {}
  BY <1>6 DEF EntriesInUse, InUse
<1>7. CASE dequeuePriorityQueue
  <2>1. CASE count = 0
    <3>1. O!Refuse
      BY <2>1, <1>7, <1>5, <1>6 DEF dequeuePriorityQueue, error, O!Refuse
    <3> QED
      BY <3>1 DEF O!OrderNext
  <2>2. CASE count # 0
    <3>1. /\ loop = "none" /\ sequence' = sequence
          /\ last' = [made |-> "dequeue", value |-> heap[0].value]
      BY <2>2, <1>7 DEF dequeuePriorityQueue, Idle
    <3>2. EntriesInUse' = EntriesInUse \ {heap[0]} /\ heap[0] \in EntriesInUse
      BY <2>2, <1>7, DequeueKeeps
    <3>3. O!Leave
      BY <3>1, <3>2, <2>2, <1>4 DEF O!Leave
    <3> QED
      BY <3>3 DEF O!OrderNext
  <2> QED
    BY <2>1, <2>2
<1>8. CASE peekPriorityQueue \/ peekPriority
  <2>1. CASE count = 0
    <3>1. O!Refuse
      BY <2>1, <1>8, <1>5, <1>6 DEF peekPriorityQueue, peekPriority, error, O!Refuse
    <3> QED
      BY <3>1 DEF O!OrderNext
  <2>2. CASE count # 0
    <3>1. /\ loop = "none"
          /\ UNCHANGED <<EntriesInUse, sequence>>
          /\ \/ last' = [made |-> "peek", value |-> heap[0].value]
             \/ last' = [made |-> "peekPriority", priority |-> heap[0].priority]
      BY <2>2, <1>5, <1>8 DEF peekPriorityQueue, peekPriority, Idle
    <3>2. O!IsFirst(heap[0]) /\ heap[0] \in EntriesInUse
      BY <3>1, <2>2, <1>4 DEF O!IsFirst
    <3>3. O!Look
      BY <3>1, <3>2 DEF O!Look
    <3> QED
      BY <3>3 DEF O!OrderNext
  <2> QED
    BY <2>1, <2>2
<1>9. CASE clearPriorityQueue
  BY <1>5, <1>9 DEF clearPriorityQueue, error, ClearRefuses
<1>10. CASE clonePriorityQueue
  <2>1. O!Copy
    BY <1>10, CloneKeeps DEF clonePriorityQueue, O!Copy
  <2> QED
    BY <2>1 DEF O!OrderNext
<1> QED
  BY <1>1, <1>2, <1>3, <1>7, <1>8, <1>9, <1>10 DEF PQNext

\* For every capacity and any sequence of calls a priority queue serves in the
\* order of the priorities, and first come, first served within one, as the queue
\* of module PriorityOrder does.  There are two exceptions: clear, which refuses
\* every queue, and a priority that the generic enqueue has to guess.  Calls after
\* the one that reads heap[back] outside of the memory are not made.
THEOREM QueueServesInOrder == PQSpec => ServesInOrder
<1>1. PQInit => O!OrderInit
  BY DEF PQInit, O!OrderInit, EntriesInUse, InUse
<1>2. IInv /\ [PQNext]_pqvars => [O!OrderNext \/ ClearRefuses \/ ComesMisread]_(O!ordervars)
  BY StepsImplement
<1> QED
  BY <1>1, <1>2, Inductive, PTL DEF PQSpec, ServesInOrder
===============================================================================
