-------------------------------- MODULE Generic -------------------------------
(***************************************************************************)
(* The dispatch of the generic operations (generic.c): each compares the   *)
(* end of the block's type name with the names of the abstract types, one  *)
(* after the other, and hands the block to the first type that fits.  Some *)
(* are macros that pass the size of their argument, by which they tell the *)
(* structs of gtypes.h from pointers.                                      *)
(***************************************************************************)
EXTENDS Naturals, Sequences

\* The names of block types.  HeapEntry is the type of the array inside a priority
\* queue; compounds and interactors are blocks of the type GObject.
Types == {"Vector", "Stack", "Queue", "PriorityQueue", "StringBuffer",
          "HashMap", "Map", "CharSet", "Set", "HeapEntry",
          "GWindow", "GObject", "GEvent", "GTimer", "?"}

\* endsWith(type, suffix)
EndsWith(type, suffix) ==
    \/ type = suffix
    \/ type = "PriorityQueue" /\ suffix = "Queue"
    \/ type = "HashMap" /\ suffix = "Map"
    \/ type = "CharSet" /\ suffix = "Set"

\* The order of the tests in each operation.
AllTypes == <<"Vector", "PriorityQueue", "Queue", "CharSet", "Set", "HashMap", "Map",
              "Stack", "StringBuffer">>
SizeChain == AllTypes
IsEmptyChain == AllTypes
ClearChain == AllTypes
CloneChain == SubSeq(AllTypes, 1, 8)
GetChain == <<"Vector", "HashMap", "Map">>
SetChain == <<"Vector">>
PutChain == <<"HashMap", "Map">>
ContainsKeyChain == <<"HashMap", "Map">>
ContainsChain == <<"CharSet", "Set", "GObject">>
AddChain == <<"Vector", "CharSet", "Set", "GWindow", "GCompound">>
RemoveChain == <<"Vector", "CharSet", "Set", "HashMap", "Map", "GWindow">>
EnqueueChain == <<"PriorityQueue", "Queue">>
DequeueChain == <<"PriorityQueue", "Queue">>
PeekChain == <<"PriorityQueue", "Queue", "Stack">>
EqualsChain == <<"CharSet", "Set">>
IsSubsetChain == <<"CharSet", "Set">>
UnionChain == <<"CharSet", "Set">>
IntersectionChain == <<"CharSet", "Set">>
SetDifferenceChain == <<"CharSet", "Set">>
GetXChain == <<"GEvent", "GObject">>
GetYChain == <<"GEvent", "GObject">>
GetWidthChain == <<"GWindow", "GObject">>
GetHeightChain == <<"GWindow", "GObject">>
ToStringChain == <<"StringBuffer">>
SetVisibleChain == <<"GObject", "GWindow">>
IsVisibleChain == <<"GObject", "GWindow">>
SetColorChain == <<"GObject", "GWindow">>
GetActionCommandChain == <<"GObject", "GEvent">>

\* The type whose function gets the block, or "error" if no test fits.
Handler(chain, type) ==
    LET fits == {i \in 1..Len(chain) : EndsWith(type, chain[i])}
    IN IF fits = {} THEN "error"
       ELSE chain[CHOOSE i \in fits : \A j \in fits : i <= j]

\* The structs, their sizes, and the order of the tests of the size.
StructSize == [GPoint |-> 16, GDimension |-> 16, GRectangle |-> 32]
StructChain(op) ==
    CASE op \in {"getX", "getY", "toString"} -> <<"GPoint", "GRectangle">>
      [] op \in {"getWidth", "getHeight"} -> <<"GDimension", "GRectangle">>
      [] op \in {"isEmpty", "contains"} -> <<"GRectangle">>
BlockChain(op) ==
    CASE op = "getX" -> GetXChain
      [] op = "getY" -> GetYChain
      [] op = "getWidth" -> GetWidthChain
      [] op = "getHeight" -> GetHeightChain
      [] op = "toString" -> ToStringChain
      [] op = "isEmpty" -> IsEmptyChain
      [] op = "contains" -> ContainsChain
      [] op = "setVisible" -> SetVisibleChain
      [] op = "isVisible" -> IsVisibleChain
      [] op = "setColor" -> SetColorChain
      [] op = "getActionCommand" -> GetActionCommandChain
      [] op = "add" -> AddChain
      [] op = "remove" -> RemoveChain

\* A struct of a size that is not tested is read as if it were a pointer, and what
\* remove passes on to removeGWindow was never set.
Receiver(op, type) ==
    IF type \notin DOMAIN StructSize
    THEN IF op = "remove" /\ Handler(RemoveChain, type) = "GWindow" THEN "undefined"
         ELSE Handler(BlockChain(op), type)
    ELSE LET fits == SelectSeq(StructChain(op), LAMBDA s : StructSize[s] = StructSize[type])
         IN IF fits = <<>> THEN "undefined" ELSE Head(fits)
===============================================================================
