---------------------------- MODULE TypedValues -----------------------------
(***************************************************************************)
(* Sets and trees hold values of any C type: a value is fetched from a     *)
(* list of arguments into a union (GenericType of generic.h), copied into  *)
(* a node, compared (cmpfn.c), stored in a variable and made a string, by  *)
(* the functions that generic.c chooses for the name of the type.  A ref   *)
(* (ref.c) is a block that keeps a value together with its type.           *)
(*                                                                         *)
(* A byte has ByteBits bits.  A byte of a floating-point value is the      *)
(* value with its type and place; a byte that nothing was written to says  *)
(* so, and so can be told from all others.                                 *)
(***************************************************************************)
EXTENDS Strings

CONSTANTS
    ByteBits,
    TextAt      \* what pointers to characters point at

------------------------------------------------------------------------------
(* The C implementation: x86-64 with 64-bit longs. *)
Byte == 2 ^ ByteBits
SignedTypes == {"char", "short", "int", "long"}
UnsignedTypes == {"unsigned char", "unsigned short", "unsigned", "unsigned long", "bool"}
FloatTypes == {"float", "double"}

sizeof(type) ==
    CASE type \in {"char", "unsigned char"} -> 1
      [] type \in {"short", "unsigned short"} -> 2
      [] type \in {"int", "unsigned", "float", "bool"} -> 4
      [] OTHER -> 8

Bytes(type, v) ==
    [i \in 1..sizeof(type) |->
        IF type \in FloatTypes THEN <<type, v, i>>
        ELSE <<"integer", (v \div Byte ^ (i - 1)) % Byte, 0>>]

\* What is read from memory as a value of a type; Failed if no such value was
\* written there.
Read(type, memory) ==
    LET bytes == SubSeq(memory, 1, sizeof(type))
        number == FoldLeftDomain(LAMBDA n, i : n + bytes[i][2] * Byte ^ (i - 1), 0, bytes)
    IN IF type \in FloatTypes
       THEN IF bytes = Bytes(type, bytes[1][2]) THEN bytes[1][2] ELSE Failed
       ELSE IF \E i \in DOMAIN bytes : bytes[i][1] # "integer" THEN Failed
       ELSE IF type \in SignedTypes /\ bytes[sizeof(type)][2] >= Byte \div 2
       THEN number - Byte ^ sizeof(type) ELSE number

\* Memory to which nothing was written: of the union, a node, a variable.
Fresh(place) ==
    [i \in 1..8 |-> <<"unset", CASE place = "union" -> 1 [] place = "node" -> 2
                                 [] place = "variable" -> 3, i>>]
Overwrite(memory, bytes) ==
    [i \in DOMAIN memory |-> IF i <= Len(bytes) THEN bytes[i] ELSE memory[i]]

\* Integers are cut to the type; a double of these models is also a float.
Cast(type, v) ==
    IF type \in FloatTypes THEN v
    ELSE LET cut == v % Byte ^ sizeof(type)
         IN IF type \in SignedTypes /\ cut >= Byte ^ sizeof(type) \div 2
            THEN cut - Byte ^ sizeof(type) ELSE cut

\* Small types are widened when they are passed in a variable list of arguments.
Promoted(type) ==
    CASE type \in {"char", "short", "unsigned char", "unsigned short", "bool"} -> "int"
      [] type = "float" -> "double"
      [] OTHER -> type
Argument(type, v) == [type |-> Promoted(type), value |-> v]
va_arg(arg, type) == IF sizeof(arg.type) = sizeof(type) THEN Cast(type, arg.value) ELSE Failed

------------------------------------------------------------------------------
(* generic.c: the functions for a type are named for the member they use. *)
BaseTypes == SignedTypes \cup (UnsignedTypes \ {"bool"}) \cup FloatTypes

getTypeSizeForType(type) == IF type \in BaseTypes \cup {"bool"} THEN sizeof(type) ELSE 8
getFetchFnForType(type) ==
    IF type = "bool" THEN "int" ELSE IF type \in BaseTypes THEN type ELSE "pointer"
getStoreFnForType(type) ==
    IF type = "bool" THEN "int" ELSE IF type \in BaseTypes THEN type ELSE "pointer"
getCompareFnForType(type) ==
    CASE type \in BaseTypes -> type
      [] type = "bool" -> "int"
      [] type \in {"char *", "string"} -> "string"
      [] OTHER -> "pointer"
getToStringFn(type) ==
    CASE type \in BaseTypes \cup {"bool"} -> type
      [] type \in {"char *", "string"} -> "string"
      [] OTHER -> "pointer"

\* intFetchFn, ...: an argument is read as what it was widened to.
FetchFn(fn, arg) ==
    LET passed == CASE fn \in {"char", "short", "unsigned char", "unsigned short"} -> "int"
                    [] fn = "float" -> "double"
                    [] OTHER -> fn
    IN Overwrite(Fresh("union"), Bytes(fn, Cast(fn, va_arg(arg, passed))))

\* intStoreFn, ...
StoreFn(fn, any, dst) == Overwrite(dst, SubSeq(any, 1, sizeof(fn)))

\* intToStringFn, ...: characters as texts, pointers as numbers.
ToStringFn(fn, any) ==
    LET v == Read(fn, any)
    IN CASE fn \in {"int", "short", "unsigned", "unsigned short"} \cup FloatTypes -> ToString(v)
         [] fn \in {"long", "unsigned long"} -> ToString(v) \o "L"
         [] fn \in {"char", "unsigned char"} -> <<v>>
         [] fn = "bool" -> IF v # 0 THEN "true" ELSE "false"
         [] fn = "string" -> TextAt[v]
         [] fn = "pointer" -> v

\* intCmpFn, ... (cmpfn.c); that of characters reads them as unsigned.
CmpFn(fn, p1, p2) ==
    LET type == IF fn = "char" THEN "unsigned char" ELSE fn
        v1 == Read(type, p1)
        v2 == Read(type, p2)
    IN IF fn = "string" THEN stringCompare(TextAt[v1], TextAt[v2])
       ELSE IF v1 = v2 THEN 0
       ELSE IF v1 < v2 THEN -1 ELSE 1

\* insertTreeNode copies as many bytes as the type has into the node.
NodeKey(type, any) == Overwrite(Fresh("node"), SubSeq(any, 1, getTypeSizeForType(type)))

------------------------------------------------------------------------------
(* ref.c.  A pointer that should be a ref is one, or points at another block,*)
(* or is NULL.                                                               *)
RefTypes == BaseTypes \cup {"bool"}
newRef(type, v) ==
    [points |-> "ref", value |-> Overwrite(Fresh("union"), Bytes(type, Cast(type, v))), type |-> type]
NotRef(points) == [points |-> points, value |-> Fresh("union"), type |-> "none"]

\* refToInt and the others, with refTypeCheck: it looks whether rp is NULL before it
\* sets rp, and follows the argument, NULL or not.
refTo(type, ref, rp) ==
    CASE rp = "NULL" -> <<"error">>
      [] rp # "NULL" /\ ref.points = "NULL" -> <<"crash">>
      [] rp # "NULL" /\ ref.points = "other" -> <<"error">>
      [] rp # "NULL" /\ ref.points = "ref" /\ ref.type # type -> <<"error">>
      [] OTHER -> <<"value", Read(type, ref.value)>>
==============================================================================
