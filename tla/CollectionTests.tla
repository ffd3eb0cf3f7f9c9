---------------------------- MODULE CollectionTests ---------------------------
(***************************************************************************)
(* The unit tests of the collections: bst.c, set.c, map.c, hashmap.c,      *)
(* charset.c, vector.c, stack.c, queue.c and strbuf.c, with the capacities *)
(* the code has.  A test is a pair, as in UnitTests.  A collection is a    *)
(* value, so a clone is one that is kept while the other changes.          *)
(***************************************************************************)
EXTENDS Strings

------------------------------------------------------------------------------
(* Tables. *)
ELEMENTS ==
   <<"H", "He", "Li", "Be", "B", "C", "N", "O", "F", "Ne", "Na", "Mg", "Al", "Si", "P", "S", "Cl",
     "Ar", "K", "Ca", "Sc", "Ti", "V", "Cr", "Mn", "Fe", "Co", "Ni", "Cu", "Zn", "Ga", "Ge", "As",
     "Se", "Br", "Kr", "Rb", "Sr", "Y", "Zr", "Nb", "Mo", "Tc", "Ru", "Rh", "Pd", "Ag", "Cd", "In",
     "Sn", "Sb", "Te", "I", "Xe", "Cs", "Ba", "La", "Ce", "Pr", "Nd", "Pm", "Sm", "Eu", "Gd", "Tb",
     "Dy", "Ho", "Er", "Tm", "Yb", "Lu", "Hf", "Ta", "W", "Re", "Os", "Ir", "Pt", "Au", "Hg", "Tl",
     "Pb", "Bi", "Po", "At", "Rn", "Fr", "Ra", "Ac", "Th", "Pa", "U", "Np", "Pu", "Am", "Cm", "Bk",
     "Cf", "Es", "Fm", "Md", "No", "Lr", "Rf", "Db", "Sg", "Bh", "Hs", "Mt">>

ELEMENTS_PREORDER ==
   <<"P", "H", "Cl", "Be", "Ar", "Ag", "Ac", "Al", "Am", "B", "At", "As", "Au", "Ba", "C", "Bk",
     "Bi", "Bh", "Br", "Cd", "Ca", "Ce", "Cf", "F", "Cu", "Cr", "Co", "Cm", "Cs", "Er", "Dy", "Db",
     "Eu", "Es", "Ga", "Fm", "Fe", "Fr", "Ge", "Gd", "Li", "I", "Hf", "He", "Ho", "Hg", "Hs", "K",
     "In", "Ir", "Kr", "La", "N", "Md", "Lu", "Lr", "Mn", "Mg", "Mo", "Mt", "Ne", "Nb", "Na", "Nd",
     "O", "No", "Ni", "Np", "Os", "Sc", "Rb", "Pm", "Pb", "Pa", "Pd", "Pr", "Po", "Pu", "Pt", "Ra",
     "Ru", "Rh", "Re", "Rf", "Rn", "S", "Sb", "Ti", "Sr", "Si", "Se", "Sg", "Sn", "Sm", "Tc", "Tb",
     "Ta", "Te", "Th", "Y", "V", "Tm", "Tl", "U", "Xe", "W", "Zn", "Yb", "Zr">>

ELEMENTS_INORDER ==
   <<"Ac", "Ag", "Al", "Am", "Ar", "As", "At", "Au", "B", "Ba", "Be", "Bh", "Bi", "Bk", "Br", "C",
     "Ca", "Cd", "Ce", "Cf", "Cl", "Cm", "Co", "Cr", "Cs", "Cu", "Db", "Dy", "Er", "Es", "Eu", "F",
     "Fe", "Fm", "Fr", "Ga", "Gd", "Ge", "H", "He", "Hf", "Hg", "Ho", "Hs", "I", "In", "Ir", "K",
     "Kr", "La", "Li", "Lr", "Lu", "Md", "Mg", "Mn", "Mo", "Mt", "N", "Na", "Nb", "Nd", "Ne", "Ni",
     "No", "Np", "O", "Os", "P", "Pa", "Pb", "Pd", "Pm", "Po", "Pr", "Pt", "Pu", "Ra", "Rb", "Re",
     "Rf", "Rh", "Rn", "Ru", "S", "Sb", "Sc", "Se", "Sg", "Si", "Sm", "Sn", "Sr", "Ta", "Tb", "Tc",
     "Te", "Th", "Ti", "Tl", "Tm", "U", "V", "W", "Xe", "Y", "Yb", "Zn", "Zr">>

ELEMENTS_POSTORDER ==
   <<"Ac", "Am", "Al", "Ag", "As", "Au", "At", "Ba", "B", "Ar", "Bh", "Bi", "Br", "Bk", "Ca", "Cf",
     "Ce", "Cd", "C", "Be", "Cm", "Co", "Cs", "Cr", "Db", "Dy", "Es", "Eu", "Er", "Cu", "Fe", "Fr",
     "Fm", "Gd", "Ge", "Ga", "F", "Cl", "He", "Hg", "Hs", "Ho", "Hf", "Ir", "In", "La", "Kr", "K",
     "I", "Lr", "Lu", "Mg", "Mt", "Mo", "Mn", "Md", "Na", "Nd", "Nb", "Ni", "Np", "No", "Os", "O",
     "Ne", "N", "Li", "H", "Pa", "Pd", "Pb", "Po", "Pt", "Ra", "Pu", "Pr", "Pm", "Rf", "Re", "Rn",
     "Rh", "Sb", "S", "Ru", "Rb", "Sg", "Se", "Sm", "Sn", "Si", "Ta", "Tb", "Th", "Te", "Tc", "Sr",
     "Tl", "U", "Tm", "W", "Xe", "V", "Yb", "Zr", "Zn", "Y", "Ti", "Sc", "P">>

PRIMES ==
   <<2, 3, 5, 7, 11, 13, 17, 19, 23, 29, 31, 37, 41, 43, 47, 53, 59, 61, 67, 71, 73, 79, 83, 89,
     97, 101, 103, 107, 109, 113, 127, 131, 137, 139, 149, 151, 157, 163, 167, 173, 179, 181, 191,
     193, 197, 199, 211, 223, 227, 229, 233, 239, 241, 251, 257, 263, 269, 271, 277, 281, 283, 293,
     307, 311, 313, 317, 331, 337, 347, 349, 353, 359, 367, 373, 379, 383, 389, 397, 401, 409, 419,
     421, 431, 433, 439, 443, 449, 457, 461, 463, 467, 479, 487, 491, 499, 503, 509, 521, 523, 541,
     547, 557, 563, 569, 571, 577, 587, 593, 599, 601, 607, 613, 617, 619, 631, 641, 643, 647, 653,
     659, 661, 673, 677, 683, 691, 701, 709, 719, 727, 733, 739, 743, 751, 757, 761, 769, 773, 787,
     797, 809, 811, 821, 823, 827, 829, 839, 853, 857, 859, 863, 877, 881, 883, 887, 907, 911, 919,
     929, 937, 941, 947, 953, 967, 971, 977, 983, 991, 997>>

PRIMES_PREORDER ==
   <<311, 131, 53, 19, 7, 3, 2, 5, 13, 11, 17, 37, 29, 23, 31, 43, 41, 47, 89, 71, 61, 59, 67, 79,
     73, 83, 107, 101, 97, 103, 113, 109, 127, 223, 173, 151, 139, 137, 149, 163, 157, 167, 193,
     181, 179, 191, 199, 197, 211, 263, 239, 229, 227, 233, 251, 241, 257, 281, 271, 269, 277, 293,
     283, 307, 719, 503, 409, 359, 337, 317, 313, 331, 349, 347, 353, 383, 373, 367, 379, 397, 389,
     401, 457, 433, 421, 419, 431, 443, 439, 449, 479, 463, 461, 467, 491, 487, 499, 613, 569, 541,
     521, 509, 523, 557, 547, 563, 593, 577, 571, 587, 601, 599, 607, 659, 641, 619, 617, 631, 647,
     643, 653, 683, 673, 661, 677, 701, 691, 709, 827, 769, 743, 733, 727, 739, 757, 751, 761, 809,
     787, 773, 797, 821, 811, 823, 941, 881, 857, 839, 829, 853, 863, 859, 877, 911, 887, 883, 907,
     929, 919, 937, 971, 953, 947, 967, 983, 977, 991, 997>>

OSPD3 ==
   <<"aa", "ab", "ad", "ae", "ag", "ah", "ai", "al", "am", "an", "ar", "as", "at", "aw", "ax",
     "ay", "ba", "be", "bi", "bo", "by", "de", "do", "ed", "ef", "eh", "el", "em", "en", "er",
     "es", "et", "ex", "fa", "go", "ha", "he", "hi", "hm", "ho", "id", "if", "in", "is", "it",
     "jo", "ka", "la", "li", "lo", "ma", "me", "mi", "mm", "mo", "mu", "my", "na", "ne", "no",
     "nu", "od", "oe", "of", "oh", "om", "on", "op", "or", "os", "ow", "ox", "oy", "pa", "pe",
     "pi", "re", "sh", "si", "so", "ta", "ti", "to", "uh", "um", "un", "up", "us", "ut", "we",
     "wo", "xi", "xu", "ya", "ye", "yo">>

OSPD4 ==
   <<"aa", "ab", "ad", "ae", "ag", "ah", "ai", "al", "am", "an", "ar", "as", "at", "aw", "ax",
     "ay", "ba", "be", "bi", "bo", "by", "de", "do", "ed", "ef", "eh", "el", "em", "en", "er",
     "es", "et", "ex", "fa", "fe", "go", "ha", "he", "hi", "hm", "ho", "id", "if", "in", "is",
     "it", "jo", "ka", "ki", "la", "li", "lo", "ma", "me", "mi", "mm", "mo", "mu", "my", "na",
     "ne", "no", "nu", "od", "oe", "of", "oh", "oi", "om", "on", "op", "or", "os", "ow", "ox",
     "oy", "pa", "pe", "pi", "qi", "re", "sh", "si", "so", "ta", "ti", "to", "uh", "um", "un",
     "up", "us", "ut", "we", "wo", "xi", "xu", "ya", "ye", "yo", "za">>

NEW_WORDS ==
   <<"fe", "ki", "oi", "qi", "za">>

------------------------------------------------------------------------------
(* Hash codes are unsigned and of 32 bits, here of two halves; HASH_SEED is 5381, *)
(* HASH_MULTIPLIER 33.                                                            *)
hashCode(str) ==
    LET Step(hash, ch) ==
            LET low == 33 * hash[2] + ch
            IN <<(33 * hash[1] + (low \div 65536)) % 65536, low % 65536>>
        hash == FoldLeft(Step, <<0, 5381>>, str)
    IN 65536 * (hash[1] % 32768) + hash[2]

\* In a tree a name is its place in the order of stringCompare, which is that of
\* these tables.
Ascending(names) ==
    \A n \in 2..Len(names) : stringCompare(Text(names[n - 1]), Text(names[n])) < 0
PlaceIn(names, name) == SelectInSeq(names, LAMBDA other : other = name)
ElementPlaces(names) == [n \in DOMAIN names |-> PlaceIn(ELEMENTS_INORDER, names[n])]
WordPlaces(names) == [n \in DOMAIN names |-> PlaceIn(OSPD4, names[n])]
Rank(cmpFn, key) == key
hashOf(name) == hashCode(Text(name))

B == INSTANCE BST WITH
         MaxKeys <- 0, MaxSpoilt <- 0, root <- 0, count <- 0, status <- "", spoilt <- 0
L == INSTANCE LinearCollections WITH
         InitialCapacity <- 10, InitialStackCapacity <- 100, InitialBufferCapacity <- 100,
         MaxNumberDigits <- 30, Junk <- <<>>, Values <- {}
M == INSTANCE MapsAndSets WITH
         NBuckets <- 101, hashCode <- hashOf, WordBits <- 64, NWords <- 4, Orders <- {"string", "int"}

------------------------------------------------------------------------------
(* bst.c: the order of the nodes in each traversal, and the balance factors. *)
insertArray(keys) == M!FoldHalves(LAMBDA t, key : B!insertTreeNode(t, key).tree, B!Null, keys)
Without(t, keys) == FoldLeft(LAMBDA u, key : B!removeTreeNode(u, key).tree, t, keys)
checkOrdered(t) ==
    LET keys == B!newForeachIterator(t)
    IN \A n \in 2..Len(keys) : keys[n - 1] < keys[n]

testStringBST ==
    LET bst == insertArray(ElementPlaces(ELEMENTS))
        bst2 == B!copyTree(bst)
        removed == Without(bst, ElementPlaces(<<"Sc", "He", "I">>))
    IN <<<<B!mapTree(bst, "PREORDER"), ElementPlaces(ELEMENTS_PREORDER)>>,
         <<B!mapTree(bst, "INORDER"), ElementPlaces(ELEMENTS_INORDER)>>,
         <<B!mapTree(bst, "POSTORDER"), ElementPlaces(ELEMENTS_POSTORDER)>>,
         <<B!Balanced(bst), TRUE>>, <<B!Balanced(removed), TRUE>>, <<checkOrdered(removed), TRUE>>,
         <<B!mapTree(bst2, "INORDER"), ElementPlaces(ELEMENTS_INORDER)>>>>

testIntBST ==
    LET bst == insertArray(PRIMES)
        bst2 == B!copyTree(bst)
        removed == Without(bst, <<977, 311>>)
    IN <<<<B!mapTree(bst, "INORDER"), PRIMES>>, <<B!mapTree(bst, "PREORDER"), PRIMES_PREORDER>>,
         <<checkOrdered(bst), TRUE>>, <<B!Balanced(bst), TRUE>>,
         <<checkOrdered(removed), TRUE>>, <<B!Balanced(removed), TRUE>>,
         <<B!mapTree(bst2, "INORDER"), PRIMES>>>>
testBSTModule == testStringBST \o testIntBST

------------------------------------------------------------------------------
(* set.c: sets of characters, of strings and of numbers. *)
SetOf(type, keys) ==
    M!FoldHalves(LAMBDA set, key : M!Inserted(set, key, <<>>), M!newSetFromType(type), keys)
createCharSet(str) == SetOf("char", Text(str))
addStringsToSet(names) == SetOf("string", WordPlaces(names))
createDigitSet(str) == SetOf("int", [n \in DOMAIN Text(str) |-> Text(str)[n] - CodeOf("0")])

vowels == "aeiou"
consonants == "bcdfghjklmnpqrstvwxyz"
lowercase == "abcdefghijklmnopqrstuvwxyz"
onePointTiles == "etaoinsrlu"
testCharacterSet ==
    LET V == createCharSet(vowels)
        C == createCharSet(consonants)
        all == createCharSet(lowercase)
        one == createCharSet(onePointTiles)
    IN <<<<M!isSubsetSet(V, one), TRUE>>, <<M!isSubsetSet(C, one), FALSE>>,
         <<M!equalsSet(M!unionSet(V, C), all), TRUE>>,
         <<M!equalsSet(M!intersectionSet(C, one), createCharSet("lnrst")), TRUE>>,
         <<M!equalsSet(M!setDifferenceSet(all, C), V), TRUE>>>>

testStringSet ==
    LET empty == addStringsToSet(<<>>)
        ospd3 == addStringsToSet(OSPD3)
        ospd4 == addStringsToSet(OSPD4)
        newWords == addStringsToSet(NEW_WORDS)
    IN <<<<Ascending(OSPD4), TRUE>>, <<empty.nodes = <<>>, TRUE>>,
         <<ospd3.nodes = <<>>, FALSE>>, <<Len(ospd3.nodes), Len(OSPD3)>>,
         <<M!NodeKeySeq(ospd3), WordPlaces(OSPD3)>>, <<M!equalsSet(ospd4, ospd4), TRUE>>,
         <<M!equalsSet(M!unionSet(ospd3, newWords), ospd4), TRUE>>,
         <<M!equalsSet(M!intersectionSet(ospd3, ospd4), ospd3), TRUE>>,
         <<M!equalsSet(M!setDifferenceSet(ospd4, ospd3), newWords), TRUE>>,
         <<M!isSubsetSet(ospd3, ospd4), TRUE>>, <<M!isSubsetSet(ospd4, ospd3), FALSE>>>>

testIntegerSet ==
    LET primes == createDigitSet("2357")
        evens == createDigitSet("02468")
        odds == createDigitSet("13579")
    IN <<<<M!equalsSet(M!unionSet(evens, primes), createDigitSet("02345678")), TRUE>>,
         <<M!equalsSet(M!intersectionSet(evens, primes), createDigitSet("2")), TRUE>>,
         <<M!intersectionSet(odds, evens).nodes = <<>>, TRUE>>,
         <<M!equalsSet(M!setDifferenceSet(primes, evens), createDigitSet("357")), TRUE>>,
         <<M!equalsSet(primes, primes), TRUE>>>>
testSetModule == testCharacterSet \o testStringSet \o testIntegerSet

(* charset.c *)
testCharSetModule ==
    LET Set(str) == M!addString(M!newCharSet, Text(str))
        V == Set(vowels)
        C == Set(consonants)
        all == Set(lowercase)
        one == Set(onePointTiles)
        set == M!cloneCharSet(V)
    IN <<<<M!equalsCharSet(one, Set("aeilnorstu")), TRUE>>,
         <<M!isSubsetCharSet(V, one), TRUE>>, <<M!isSubsetCharSet(C, one), FALSE>>,
         <<M!equalsCharSet(M!unionCharSet(V, C), all), TRUE>>,
         <<M!equalsCharSet(M!intersectionCharSet(C, one), Set("lnrst")), TRUE>>,
         <<M!equalsCharSet(M!setDifferenceCharSet(all, C), V), TRUE>>, <<M!equalsCharSet(set, V), TRUE>>,
         <<M!equalsCharSet(M!removeCharSet(set, CodeOf("o")), Set("aeiu")), TRUE>>>>

------------------------------------------------------------------------------
(* hashmap.c and map.c: the same calls on both.  A call is put with a key and a value,  *)
(* or remove with a key; then a test asks for the size or for a key, NULL being <<>>.   *)
Script ==
    <<<<"put", "H", "Hydrogen">>, <<"size", 1>>, <<"put", "He", "Helium">>,
      <<"put", "Al", "Aluminum">>, <<"get", "H", "Hydrogen">>, <<"get", "He", "Helium">>,
      <<"get", "Al", "Aluminum">>, <<"get", "Li", "">>, <<"put", "Al", "Aluminium">>,
      <<"get", "Al", "Aluminium">>, <<"remove", "Al">>, <<"get", "Al", "">>, <<"get", "He", "Helium">>,
      <<"put", "Li", "Lithium">>, <<"get", "Li", "Lithium">>, <<"put", "Be", "Beryllium">>,
      <<"size", 4>>>>

\* The map after a script, and the tests in it.
AfterScript(new, KeyOf(_), Put(_, _, _), Cut(_, _), Get(_, _), SizeOf(_)) ==
    LET Step(s, call) ==
            CASE call[1] = "put" -> [s EXCEPT !.map = Put(@, KeyOf(call[2]), Text(call[3]))]
              [] call[1] = "remove" -> [s EXCEPT !.map = Cut(@, KeyOf(call[2]))]
              [] call[1] = "get" -> 
                     [s EXCEPT !.tests = Append(@, <<Get(s.map, KeyOf(call[2])), Text(call[3])>>)]
              [] call[1] = "size" -> [s EXCEPT !.tests = Append(@, <<SizeOf(s.map), call[2]>>)]
    IN FoldLeft(Step, [map |-> new, tests |-> <<>>], Script)

\* bits, as the set of those that are 1; any other element makes it -1.
markElement(bits, name) ==
    IF name \in {"H", "He", "Li", "Be"} THEN bits \cup {name} ELSE {"-1"}
testHashMapModule ==
    LET s == AfterScript(M!newHashMap, LAMBDA name : name, M!putHashMap, M!removeHashMap,
                         LAMBDA map, key : M!getHashMap(map, key, <<>>), LAMBDA map : map.count)
        Marked(map) == FoldLeft(markElement, {}, M!IteratedKeys(map, <<>>))
    IN s.tests \o <<<<Marked(s.map), {"H", "He", "Li", "Be"}>>,
                    <<Marked(M!cloneHashMap(s.map)), {"H", "He", "Li", "Be"}>>>>

testMapModule ==
    LET ValueAt(map, n) == IF n = 0 THEN <<>> ELSE map.nodes[n].value
        s == AfterScript(M!newMap("string"), LAMBDA name : ElementPlaces(<<name>>)[1],
                         M!Inserted, M!removeNode,
                         LAMBDA map, key : ValueAt(map, M!findNode(map, key)),
                         LAMBDA map : Len(map.nodes))
    IN s.tests \o <<<<M!NodeKeySeq(s.map), ElementPlaces(<<"Be", "H", "He", "Li">>)>>,
                    <<[n \in 1..4 |-> ValueAt(s.map, n)],
                      <<Text("Beryllium"), Text("Hydrogen"), Text("Helium"), Text("Lithium")>>>>>>

------------------------------------------------------------------------------
(* vector.c, stack.c, queue.c *)
GetAll(vec) == [i \in -1..4 |-> IF L!InRange(vec, i) THEN vec.elements[i] ELSE "error"]
testVectorModule ==
    LET acd == FoldLeft(L!addVector, L!newVector, <<"A", "C", "D">>)
        vec == L!insert(acd, 1, "B")
        set == L!setVector(vec, 0, "a")
        removed == L!removeVector(set, 0)
        again == L!insert(removed, 0, "A")
        grown == L!insert(again, again.count, "E")
    IN <<<<L!newVector.count, 0>>, <<vec.count, 4>>,
         <<L!vectorToArray(vec), <<"A", "B", "C", "D">>>>,
         <<GetAll(vec)[4], "error">>, <<GetAll(vec)[-1], "error">>,
         <<GetAll(set)[0], "a">>, <<removed.count, 3>>, <<GetAll(again)[0], "A">>,
         <<GetAll(grown)[4], "E">>,
         <<L!vectorToArray(L!cloneVector(vec)), <<"A", "B", "C", "D">>>>>>

\* What count calls of pop or dequeue return, and what is left.
Popped(stack, count) ==
    FoldLeft(LAMBDA s, n : [values |-> Append(s.values, L!peekStack(s.left)),
                            left |-> L!pop(s.left)],
             [values |-> <<>>, left |-> stack], [n \in 1..count |-> n])
Dequeued(queue, count) ==
    FoldLeft(LAMBDA s, n : [values |-> Append(s.values, L!peekQueue(s.left)),
                            left |-> L!dequeueQueue(s.left)],
             [values |-> <<>>, left |-> queue], [n \in 1..count |-> n])

testStackModule ==
    LET abc == FoldLeft(L!push, L!newStack, <<"A", "B", "C">>)
        stack == L!push(L!pop(abc), "D")
    IN <<<<L!newStack.count, 0>>, <<L!peekStack(abc), "C">>, <<stack.count, 3>>,
         <<L!peekStack(stack), "D">>,
         <<Popped(stack, 3).values, <<"D", "B", "A">>>>, <<Popped(stack, 3).left.count, 0>>,
         <<Popped(L!cloneStack(stack), 3).values, <<"D", "B", "A">>>>>>

testQueueModule ==
    LET abc == FoldLeft(L!enqueueQueue, L!newQueue, <<"A", "B", "C">>)
        queue == L!enqueueQueue(L!dequeueQueue(abc), "D")
        emptied == Dequeued(queue, 3).left
        ef == FoldLeft(L!enqueueQueue, emptied, <<"E", "F">>)
    IN <<<<L!newQueue.count, 0>>, <<L!peekQueue(abc), "A">>, <<queue.count, 3>>,
         <<Dequeued(queue, 3).values, <<"B", "C", "D">>>>, <<emptied.count, 0>>,
         <<Dequeued(ef, 2).values, <<"E", "F">>>>,
         <<Dequeued(L!cloneQueue(queue), 3).values, <<"B", "C", "D">>>>>>

(* strbuf.c: formats of one conversion. *)
testStringBufferAppend ==
    LET numbers == [n \in 1..999 |-> integerToString(n - 1)]
        sb == M!FoldHalves(L!appendString, L!pushChar(L!newStringBuffer, CodeOf("(")), numbers)
        closed == L!getString(L!pushChar(sb, CodeOf(")")))
    IN <<<<L!BufferChars(closed), Text("(") \o M!FoldHalves(concat, <<>>, numbers) \o Text(")")>>,
         <<closed.buffer[closed.count - 1], CodeOf(")")>>,
         <<L!BufferChars(L!getString(L!clearStringBuffer(L!popChar(closed)))), <<>>>>>>

Conversion(letter, width, precision, length) ==
    [letter |-> letter, width |-> width, precision |-> precision, length |-> length]
testStrbufModule ==
    testStringBufferAppend
    \o <<<<L!printfCapacity(Conversion("d", -1, -1, 2)), 30>>,
         <<L!printfCapacity(Conversion("d", 50, -1, 2)), 50>>,
         <<L!printfCapacity(Conversion("s", -1, -1, 26)), 26>>,
         <<L!printfCapacity(Conversion("s", 10, 10, 26)), 10>>,
         <<L!printfCapacity(Conversion("s", 50, -1, 26)), 50>>>>
==============================================================================
