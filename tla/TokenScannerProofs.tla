------------------------- MODULE TokenScannerProofs -------------------------
(***************************************************************************)
(* What the token scanner promises of every text and every program: the    *)
(* pointer stays in the text, characters are lost only in the four ways    *)
(* the code has, and getPosition is where the next token begins.           *)
(***************************************************************************)
EXTENDS TokenScanner, SequenceTheorems, TLAPS

\* A source of characters, while characters are put back to it: the pointer may
\* have left the text at its beginning.
Source == [infile: BOOLEAN, buffer: Text, cp: Int, ungot: Text,
           charIsSaved: BOOLEAN, savedChars: Text]
Placed(i) == i \in Source /\ i.cp <= Len(i.buffer)

Points == {"idle", "nextToken", "skipSpaces", "first", "slash", "lineComment",
           "blockComment", "dispatch", "operator", "backOff", "scanWord",
           "scanString"} \cup NumberState
Ops == {"none", "nextToken", "hasMoreTokens", "verifyToken"}

\* Characters in the scanner's own stack are above the one given to ungetc, or
\* were left there by a text before, and then this one has not been begun; a
\* string has no ungetc; no text has an end of file in it.
Sound(i) ==
    /\ \A k \in 1..Len(i.buffer) : i.buffer[k] # EOF
    /\ i.savedChars # <<>> /\ ~(i.infile /\ i.charIsSaved) => i.cp <= 0
    /\ ~i.infile => i.ungot = <<>>

ConfigOK ==
    /\ setup \in 1..Len(Setups)
    /\ flags \subseteq Flag /\ operators \subseteq Wanted.operators
    /\ wordChars \subseteq Wanted.wordChars /\ inputs \in 0..MaxInputs
InOK == Placed(in) /\ in.cp \in Nat /\ Sound(in)

\* The token put back first of all, or taken last, is the end of the text that
\* was passed over; tokens are put back only where none is being scanned.
EndsWith(s, t) == \E u \in Text : s = u \o t
TextOK ==
    /\ sb \in Text /\ read \in Text
    /\ savedTokens \in Seq(Text) /\ taken \in Seq(Text)
    /\ Len(savedTokens) + Len(taken) <= 2 /\ Len(taken) <= 1
    /\ pc \notin {"idle", "nextToken"} => savedTokens = <<>>
    /\ savedTokens # <<>> => EndsWith(read, LastOf(savedTokens))
    /\ pc = "idle" /\ savedTokens = <<>> /\ taken # <<>> => EndsWith(read, taken[1])

\* There is a token so far where one is being scanned, and where scanNumber and
\* scanString begin, there is the character that Dispatch saw.
Between == {"idle", "nextToken", "skipSpaces", "first", "slash", "lineComment",
            "blockComment", "dispatch"}
SomeRest == in.savedChars # <<>> \/ in.ungot # <<>> \/ in.cp < Len(in.buffer)
PointOK ==
    /\ ch \in Character /\ prev \in Character /\ pc \in Points
    /\ call.op \in Ops /\ failed \in BOOLEAN
    /\ pc \in Between => sb = <<>>
    /\ pc \in {"operator", "backOff"} => sb # <<>>
    /\ pc = "slash" => ch = "/"
    /\ pc = "dispatch" /\ ~in.infile /\ ch \notin {EOF, "/"} =>
           in.cp = 0 \/ in.buffer[in.cp] = ch
    /\ pc = "INITIAL_STATE" => isdigit(getChar) \/ (in.savedChars # <<>> /\ in.cp = 0)
    /\ pc = "scanString" /\ sb = <<>> => SomeRest

ScannerInv == ConfigOK /\ InOK /\ TextOK /\ PointOK

-----------------------------------------------------------------------------
\* Sequences of characters: what their parts and ends are.
LEMMA LastAndRest ==
    ASSUME NEW S, NEW s \in Seq(S), s # <<>>
    PROVE  /\ LastOf(s) \in S /\ ButLast(s) \in Seq(S)
           /\ s = Append(ButLast(s), LastOf(s))
           /\ Len(ButLast(s)) = Len(s) - 1
           /\ \A k \in 1..Len(s) - 1 : ButLast(s)[k] = s[k]
<1>1. Len(s) \in Nat \ {0} /\ \A k \in 1..Len(s) : s[k] \in S
  BY EmptySeq, ElementOfSeq
<1>2. /\ ButLast(s) \in Seq(S) /\ Len(ButLast(s)) = Len(s) - 1
      /\ \A k \in 1..Len(s) - 1 : ButLast(s)[k] = s[k]
  <2>1. \A k \in 1..Len(s) - 1 : s[k] \in S
    BY <1>1
  <2> QED
    <3> DEFINE n == Len(s) - 1
    <3>1. 1 \in Int /\ n \in Int /\ n >= 0 /\ \A k \in 1..n : s[k] \in S
      BY <1>1, <2>1
    <3> HIDE DEF n
    <3>2. /\ SubSeq(s, 1, n) \in Seq(S)
          /\ Len(SubSeq(s, 1, n)) = IF 1 <= n THEN n - 1 + 1 ELSE 0
          /\ \A k \in 1..n - 1 + 1 : SubSeq(s, 1, n)[k] = s[1 + k - 1]
      BY <3>1
    <3>3. Len(SubSeq(s, 1, n)) = n /\ \A k \in 1..n : SubSeq(s, 1, n)[k] = s[k]
      BY <3>1, <3>2
    <3> QED
      BY <3>2, <3>3 DEF n, ButLast
<1>3. LastOf(s) \in S
  BY <1>1 DEF LastOf
<1>4. s = Append(ButLast(s), LastOf(s))
  <2>1. /\ Append(ButLast(s), LastOf(s)) \in Seq(S)
        /\ Len(Append(ButLast(s), LastOf(s))) = Len(s)
        /\ \A k \in 1..Len(s) : Append(ButLast(s), LastOf(s))[k] = s[k]
    BY <1>1, <1>2, <1>3, AppendProperties DEF LastOf
  <2> QED
    BY <2>1, SeqEqual
<1> QED
  BY <1>2, <1>3, <1>4

\* A source with one part changed.
LEMMA SourceCp ==
    ASSUME NEW i \in Source, NEW n \in Int
    PROVE  LET j == [i EXCEPT !.cp = n]
           IN /\ j \in Source /\ j.cp = n
              /\ j.buffer = i.buffer /\ j.infile = i.infile /\ j.ungot = i.ungot
              /\ j.savedChars = i.savedChars /\ j.charIsSaved = i.charIsSaved
BY DEF Source

LEMMA SourceSaved ==
    ASSUME NEW i \in Source, NEW s \in Text
    PROVE  LET j == [i EXCEPT !.savedChars = s]
           IN /\ j \in Source /\ j.savedChars = s /\ j.cp = i.cp
              /\ j.buffer = i.buffer /\ j.infile = i.infile /\ j.ungot = i.ungot
              /\ j.charIsSaved = i.charIsSaved
BY DEF Source

LEMMA SourceUngot ==
    ASSUME NEW i \in Source, NEW s \in Text, NEW b \in BOOLEAN
    PROVE  LET j == [i EXCEPT !.ungot = s, !.charIsSaved = b]
           IN /\ j \in Source /\ j.ungot = s /\ j.charIsSaved = b /\ j.cp = i.cp
              /\ j.buffer = i.buffer /\ j.infile = i.infile
              /\ j.savedChars = i.savedChars
BY DEF Source

LEMMA SourceNext ==
    ASSUME NEW i \in Source, NEW n \in Int, NEW b \in BOOLEAN
    PROVE  LET j == [i EXCEPT !.cp = n, !.charIsSaved = b]
           IN /\ j \in Source /\ j.cp = n /\ j.charIsSaved = b
              /\ j.buffer = i.buffer /\ j.infile = i.infile
              /\ j.savedChars = i.savedChars /\ j.ungot = i.ungot
BY DEF Source

\* The source the scanner has between two steps.
LEMMA SourceNow ==
    ASSUME TypeOK
    PROVE  /\ in \in Source /\ Placed(in) /\ in.cp \in Nat /\ in.cp <= Len(in.buffer)
           /\ Len(in.buffer) \in Nat
           /\ in.savedChars \in Seq(Character) /\ in.ungot \in Seq(Character)
           /\ in.buffer \in Seq(Character) /\ in.infile \in BOOLEAN
           /\ in.charIsSaved \in BOOLEAN
<1>1. /\ in \in Source /\ in.cp \in Nat /\ in.cp <= Len(in.buffer)
      /\ in.buffer \in Seq(Character)
  BY DEF TypeOK, Source, Text
<1> QED
  BY <1>1 DEF Source, Text, Placed

\* What getChar returns and leaves: from the scanner's own stack, from the
\* character given to ungetc, from the text, or at its end.
LEMMA GetCharCases ==
    ASSUME TypeOK
    PROVE  LET i == AfterGetChar
               same == i.buffer = in.buffer /\ i.infile = in.infile /\ i \in Source
           IN \/ /\ same /\ in.savedChars # <<>>
                 /\ getChar = LastOf(in.savedChars) /\ i.savedChars = ButLast(in.savedChars)
                 /\ i.ungot = in.ungot /\ i.cp = in.cp
              \/ /\ same /\ in.savedChars = <<>> /\ i.savedChars = <<>> /\ in.ungot # <<>>
                 /\ getChar = LastOf(in.ungot) /\ i.ungot = ButLast(in.ungot)
                 /\ i.cp = in.cp
              \/ /\ same /\ in.savedChars = <<>> /\ i.savedChars = <<>>
                 /\ in.ungot = <<>> /\ i.ungot = <<>>
                 /\ in.cp < Len(in.buffer)
                 /\ getChar = in.buffer[in.cp + 1] /\ i.cp = in.cp + 1
              \/ /\ same /\ in.savedChars = <<>> /\ i.savedChars = <<>>
                 /\ in.ungot = <<>> /\ i.ungot = <<>>
                 /\ in.cp = Len(in.buffer) /\ getChar = EOF /\ i.cp = in.cp
<1>0. /\ in \in Source /\ in.cp \in Nat /\ in.cp <= Len(in.buffer)
      /\ Len(in.buffer) \in Nat
      /\ in.savedChars \in Seq(Character) /\ in.ungot \in Seq(Character)
  BY SourceNow
<1>1. CASE in.savedChars # <<>>
  <2>1. ButLast(in.savedChars) \in Text
    BY <1>0, <1>1, LastAndRest DEF Text
  <2>2. AfterGetChar = [in EXCEPT !.savedChars = ButLast(in.savedChars)]
    BY <1>1 DEF AfterGetChar
  <2>3. getChar = LastOf(in.savedChars)
    BY <1>1 DEF getChar
  <2> QED
    BY <1>0, <1>1, <2>1, <2>2, <2>3, SourceSaved
<1>2. CASE in.savedChars = <<>> /\ in.ungot # <<>>
  <2>1. ButLast(in.ungot) \in Text
    BY <1>0, <1>2, LastAndRest DEF Text
  <2>2. AfterGetChar = [in EXCEPT !.ungot = ButLast(in.ungot), !.charIsSaved = FALSE]
    BY <1>2 DEF AfterGetChar
  <2>3. getChar = LastOf(in.ungot)
    BY <1>2 DEF getChar
  <2> QED
    <3>1. LET i == AfterGetChar
          IN /\ i \in Source /\ i.ungot = ButLast(in.ungot) /\ i.cp = in.cp
             /\ i.buffer = in.buffer /\ i.infile = in.infile
             /\ i.savedChars = in.savedChars /\ i.charIsSaved = FALSE
      BY <1>0, <2>1, <2>2, SourceUngot
    <3> QED
      BY <1>2, <2>3, <3>1
<1>3. CASE in.savedChars = <<>> /\ in.ungot = <<>>
  <2> DEFINE n == IF in.cp < Len(in.buffer) THEN in.cp + 1 ELSE in.cp
  <2>1. n \in Int
    BY <1>0
  <2>2. AfterGetChar = [in EXCEPT !.cp = n, !.charIsSaved = FALSE]
    BY <1>3 DEF AfterGetChar
  <2>3. getChar = IF in.cp < Len(in.buffer) THEN in.buffer[in.cp + 1] ELSE EOF
    BY <1>3 DEF getChar
  <2>4. /\ AfterGetChar \in Source /\ AfterGetChar.cp = n
        /\ AfterGetChar.buffer = in.buffer /\ AfterGetChar.infile = in.infile
        /\ AfterGetChar.savedChars = in.savedChars /\ AfterGetChar.ungot = in.ungot
        /\ AfterGetChar.charIsSaved = FALSE
    BY <1>0, <2>1, <2>2, SourceNext
  <2> QED
    BY <1>0, <1>3, <2>3, <2>4
<1> QED
  BY <1>1, <1>2, <1>3

LEMMA GetCharSaved ==
    ASSUME TypeOK
    PROVE  /\ in.savedChars # <<>> => AfterGetChar.charIsSaved = in.charIsSaved
           /\ in.savedChars = <<>> => AfterGetChar.charIsSaved = FALSE
<1>0. /\ in \in Source /\ in.cp \in Nat /\ in.cp <= Len(in.buffer)
      /\ in.savedChars \in Seq(Character) /\ in.ungot \in Seq(Character)
      /\ in.charIsSaved \in BOOLEAN
  BY SourceNow
<1>1. CASE in.savedChars # <<>>
  <2>1. ButLast(in.savedChars) \in Text
    BY <1>0, <1>1, LastAndRest DEF Text
  <2>2. AfterGetChar = [in EXCEPT !.savedChars = ButLast(in.savedChars)]
    BY <1>1 DEF AfterGetChar
  <2>3. AfterGetChar.charIsSaved = in.charIsSaved
    BY <1>0, <2>1, <2>2, SourceSaved
  <2> QED
    BY <1>1, <2>3, Zenon
<1>2. CASE in.savedChars = <<>> /\ in.ungot # <<>>
  <2>1. ButLast(in.ungot) \in Text
    BY <1>0, <1>2, LastAndRest DEF Text
  <2>2. AfterGetChar = [in EXCEPT !.ungot = ButLast(in.ungot), !.charIsSaved = FALSE]
    BY <1>2 DEF AfterGetChar
  <2>3. AfterGetChar.charIsSaved = FALSE
    BY <1>0, <2>1, <2>2, SourceUngot
  <2> QED
    BY <1>2, <2>3, Zenon
<1>3. CASE in.savedChars = <<>> /\ in.ungot = <<>>
  <2> DEFINE n == IF in.cp < Len(in.buffer) THEN in.cp + 1 ELSE in.cp
  <2>1. n \in Int
    BY <1>0
  <2>2. AfterGetChar = [in EXCEPT !.cp = n, !.charIsSaved = FALSE]
    BY <1>3 DEF AfterGetChar
  <2>3. AfterGetChar.charIsSaved = FALSE
    BY <1>0, <2>1, <2>2, SourceNext
  <2> QED
    BY <1>3, <2>3, Zenon
<1> QED
  BY <1>1, <1>2, <1>3

LEMMA GetCharType ==
    ASSUME TypeOK
    PROVE  /\ getChar \in Character
           /\ AfterGetChar \in Source /\ Placed(AfterGetChar) /\ AfterGetChar.cp \in Nat
           /\ AfterGetChar.buffer = in.buffer /\ AfterGetChar.infile = in.infile
<1>0. /\ in \in Source /\ in.cp \in Nat /\ in.cp <= Len(in.buffer)
      /\ in.savedChars \in Seq(Character) /\ in.ungot \in Seq(Character)
      /\ in.buffer \in Seq(Character) /\ Len(in.buffer) \in Nat
  BY SourceNow
<1>1. EOF \in Character
  BY DEF Character
<1>2. in.cp < Len(in.buffer) => in.buffer[in.cp + 1] \in Character
  BY <1>0, ElementOfSeq
<1>3. /\ in.savedChars # <<>> => LastOf(in.savedChars) \in Character
      /\ in.ungot # <<>> => LastOf(in.ungot) \in Character
  BY <1>0, LastAndRest
<1> QED
  BY <1>0, <1>1, <1>2, <1>3, GetCharCases DEF Placed

\* ungetChar takes a character back into a source.
LEMMA UngetCases ==
    ASSUME NEW i \in Source, NEW c \in Character
    PROVE  LET j == ungetChar(i, c)
           IN /\ j \in Source /\ j.buffer = i.buffer /\ j.infile = i.infile
              /\ \/ /\ ~i.infile /\ j.cp = i.cp - 1
                    /\ j.savedChars = i.savedChars /\ j.ungot = i.ungot
                    /\ j.charIsSaved = i.charIsSaved
                 \/ /\ i.infile /\ i.charIsSaved /\ j.charIsSaved /\ j.cp = i.cp
                    /\ j.savedChars = Append(i.savedChars, c) /\ j.ungot = i.ungot
                 \/ /\ i.infile /\ ~i.charIsSaved /\ j.charIsSaved /\ j.cp = i.cp
                    /\ j.savedChars = i.savedChars
                    /\ j.ungot = IF c = EOF THEN i.ungot ELSE Append(i.ungot, c)
<1>0. /\ i.savedChars \in Seq(Character) /\ i.ungot \in Seq(Character) /\ i.cp \in Int
      /\ i.infile \in BOOLEAN /\ i.charIsSaved \in BOOLEAN
  BY DEF Source, Text
<1>1. CASE ~i.infile
  <2>1. i.cp - 1 \in Int
    BY <1>0
  <2>2. ungetChar(i, c) = [i EXCEPT !.cp = i.cp - 1]
    BY <1>1 DEF ungetChar
  <2> QED
    BY <1>0, <1>1, <2>1, <2>2, SourceCp
<1>2. CASE i.infile /\ i.charIsSaved
  <2>1. Append(i.savedChars, c) \in Text
    BY <1>0 DEF Text
  <2>2. ungetChar(i, c) = [i EXCEPT !.savedChars = Append(i.savedChars, c)]
    BY <1>2 DEF ungetChar
  <2> QED
    <3>1. LET j == ungetChar(i, c)
          IN /\ j \in Source /\ j.savedChars = Append(i.savedChars, c) /\ j.cp = i.cp
             /\ j.buffer = i.buffer /\ j.infile = i.infile /\ j.ungot = i.ungot
             /\ j.charIsSaved = i.charIsSaved
      <4> DEFINE s == Append(i.savedChars, c)
      <4>1. s \in Text /\ ungetChar(i, c) = [i EXCEPT !.savedChars = s]
        BY <2>1, <2>2
      <4> HIDE DEF s
      <4>2. LET j == ungetChar(i, c)
            IN /\ j \in Source /\ j.savedChars = s /\ j.cp = i.cp
               /\ j.buffer = i.buffer /\ j.infile = i.infile /\ j.ungot = i.ungot
               /\ j.charIsSaved = i.charIsSaved
        BY <4>1, SourceSaved
      <4> QED
        BY <4>2 DEF s
    <3> QED
      BY <1>0, <1>2, <3>1
<1>3. CASE i.infile /\ ~i.charIsSaved
  <2> DEFINE u == IF c = EOF THEN i.ungot ELSE Append(i.ungot, c)
  <2>1. u \in Text
    BY <1>0 DEF Text
  <2>2. ungetChar(i, c) = [i EXCEPT !.ungot = u, !.charIsSaved = TRUE]
    BY <1>3 DEF ungetChar
  <2> QED
    <3>1. LET j == ungetChar(i, c)
          IN /\ j \in Source /\ j.ungot = u /\ j.charIsSaved = TRUE /\ j.cp = i.cp
             /\ j.buffer = i.buffer /\ j.infile = i.infile
             /\ j.savedChars = i.savedChars
      <4>1. u \in Text /\ ungetChar(i, c) = [i EXCEPT !.ungot = u, !.charIsSaved = TRUE]
        BY <2>1, <2>2
      <4> HIDE DEF u
      <4> QED
        BY <4>1 DEF Source
    <3> QED
      BY <1>0, <1>3, <3>1
<1> QED
  BY <1>0, <1>1, <1>2, <1>3

LEMMA UngetType ==
    ASSUME NEW i, NEW c \in Character, Placed(i)
    PROVE  /\ Placed(ungetChar(i, c))
           /\ ungetChar(i, c).buffer = i.buffer /\ ungetChar(i, c).infile = i.infile
<1>1. i \in Source /\ i.cp \in Int /\ i.cp <= Len(i.buffer) /\ Len(i.buffer) \in Nat
  BY DEF Placed, Source, Text
<1> QED
  BY <1>1, UngetCases DEF Placed

\* An exponent that is not complete puts up to three characters back.
LEMMA PutBackAfterType ==
    ASSUME NEW s, NEW i, NEW c \in Character, Placed(i)
    PROVE  /\ Placed(PutBackAfter(s, i, c))
           /\ PutBackAfter(s, i, c).buffer = i.buffer
           /\ PutBackAfter(s, i, c).infile = i.infile
<1> DEFINE one == IF c = EOF THEN i ELSE ungetChar(i, c)
<1>1. Placed(one) /\ one.buffer = i.buffer /\ one.infile = i.infile
  BY UngetType
<1> DEFINE two == ungetChar(one, c)
<1>2. Placed(two) /\ two.buffer = i.buffer /\ two.infile = i.infile
  BY <1>1, UngetType
<1>3. /\ Placed(ungetChar(two, c)) /\ ungetChar(two, c).buffer = i.buffer
      /\ ungetChar(two, c).infile = i.infile
  BY <1>2, UngetType
<1>4. PutBackAfter(s, i, c) \in {one, two, ungetChar(two, c)}
  BY DEF PutBackAfter
<1> QED
  BY <1>1, <1>2, <1>3, <1>4

\* Where PutBack leaves the pointer: in the text, where it was if it was there.
Again(i) == [i EXCEPT !.cp = IF @ < 0 THEN 0 ELSE @]
LEMMA PlacedAgain ==
    ASSUME NEW i, Placed(i)
    PROVE  /\ Again(i) \in Source /\ Again(i).cp \in Nat
           /\ Again(i).cp <= Len(Again(i).buffer)
           /\ Again(i).cp = (IF i.cp < 0 THEN 0 ELSE i.cp)
           /\ Again(i).buffer = i.buffer /\ Again(i).infile = i.infile
           /\ Again(i).savedChars = i.savedChars /\ Again(i).ungot = i.ungot
           /\ Again(i).charIsSaved = i.charIsSaved
<1> DEFINE n == IF i.cp < 0 THEN 0 ELSE i.cp
<1>1. /\ i \in Source /\ Len(i.buffer) \in Nat /\ i.cp <= Len(i.buffer) /\ i.cp \in Int
  BY DEF Placed, Source, Text
<1>2. n \in Nat /\ n \in Int /\ n <= Len(i.buffer)
  BY <1>1
<1>3. Again(i) = [i EXCEPT !.cp = n]
  BY DEF Again
<1> HIDE DEF n
<1> DEFINE j == [i EXCEPT !.cp = n]
<1>4. /\ j \in Source /\ j.cp = n
      /\ j.buffer = i.buffer /\ j.infile = i.infile /\ j.ungot = i.ungot
      /\ j.savedChars = i.savedChars /\ j.charIsSaved = i.charIsSaved
  BY <1>1, <1>2, SourceCp
<1> HIDE DEF j
<1>5. Again(i) = j
  BY <1>3 DEF j
<1>6. /\ Again(i) \in Source /\ Again(i).cp \in Nat /\ Again(i).cp <= Len(Again(i).buffer)
  BY <1>1, <1>2, <1>4, <1>5
<1>7. Again(i).cp = (IF i.cp < 0 THEN 0 ELSE i.cp)
  BY <1>4, <1>5 DEF n
<1> QED
  BY <1>4, <1>5, <1>6, <1>7

-----------------------------------------------------------------------------
LEMMA InvTypes == ScannerInv => TypeOK
<1> SUFFICES ASSUME ScannerInv PROVE TypeOK
  OBVIOUS
<1>1. in \in [infile: BOOLEAN, buffer: Text, cp: Nat, ungot: Text,
              charIsSaved: BOOLEAN, savedChars: Text]
  BY DEF ScannerInv, InOK, Placed, Source
<1> QED
  BY <1>1 DEF ScannerInv, ConfigOK, InOK, Placed, TextOK, PointOK, Points, Ops, TypeOK

\* Reading and putting back keep a source sound.
LEMMA GetSound ==
    ASSUME ScannerInv
    PROVE  Sound(AfterGetChar)
<1>1. TypeOK /\ Sound(in) /\ in.savedChars \in Seq(Character) /\ in.ungot \in Seq(Character)
  BY InvTypes, SourceNow DEF ScannerInv, InOK
<1>2. in.ungot = <<>> => ~(in.ungot # <<>>)
  OBVIOUS
<1> QED
  BY <1>1, GetCharCases, GetCharSaved DEF Sound

LEMMA UngetSound ==
    ASSUME NEW i, NEW c \in Character, Placed(i), Sound(i)
    PROVE  Sound(ungetChar(i, c))
<1>1. i \in Source /\ i.cp \in Int
  BY DEF Placed, Source
<1> QED
  BY <1>1, UngetCases DEF Sound

LEMMA PutBackAfterSound ==
    ASSUME NEW s, NEW i, NEW c \in Character, Placed(i), Sound(i)
    PROVE  Sound(PutBackAfter(s, i, c))
<1> DEFINE one == IF c = EOF THEN i ELSE ungetChar(i, c)
<1>1. Placed(one) /\ Sound(one)
  BY UngetType, UngetSound
<1> DEFINE two == ungetChar(one, c)
<1>2. Placed(two) /\ Sound(two)
  BY <1>1, UngetType, UngetSound
<1>3. Sound(ungetChar(two, c))
  BY <1>2, UngetSound
<1>4. PutBackAfter(s, i, c) \in {one, two, ungetChar(two, c)}
  BY DEF PutBackAfter
<1> QED
  BY <1>1, <1>2, <1>3, <1>4

LEMMA GotIn ==
    ASSUME ScannerInv, in' = AfterGetChar
    PROVE  InOK' /\ getChar \in Character
BY InvTypes, GetCharType, GetSound DEF InOK

LEMMA AgainIn ==
    ASSUME NEW i, Placed(i), Sound(i), in' = Again(i)
    PROVE  InOK'
BY PlacedAgain DEF InOK, Placed, Sound

\* A token is delivered, or the call is left by an exception.
LEMMA DeliverOK ==
    ASSUME ScannerInv, pc \notin {"idle", "nextToken"}, NEW token \in Text, Deliver(token)
    PROVE  TextOK' /\ PointOK'
<1>1. savedTokens = <<>> /\ taken \in Seq(Text) /\ Len(taken) <= 1 /\ read \in Text
      /\ call.op \in Ops
  BY DEF ScannerInv, TextOK, PointOK
<1>2. EOF \in Character /\ <<>> \in Text
  BY DEF Character, Text
<1>3. read' \in Text /\ EndsWith(read', token)
  <2>1. read' = read \o token
    BY DEF Deliver
  <2>2. read' \in Text
    BY <1>1, <2>1 DEF Text
  <2> QED
    BY <1>1, <2>1, <2>2 DEF EndsWith
<1>4. /\ sb' = <<>> /\ pc' = "idle" /\ ch' = EOF /\ prev' = EOF /\ call' = NoCall
      /\ failed' \in BOOLEAN
  BY DEF Deliver, Return, Leave
<1>5. \/ savedTokens' = <<token>> /\ taken' = taken
      \/ savedTokens' = <<>> /\ taken' = <<token>>
      \/ savedTokens' = <<>> /\ taken' = <<>>
  BY <1>1 DEF Deliver, Return
<1>6. TextOK'
  <2>0. <<token>> \in Seq(Text) /\ Len(<<token>>) = 1 /\ LastOf(<<token>>) = token
    BY DEF LastOf
  <2>1. CASE savedTokens' = <<token>> /\ taken' = taken
    BY <1>1, <1>2, <1>3, <1>4, <2>0, <2>1 DEF TextOK
  <2>2. CASE savedTokens' = <<>> /\ taken' = <<token>>
    BY <1>1, <1>2, <1>3, <1>4, <2>0, <2>2 DEF TextOK
  <2>3. CASE savedTokens' = <<>> /\ taken' = <<>>
    BY <1>1, <1>2, <1>3, <1>4, <2>3 DEF TextOK
  <2> QED
    BY <1>5, <2>1, <2>2, <2>3
<1>7. PointOK'
  BY <1>2, <1>4 DEF PointOK, Points, Ops, NoCall, Between
<1> QED
  BY <1>6, <1>7

LEMMA ThrowOK ==
    ASSUME ScannerInv, pc \notin {"idle", "nextToken"}, ThrowError
    PROVE  TextOK' /\ PointOK'
<1>1. savedTokens = <<>> /\ read \in Text /\ sb \in Text
  BY DEF ScannerInv, TextOK
<1>2. EOF \in Character /\ <<>> \in Text
  BY DEF Character, Text
<1>3. /\ sb' = <<>> /\ pc' = "idle" /\ ch' = EOF /\ prev' = EOF /\ call' = NoCall
      /\ failed' = TRUE /\ savedTokens' = <<>> /\ taken' = <<>> /\ read' \in Text
  BY <1>1 DEF ThrowError, Leave, Text
<1> QED
  BY <1>2, <1>3 DEF TextOK, PointOK, Points, Ops, NoCall, Between

\* The scanner goes on, and no token is put back.
LEMMA GoOnText ==
    ASSUME ScannerInv, savedTokens = <<>>, NEW p, NEW c, NEW b, GoWith(p, c, b),
           p # "idle", sb' \in Text, read' \in Text
    PROVE  TextOK'
BY DEF ScannerInv, TextOK, GoWith

-----------------------------------------------------------------------------
\* What the client does keeps the invariant: it sets the scanner up, ...
LEMMA SetUpOK ==
    ASSUME ScannerInv,
           \/ \E f \in Flag : SetFlag(f)
           \/ \E op \in Wanted.operators : addOperator(op)
           \/ \E c \in Wanted.wordChars : addWordCharacters(c)
    PROVE  ScannerInv'
<1>1. UNCHANGED <<setup, Scanning>>
  BY DEF SetFlag, addOperator, addWordCharacters
<1>2. ConfigOK'
  BY <1>1 DEF ScannerInv, ConfigOK, Wanted, Scanning, SetFlag, addOperator,
              addWordCharacters
<1>3. InOK' /\ TextOK' /\ PointOK'
  BY <1>1 DEF ScannerInv, InOK, TextOK, PointOK, Scanning, SomeRest, getChar
<1> QED
  BY <1>2, <1>3 DEF ScannerInv

\* ... gives it a text, ...
LEMMA NewInputOK ==
    ASSUME ScannerInv, NEW n \in 0..TextLength, NEW str \in [1..n -> Wanted.alphabet],
           setInputString(str) \/ setInputFile(str)
    PROVE  ScannerInv'
<1>0. /\ in \in Source /\ in.savedChars \in Text
      /\ setup \in 1..Len(Setups) /\ inputs \in Nat
      /\ sb = <<>> /\ ch \in Character /\ prev \in Character
      /\ call.op \in Ops /\ failed \in BOOLEAN
  <2>1. pc = "idle"
    BY DEF setInputString, setInputFile, NewInput
  <2> QED
    BY <2>1 DEF ScannerInv, ConfigOK, InOK, PointOK, Placed, Source, Between
<1>1. n \in Nat /\ str \in Text /\ Len(str) = n /\ \A k \in 1..Len(str) : str[k] # EOF
  <2>1. TextLength \in Nat
    BY <1>0, SetupsAssumption DEF TextLength, Wanted
  <2>2. Wanted.alphabet \subseteq Character /\ EOF \notin Wanted.alphabet
    BY <1>0, SetupsAssumption DEF Wanted, Character
  <2>3. n \in Nat
    BY <2>1
  <2> QED
    BY <2>2, <2>3 DEF Text
<1>2. /\ in' \in Source /\ in'.buffer = str /\ in'.cp = 0 /\ in'.ungot = <<>>
  <2>1. <<>> \in Text
    BY DEF Text
  <2> QED
    <3> DEFINE e == <<>>
               n0 == 0
               no == FALSE
               yes == TRUE
    <3>0. e \in Text /\ n0 \in Int /\ no \in BOOLEAN /\ yes \in BOOLEAN
      BY <2>1
    <3>1. CASE setInputString(str)
      <4>1. in' = [in EXCEPT !.infile = no, !.buffer = str, !.cp = n0, !.ungot = e]
        BY <3>1 DEF setInputString, NewInput
      <4> HIDE DEF e, n0, no, yes
      <4>2. in' \in Source /\ in'.buffer = str /\ in'.cp = n0 /\ in'.ungot = e
        BY <1>0, <1>1, <3>0, <4>1 DEF Source
      <4> QED
        BY <4>2 DEF e, n0
    <3>2. CASE setInputFile(str)
      <4>1. in' = [in EXCEPT !.infile = yes, !.buffer = str, !.cp = n0, !.ungot = e,
                             !.charIsSaved = no]
        BY <3>2 DEF setInputFile, NewInput
      <4> HIDE DEF e, n0, no, yes
      <4>2. in' \in Source /\ in'.buffer = str /\ in'.cp = n0 /\ in'.ungot = e
        BY <1>0, <1>1, <3>0, <4>1 DEF Source
      <4> QED
        BY <4>2 DEF e, n0
    <3> QED
      BY <3>1, <3>2
<1>3. /\ UNCHANGED <<config, sb, pc, ch, prev, call, failed>> /\ pc = "idle"
      /\ savedTokens' = <<>> /\ taken' = <<>> /\ read' = <<>>
      /\ inputs < MaxInputs /\ inputs' = inputs + 1
  BY DEF setInputString, setInputFile, NewInput
<1>4. ConfigOK'
  BY <1>0, <1>3, BoundsAssumption DEF ScannerInv, ConfigOK, config, Wanted
<1>5. InOK'
  BY <1>1, <1>2 DEF InOK, Placed, Sound
<1>6. TextOK' /\ PointOK'
  <2>1. <<>> \in Text
    BY DEF Text
  <2> QED
    BY <1>0, <1>3, <2>1 DEF TextOK, PointOK, Points
<1> QED
  BY <1>4, <1>5, <1>6 DEF ScannerInv

\* ... calls it, and puts a token back.
LEMMA CallOK ==
    ASSUME ScannerInv, NEW c, Call(c), c.op \in Ops
    PROVE  ScannerInv'
<1>1. ConfigOK' /\ InOK'
  BY DEF Call, ScannerInv, ConfigOK, InOK, config, Wanted
<1>2. TextOK'
  BY DEF Call, ScannerInv, TextOK
<1>3. PointOK'
  BY DEF Call, ScannerInv, PointOK, Points, Between
<1> QED
  BY <1>1, <1>2, <1>3 DEF ScannerInv

LEMMA SaveTokenOK ==
    ASSUME ScannerInv, saveToken
    PROVE  ScannerInv'
<1>1. ConfigOK' /\ InOK' /\ PointOK'
  BY DEF saveToken, ScannerInv, ConfigOK, InOK, PointOK, config, Wanted
<1>2. TextOK'
  <2>1. /\ savedTokens \in Seq(Text) /\ taken \in Seq(Text) /\ Len(taken) = 1
        /\ Len(savedTokens) + Len(taken) <= 2
        /\ savedTokens' = taken \o savedTokens /\ taken' = <<>> /\ pc = "idle"
        /\ UNCHANGED <<sb, read, pc>>
    <3>1. taken \in Seq(Text) /\ taken # <<>> /\ Len(taken) <= 1
      BY DEF saveToken, ScannerInv, TextOK
    <3>2. Len(taken) = 1
      BY <3>1, EmptySeq
    <3> QED
      BY <3>1, <3>2 DEF saveToken, ScannerInv, TextOK
  <2>2. /\ savedTokens' \in Seq(Text) /\ savedTokens' # <<>>
        /\ Len(savedTokens') = 1 + Len(savedTokens)
        /\ LastOf(savedTokens') =
               IF savedTokens = <<>> THEN taken[1] ELSE LastOf(savedTokens)
    <3>1. /\ savedTokens' \in Seq(Text) /\ Len(savedTokens') = 1 + Len(savedTokens)
          /\ \A k \in 1..1 + Len(savedTokens) :
                 savedTokens'[k] = IF k <= 1 THEN taken[k] ELSE savedTokens[k - 1]
      BY <2>1, ConcatProperties
    <3>2. Len(savedTokens) \in Nat /\ (savedTokens = <<>> <=> Len(savedTokens) = 0)
      BY <2>1, EmptySeq
    <3> QED
      BY <3>1, <3>2 DEF LastOf
  <2>3. EndsWith(read, LastOf(savedTokens'))
    BY <2>1, <2>2 DEF saveToken, ScannerInv, TextOK
  <2> QED
    BY <2>1, <2>2, <2>3 DEF ScannerInv, TextOK
<1> QED
  BY <1>1, <1>2 DEF ScannerInv

-----------------------------------------------------------------------------
\* Each step of the scanner keeps the invariant.
LEMMA TakeSavedTokenOK ==
    ASSUME ScannerInv, TakeSavedToken
    PROVE  ScannerInv'
<1>1. ConfigOK' /\ InOK'
  BY DEF TakeSavedToken, Still, ScannerInv, ConfigOK, InOK, config, Wanted
<1>2. PointOK'
  <2>1. EOF \in Character /\ sb = <<>>
    BY DEF Character, TakeSavedToken, ScannerInv, PointOK, Between
  <2> QED
    BY <2>1 DEF TakeSavedToken, Return, Leave, PointOK, Points, Ops, NoCall
<1>3. TextOK'
  <2> DEFINE h == Head(savedTokens)
             r == Tail(savedTokens)
  <2>1. /\ savedTokens \in Seq(Text) /\ savedTokens # <<>> /\ taken \in Seq(Text)
        /\ Len(savedTokens) + Len(taken) <= 2 /\ Len(taken) <= 1
        /\ EndsWith(read, LastOf(savedTokens)) /\ UNCHANGED <<sb, read>>
        /\ sb \in Text /\ read \in Text /\ pc' = "idle"
    BY DEF TakeSavedToken, Return, Leave, ScannerInv, TextOK
  <2>2. /\ h \in Text /\ r \in Seq(Text) /\ Len(r) = Len(savedTokens) - 1
        /\ h = savedTokens[1] /\ Len(savedTokens) \in Nat \ {0} /\ Len(taken) \in Nat
        /\ <<h>> \o r = savedTokens
        /\ r # <<>> => LastOf(r) = LastOf(savedTokens)
        /\ r = <<>> => h = LastOf(savedTokens)
    <3>1. /\ h \in Text /\ r \in Seq(Text) /\ Len(r) = Len(savedTokens) - 1
          /\ h = savedTokens[1] /\ Len(savedTokens) \in Nat \ {0} /\ Len(taken) \in Nat
          /\ \A k \in 1..Len(r) : r[k] = savedTokens[k + 1]
      BY <2>1
    <3>2. <<h>> \o r = savedTokens
      <4>1. /\ <<h>> \o r \in Seq(Text) /\ Len(<<h>> \o r) = Len(savedTokens)
            /\ \A k \in 1..Len(savedTokens) : (<<h>> \o r)[k] = savedTokens[k]
        <5> HIDE DEF h, r
        <5> QED
          BY <3>1
      <4> QED
        BY <2>1, <4>1, SeqEqual
    <3>3. /\ r # <<>> => LastOf(r) = LastOf(savedTokens)
          /\ r = <<>> => h = LastOf(savedTokens)
      <4> HIDE DEF h, r
      <4> QED
        BY <3>1, EmptySeq DEF LastOf
    <3> QED
      BY <3>1, <3>2, <3>3
  <2>3. <<h>> \in Seq(Text) /\ Len(<<h>>) = 1 /\ <<h>>[1] = h /\ <<h>> # <<>>
        /\ <<>> \in Seq(Text) /\ Len(<<>>) = 0
    BY <2>2
  <2>4. \/ savedTokens' = <<h>> \o r /\ taken' = taken
        \/ savedTokens' = r /\ (taken' = <<h>> \/ taken' = <<>>)
    BY DEF TakeSavedToken, Return
  <2> HIDE DEF h, r
  <2>5. CASE savedTokens' = savedTokens /\ taken' = taken
    BY <2>1, <2>5 DEF TextOK
  <2>6. CASE savedTokens' = r /\ taken' = <<h>>
    BY <2>1, <2>2, <2>3, <2>6 DEF TextOK
  <2>7. CASE savedTokens' = r /\ taken' = <<>>
    BY <2>1, <2>2, <2>3, <2>7 DEF TextOK
  <2> QED
    BY <2>2, <2>4, <2>5, <2>6, <2>7
<1> QED
  BY <1>1, <1>2, <1>3 DEF ScannerInv

LEMMA BeginScanOK ==
    ASSUME ScannerInv, BeginScan
    PROVE  ScannerInv'
<1>1. ConfigOK' /\ InOK'
  BY DEF BeginScan, Still, ScannerInv, ConfigOK, InOK, config, Wanted
<1>2. TextOK'
  BY DEF BeginScan, TakeNothing, GoTo, GoWith, ScannerInv, TextOK
<1>3. PointOK'
  BY DEF BeginScan, TakeNothing, GoTo, GoWith, ScannerInv, PointOK, Points, Between
<1> QED
  BY <1>1, <1>2, <1>3 DEF ScannerInv

\* What every step of nextToken itself begins with.
LEMMA Scanning0 ==
    ASSUME ScannerInv, pc \notin {"idle", "nextToken"}
    PROVE  /\ TypeOK /\ savedTokens = <<>> /\ sb \in Text /\ read \in Text
           /\ ch \in Character /\ prev \in Character /\ EOF \in Character
           /\ call.op \in Ops /\ failed \in BOOLEAN
           /\ Placed(in) /\ in \in Source /\ in.cp \in Nat /\ Sound(in)
           /\ getChar \in Character /\ Placed(AfterGetChar) /\ Sound(AfterGetChar)
           /\ AfterGetChar \in Source
BY InvTypes, GetCharType, GetSound
DEF ScannerInv, InOK, TextOK, PointOK, Placed, Character

LEMMA StillOK ==
    ASSUME ScannerInv, Still
    PROVE  ConfigOK'
BY DEF Still, ScannerInv, ConfigOK, config, Wanted

LEMMA skipSpacesOK ==
    ASSUME ScannerInv, skipSpaces
    PROVE  ScannerInv'
<1>0. /\ TypeOK /\ savedTokens = <<>> /\ sb \in Text /\ read \in Text
      /\ ch \in Character /\ prev \in Character
      /\ call.op \in Ops /\ failed \in BOOLEAN /\ sb = <<>>
      /\ getChar \in Character /\ Placed(AfterGetChar) /\ Sound(AfterGetChar)
      /\ pc = "skipSpaces"
  BY Scanning0 DEF skipSpaces, ScannerInv, PointOK, Between
<1>1. ConfigOK'
  BY StillOK DEF skipSpaces
<1>2. CASE in' = AfterGetChar /\ Skip(getChar) /\ GoTo(pc)
  <2>1. read' \in Text /\ sb' = sb
    BY <1>0, <1>2 DEF Skip, Text
  <2>2. TextOK'
    BY <1>0, <1>2, <2>1, GoOnText DEF GoTo
  <2>3. PointOK'
    BY <1>0, <1>2, <2>1 DEF GoTo, GoWith, PointOK, Points
  <2> QED
    BY <1>1, <1>2, <2>2, <2>3, GotIn DEF ScannerInv
<1> DEFINE i == IF getChar = EOF THEN AfterGetChar ELSE ungetChar(AfterGetChar, getChar)
<1>3. CASE PutBack(i, TakeNothing /\ GoTo("first"))
  <2>1. Placed(i) /\ Sound(i) /\ in' = Again(i)
    <3>1. Placed(i) /\ Sound(i)
      BY <1>0, UngetType, UngetSound
    <3> QED
      BY <1>3, <3>1 DEF PutBack, Again
  <2>2. InOK'
    BY <2>1, AgainIn
  <2>3. CASE ThrowError
    BY <1>0, <1>1, <2>2, <2>3, ThrowOK DEF ScannerInv
  <2>4. CASE TakeNothing /\ GoTo("first")
    <3>1. TextOK'
      BY <1>0, <2>4, GoOnText DEF GoTo, TakeNothing
    <3>2. PointOK'
      BY <1>0, <2>4 DEF GoTo, GoWith, TakeNothing, PointOK, Points
    <3> QED
      BY <1>1, <2>2, <3>1, <3>2 DEF ScannerInv
  <2> QED
    BY <1>3, <2>3, <2>4 DEF PutBack
<1> QED
  BY <1>2, <1>3 DEF skipSpaces

LEMMA FirstCharOK ==
    ASSUME ScannerInv, FirstChar
    PROVE  ScannerInv'
<1>0. /\ TypeOK /\ savedTokens = <<>> /\ sb \in Text /\ read \in Text
      /\ ch \in Character /\ prev \in Character
      /\ call.op \in Ops /\ failed \in BOOLEAN /\ sb = <<>>
      /\ getChar \in Character /\ Sound(in)
      /\ pc = "first"
  BY Scanning0 DEF FirstChar, ScannerInv, PointOK, Between
<1>1. ConfigOK' /\ InOK'
  BY StillOK, GotIn DEF FirstChar
<1>2. /\ pc' \in {"slash", "dispatch"} /\ ch' = getChar /\ prev' = prev
      /\ pc' = "slash" => getChar = "/"
      /\ in' = AfterGetChar /\ UNCHANGED <<sb, read, call, failed>>
  BY DEF FirstChar, GoWith, TakeNothing
<1>3. TextOK'
  BY <1>0, GoOnText DEF FirstChar, TakeNothing
<1>4. ~in.infile /\ getChar # EOF =>
          AfterGetChar.cp = 0 \/ AfterGetChar.buffer[AfterGetChar.cp] = getChar
  <2>1. in.savedChars # <<>> \/ in.ungot # <<>> => (~in.infile => in.cp = 0)
    BY <1>0 DEF Sound, ScannerInv, InOK
  <2>2. in.cp + 1 - 1 = in.cp /\ in.cp \in Nat
    BY DEF ScannerInv, InOK
  <2> QED
    BY <1>0, <2>1, <2>2, GetCharCases
<1>5. PointOK'
  <2>1. AfterGetChar.infile = in.infile
    BY <1>0, GetCharType
  <2> QED
    BY <1>0, <1>2, <1>4, <2>1 DEF PointOK, Points
<1> QED
  BY <1>1, <1>3, <1>5 DEF ScannerInv

\* Dispatch and Slash put a character back and go on at p, or fail.
LEMMA PutBackOK ==
    ASSUME ScannerInv, pc \notin {"idle", "nextToken"}, NEW i, Placed(i), Sound(i),
           in' = Again(i), ConfigOK', ThrowError
    PROVE  ScannerInv'
BY AgainIn, ThrowOK DEF ScannerInv

LEMMA SlashOK ==
    ASSUME ScannerInv, Slash
    PROVE  ScannerInv'
<1>0. /\ TypeOK /\ savedTokens = <<>> /\ sb \in Text /\ read \in Text
      /\ ch \in Character /\ prev \in Character /\ EOF \in Character
      /\ call.op \in Ops /\ failed \in BOOLEAN /\ sb = <<>> /\ ch = "/"
      /\ getChar \in Character /\ Placed(AfterGetChar) /\ Sound(AfterGetChar)
      /\ pc = "slash"
  BY Scanning0 DEF Slash, ScannerInv, PointOK, Between
<1>1. ConfigOK'
  BY StillOK DEF Slash
<1>2. CASE /\ getChar \in {"/", "*"} /\ in' = AfterGetChar
           /\ read' = read \o <<"/", getChar>> /\ UNCHANGED sb
           /\ GoWith(IF getChar = "/" THEN "lineComment" ELSE "blockComment", ch, EOF)
  <2>1. read' \in Text
    <3>1. <<ch, getChar>> \in Text
      BY <1>0 DEF Text
    <3> QED
      BY <1>0, <1>2, <3>1 DEF Text
  <2>2. TextOK'
    BY <1>0, <1>2, <2>1, GoOnText
  <2>3. PointOK'
    BY <1>0, <1>2 DEF GoWith, PointOK, Points
  <2> QED
    BY <1>1, <1>2, <2>2, <2>3, GotIn DEF ScannerInv
<1> DEFINE i == ungetChar(AfterGetChar, getChar)
<1>3. CASE PutBack(i, TakeNothing /\ GoTo("dispatch"))
  <2>1. Placed(i) /\ Sound(i)
    BY <1>0, UngetType, UngetSound
  <2>2. in' = Again(i)
    BY <1>3 DEF PutBack, Again
  <2>3. CASE ThrowError
    BY <1>0, <1>1, <2>1, <2>2, <2>3, PutBackOK
  <2>4. CASE TakeNothing /\ GoTo("dispatch")
    <3>1. TextOK'
      BY <1>0, <2>4, GoOnText DEF GoTo, TakeNothing
    <3>2. PointOK'
      BY <1>0, <2>4 DEF GoTo, GoWith, TakeNothing, PointOK, Points
    <3> QED
      BY <1>1, <2>1, <2>2, <3>1, <3>2, AgainIn DEF ScannerInv
  <2> QED
    BY <1>3, <2>3, <2>4 DEF PutBack
<1> QED
  BY <1>2, <1>3 DEF Slash

LEMMA CommentOK ==
    ASSUME ScannerInv, Comment
    PROVE  ScannerInv'
<1>0. /\ TypeOK /\ savedTokens = <<>> /\ sb \in Text /\ read \in Text
      /\ ch \in Character /\ prev \in Character
      /\ call.op \in Ops /\ failed \in BOOLEAN /\ sb = <<>>
      /\ getChar \in Character /\ pc \in {"lineComment", "blockComment"}
  BY Scanning0 DEF Comment, ScannerInv, PointOK, Between
<1>1. ConfigOK' /\ InOK'
  BY StillOK, GotIn DEF Comment
<1>2. \E p \in {"nextToken", "lineComment", "blockComment"} :
          GoWith(p, ch, getChar)
  BY <1>0 DEF Comment
<1>3. read' \in Text /\ sb' = sb
  BY <1>0 DEF Comment, TakeNothing, Skip, Text
<1>4. TextOK'
  BY <1>0, <1>2, <1>3, GoOnText
<1>5. PointOK'
  BY <1>0, <1>2, <1>3 DEF GoWith, PointOK, Points
<1> QED
  BY <1>1, <1>4, <1>5 DEF ScannerInv

LEMMA GrowOperatorOK ==
    ASSUME ScannerInv, GrowOperator
    PROVE  ScannerInv'
<1>0. /\ TypeOK /\ savedTokens = <<>> /\ sb \in Text /\ read \in Text
      /\ ch \in Character /\ prev \in Character /\ EOF \in Character
      /\ call.op \in Ops /\ failed \in BOOLEAN /\ sb # <<>>
      /\ getChar \in Character /\ pc = "operator"
  BY Scanning0 DEF GrowOperator, ScannerInv, PointOK
<1>1. ConfigOK' /\ InOK'
  <2>1. in' = AfterGetChar \/ in' = in
    BY DEF GrowOperator
  <2> QED
    BY <2>1, StillOK, GotIn DEF GrowOperator, InOK, ScannerInv
<1>2. \E p \in {"operator", "backOff"}, c \in {ch, EOF, getChar} : GoWith(p, c, prev)
  BY <1>0 DEF GrowOperator, GoTo
<1>3. read' \in Text /\ sb' \in Text /\ sb' # <<>>
  <2>1. read' = read /\ (sb' = sb \/ sb' = Append(sb, getChar))
    BY DEF GrowOperator, TakeNothing, Take
  <2>2. Append(sb, getChar) \in Text /\ Append(sb, getChar) # <<>>
    BY <1>0 DEF Text
  <2> QED
    BY <1>0, <2>1, <2>2
<1>4. TextOK'
  BY <1>0, <1>2, <1>3, GoOnText
<1>5. PointOK'
  BY <1>0, <1>2, <1>3 DEF GoWith, PointOK, Points, Between
<1> QED
  BY <1>1, <1>4, <1>5 DEF ScannerInv

LEMMA BackOffOK ==
    ASSUME ScannerInv, BackOff
    PROVE  ScannerInv'
<1>0. /\ savedTokens = <<>> /\ sb \in Text /\ read \in Text
      /\ ch \in Character /\ prev \in Character /\ Placed(in) /\ Sound(in)
      /\ call.op \in Ops /\ failed \in BOOLEAN /\ sb # <<>> /\ pc = "backOff"
  BY Scanning0 DEF BackOff, ScannerInv, PointOK
<1>1. ConfigOK'
  BY StillOK DEF BackOff
<1>2. CASE Deliver(sb) /\ UNCHANGED in
  BY <1>0, <1>1, <1>2, DeliverOK DEF ScannerInv, InOK
<1> DEFINE i == ungetChar(in, ch)
<1>3. CASE /\ ~(Len(sb) = 1 \/ isOperator(sb))
           /\ PutBack(i, sb' = ButLast(sb) /\ UNCHANGED read /\ GoTo(pc))
  <2>1. Placed(i) /\ Sound(i)
    BY <1>0, UngetType, UngetSound
  <2>2. in' = Again(i)
    BY <1>3 DEF PutBack, Again
  <2>3. CASE ThrowError
    BY <1>0, <1>1, <2>1, <2>2, <2>3, PutBackOK
  <2>4. CASE sb' = ButLast(sb) /\ UNCHANGED read /\ GoTo(pc)
    <3>1. sb' \in Text /\ sb' # <<>>
      <4>1. sb \in Seq(Character) /\ Len(sb) \in Nat \ {0} /\ Len(sb) # 1
        BY <1>0, <1>3, EmptySeq DEF Text
      <4>2. ButLast(sb) \in Seq(Character) /\ Len(ButLast(sb)) = Len(sb) - 1
        BY <1>0, <4>1, LastAndRest
      <4> QED
        BY <2>4, <4>1, <4>2 DEF Text
    <3>2. TextOK'
      BY <1>0, <2>4, <3>1, GoOnText DEF GoTo
    <3>3. PointOK'
      BY <1>0, <2>4, <3>1 DEF GoTo, GoWith, PointOK, Points, Between
    <3> QED
      BY <1>1, <2>1, <2>2, <3>2, <3>3, AgainIn DEF ScannerInv
  <2> QED
    BY <1>3, <2>3, <2>4 DEF PutBack
<1> QED
  BY <1>2, <1>3 DEF BackOff

LEMMA scanWordOK ==
    ASSUME ScannerInv, scanWord
    PROVE  ScannerInv'
<1>0. /\ TypeOK /\ savedTokens = <<>> /\ sb \in Text /\ read \in Text
      /\ ch \in Character /\ prev \in Character
      /\ call.op \in Ops /\ failed \in BOOLEAN /\ pc = "scanWord"
      /\ getChar \in Character /\ Placed(AfterGetChar) /\ Sound(AfterGetChar)
  BY Scanning0 DEF scanWord, ScannerInv, PointOK
<1>1. ConfigOK'
  BY StillOK DEF scanWord
<1>2. CASE in' = AfterGetChar /\ Deliver(sb)
  BY <1>0, <1>1, <1>2, DeliverOK, GotIn DEF ScannerInv
<1>3. CASE in' = AfterGetChar /\ Take(getChar) /\ GoTo(pc)
  <2>1. sb' \in Text /\ read' \in Text
    BY <1>0, <1>3 DEF Take, Text
  <2>2. TextOK'
    BY <1>0, <1>3, <2>1, GoOnText DEF GoTo
  <2>3. PointOK'
    BY <1>0, <1>3 DEF GoTo, GoWith, PointOK, Points, Between
  <2> QED
    BY <1>1, <1>3, <2>2, <2>3, GotIn DEF ScannerInv
<1> DEFINE i == ungetChar(AfterGetChar, getChar)
<1>4. CASE PutBack(i, Deliver(sb))
  <2>1. Placed(i) /\ Sound(i)
    BY <1>0, UngetType, UngetSound
  <2>2. in' = Again(i)
    BY <1>4 DEF PutBack, Again
  <2>3. ThrowError \/ Deliver(sb)
    BY <1>4 DEF PutBack
  <2> QED
    BY <1>0, <1>1, <2>1, <2>2, <2>3, PutBackOK, DeliverOK, AgainIn DEF ScannerInv
<1> QED
  BY <1>2, <1>3, <1>4 DEF scanWord

LEMMA scanNumberOK ==
    ASSUME ScannerInv, scanNumber
    PROVE  ScannerInv'
<1>0. /\ TypeOK /\ savedTokens = <<>> /\ sb \in Text /\ read \in Text
      /\ ch \in Character /\ prev \in Character
      /\ call.op \in Ops /\ failed \in BOOLEAN /\ pc \in NumberState
      /\ pc \notin {"idle", "nextToken"}
      /\ getChar \in Character /\ Placed(AfterGetChar) /\ Sound(AfterGetChar)
  BY Scanning0 DEF scanNumber, ScannerInv, PointOK, NumberState
<1>1. ConfigOK'
  BY StillOK DEF scanNumber
<1> DEFINE to == NumberStateAfter(pc, getChar)
           i == PutBackAfter(pc, AfterGetChar, getChar)
<1>2. CASE to # "FINAL_STATE" /\ in' = AfterGetChar /\ Take(getChar) /\ GoTo(to)
  <2>1. sb' \in Text /\ read' \in Text
    BY <1>0, <1>2 DEF Take, Text
  <2>2. to \in NumberState \ {"INITIAL_STATE"}
    BY <1>0, <1>2 DEF NumberStateAfter, NumberState
  <2> HIDE DEF to
  <2>3. TextOK'
    BY <1>0, <1>2, <2>1, <2>2, GoOnText DEF GoTo, NumberState
  <2>4. PointOK'
    BY <1>0, <1>2, <2>2 DEF GoTo, GoWith, PointOK, Points, Between, NumberState
  <2> QED
    BY <1>1, <1>2, <2>3, <2>4, GotIn DEF ScannerInv
<1>3. CASE in' = AfterGetChar /\ ThrowError
  BY <1>0, <1>1, <1>3, ThrowOK, GotIn DEF ScannerInv
<1>4. CASE PutBack(i, Deliver(sb))
  <2>1. Placed(i) /\ Sound(i)
    BY <1>0, PutBackAfterType, PutBackAfterSound
  <2>2. in' = Again(i)
    BY <1>4 DEF PutBack, Again
  <2>3. ThrowError \/ Deliver(sb)
    BY <1>4 DEF PutBack
  <2> QED
    BY <1>0, <1>1, <2>1, <2>2, <2>3, PutBackOK, DeliverOK, AgainIn DEF ScannerInv
<1> QED
  BY <1>2, <1>3, <1>4 DEF scanNumber

LEMMA scanStringOK ==
    ASSUME ScannerInv, scanString
    PROVE  ScannerInv'
<1>0. /\ TypeOK /\ savedTokens = <<>> /\ sb \in Text /\ read \in Text
      /\ ch \in Character /\ prev \in Character /\ EOF \in Character
      /\ call.op \in Ops /\ failed \in BOOLEAN /\ pc = "scanString"
      /\ getChar \in Character
  BY Scanning0 DEF scanString, ScannerInv, PointOK
<1>1. ConfigOK' /\ InOK'
  BY StillOK, GotIn DEF scanString
<1>2. CASE ThrowError
  BY <1>0, <1>1, <1>2, ThrowOK DEF ScannerInv
<1>3. CASE sb # <<>> /\ Deliver(Append(sb, sb[1]))
  <2>1. Append(sb, sb[1]) \in Text
    BY <1>0, <1>3 DEF Text
  <2> QED
    BY <1>0, <1>1, <1>3, <2>1, DeliverOK DEF ScannerInv
<1>4. ASSUME NEW b \in Character, Take(getChar), GoWith(pc, ch, b) PROVE ScannerInv'
  <2>1. sb' \in Text /\ sb' # <<>> /\ read' \in Text
    BY <1>0, <1>4 DEF Take, Text
  <2>2. TextOK'
    BY <1>0, <1>4, <2>1, GoOnText
  <2>3. PointOK'
    BY <1>0, <1>4, <2>1 DEF GoWith, PointOK, Points, Between
  <2> QED
    BY <1>1, <2>2, <2>3 DEF ScannerInv
<1>5. \/ ThrowError
      \/ sb # <<>> /\ Deliver(Append(sb, sb[1]))
      \/ Take(getChar) /\ \E b \in {getChar, EOF} : GoWith(pc, ch, b)
  BY DEF scanString
<1> QED
  BY <1>0, <1>2, <1>3, <1>4, <1>5

\* Only Dispatch begins a number or a string: at the character it put back, if
\* the text has been begun.
LEMMA DispatchOK ==
    ASSUME ScannerInv, Dispatch
    PROVE  ScannerInv'
<1>0. /\ TypeOK /\ savedTokens = <<>> /\ sb \in Text /\ read \in Text
      /\ ch \in Character /\ prev \in Character
      /\ Placed(in) /\ Sound(in) /\ in \in Source /\ in.cp \in Nat
      /\ call.op \in Ops /\ failed \in BOOLEAN /\ sb = <<>> /\ pc = "dispatch"
  BY Scanning0 DEF Dispatch, ScannerInv, PointOK, Between
<1>1. ConfigOK'
  BY StillOK DEF Dispatch
<1>2. CASE Deliver(EmptyToken) /\ UNCHANGED in
  <2>1. EmptyToken \in Text
    BY DEF EmptyToken, Text
  <2> QED
    BY <1>0, <1>1, <1>2, <2>1, DeliverOK DEF ScannerInv, InOK
<1>3. CASE Take(ch) /\ GoTo("operator") /\ UNCHANGED in
  <2>1. sb' \in Text /\ sb' # <<>> /\ read' \in Text
    BY <1>0, <1>3 DEF Take, Text
  <2>2. TextOK'
    BY <1>0, <1>3, <2>1, GoOnText DEF GoTo
  <2>3. PointOK'
    BY <1>0, <1>3, <2>1 DEF GoTo, GoWith, PointOK, Points, Between
  <2> QED
    BY <1>1, <1>3, <2>2, <2>3 DEF ScannerInv, InOK
<1> DEFINE i == ungetChar(in, ch)
<1>4. ASSUME NEW p \in {"scanString", "INITIAL_STATE", "scanWord"}, ch # EOF,
             p = "INITIAL_STATE" => isdigit(ch),
             PutBack(i, TakeNothing /\ GoTo(p))
      PROVE  ScannerInv'
  <2>1. Placed(i) /\ Sound(i) /\ i \in Source
    BY <1>0, UngetType, UngetSound, UngetCases
  <2>2. in' = Again(i)
    BY <1>4 DEF PutBack, Again
  <2>3. CASE ThrowError
    BY <1>0, <1>1, <2>1, <2>2, <2>3, PutBackOK
  <2>4. CASE i.cp >= 0 /\ TakeNothing /\ GoTo(p)
    <3>1. TextOK'
      BY <1>0, <2>4, GoOnText DEF GoTo, TakeNothing
    <3>2. /\ in' \in Source /\ in'.cp = i.cp /\ in'.buffer = i.buffer
          /\ in'.infile = i.infile /\ in'.savedChars = i.savedChars /\ in'.ungot = i.ungot
      <4> HIDE DEF i
      <4>1. /\ Again(i) \in Source /\ Again(i).cp = (IF i.cp < 0 THEN 0 ELSE i.cp)
            /\ Again(i).buffer = i.buffer /\ Again(i).infile = i.infile
            /\ Again(i).savedChars = i.savedChars /\ Again(i).ungot = i.ungot
        BY <2>1, PlacedAgain
      <4>2. i.cp \in Int
        BY <2>1 DEF Source
      <4> QED
        BY <2>2, <2>4, <4>1, <4>2
    <3>u. /\ in'.buffer = in.buffer /\ in'.infile = in.infile
          /\ \/ /\ ~in.infile /\ in'.cp = in.cp - 1
                /\ in'.savedChars = in.savedChars /\ in'.ungot = in.ungot
             \/ /\ in.infile /\ in.charIsSaved /\ in'.cp = in.cp
                /\ in'.savedChars = Append(in.savedChars, ch) /\ in'.ungot = in.ungot
             \/ /\ in.infile /\ ~in.charIsSaved /\ in'.cp = in.cp
                /\ in'.savedChars = in.savedChars /\ in'.ungot = Append(in.ungot, ch)
      <4>1. /\ i.buffer = in.buffer /\ i.infile = in.infile
            /\ \/ /\ ~in.infile /\ i.cp = in.cp - 1
                  /\ i.savedChars = in.savedChars /\ i.ungot = in.ungot
               \/ /\ in.infile /\ in.charIsSaved /\ i.cp = in.cp
                  /\ i.savedChars = Append(in.savedChars, ch) /\ i.ungot = in.ungot
               \/ /\ in.infile /\ ~in.charIsSaved /\ i.cp = in.cp
                  /\ i.savedChars = in.savedChars
                  /\ i.ungot = IF ch = EOF THEN in.ungot ELSE Append(in.ungot, ch)
        BY <1>0, UngetCases
      <4> HIDE DEF i
      <4> QED
        BY <1>4, <3>2, <4>1
    <3>3. SomeRest'
      <4>1. in.savedChars \in Seq(Character) /\ in.ungot \in Seq(Character)
            /\ in.cp <= Len(in.buffer) /\ Len(in.buffer) \in Nat
        BY <1>0, SourceNow
      <4>2. Append(in.savedChars, ch) # <<>> /\ Append(in.ungot, ch) # <<>>
        BY <1>0, <4>1, AppendProperties
      <4>3. in.cp - 1 < Len(in.buffer)
        BY <1>0, <4>1
      <4>4. in'.savedChars # <<>> \/ in'.ungot # <<>> \/ in'.cp < Len(in'.buffer)
        BY <3>u, <4>2, <4>3
      <4> QED
        BY <4>4 DEF SomeRest
    <3>4. p = "INITIAL_STATE" =>
              isdigit(getChar)' \/ (in'.savedChars # <<>> /\ in'.cp = 0)
      <4> SUFFICES ASSUME isdigit(ch)
                   PROVE  isdigit(getChar)' \/ (in'.savedChars # <<>> /\ in'.cp = 0)
        BY <1>4
      <4>1. ch # "/"
        BY DEF isdigit
      <4>2. in.savedChars \in Seq(Character) /\ in.ungot \in Seq(Character)
            /\ in.cp <= Len(in.buffer) /\ Len(in.buffer) \in Nat
            /\ in.infile \in BOOLEAN /\ in.charIsSaved \in BOOLEAN
        BY <1>0, SourceNow
      <4>3. CASE ~in.infile
        <5>1. in.cp \in Nat \ {0} /\ in.buffer[in.cp] = ch /\ in'.cp = in.cp - 1
          BY <1>0, <1>4, <2>4, <3>2, <3>u, <4>1, <4>3 DEF ScannerInv, PointOK
        <5>2. in.savedChars = <<>> /\ in.ungot = <<>>
          BY <1>0, <4>3, <5>1 DEF Sound
        <5>3. /\ in'.savedChars = <<>> /\ in'.ungot = <<>> /\ in'.cp < Len(in'.buffer)
              /\ in'.buffer[in'.cp + 1] = ch
          BY <1>0, <3>u, <4>2, <4>3, <5>1, <5>2
        <5>4. getChar' = ch
          BY <5>3 DEF getChar
        <5> QED
          BY <5>4 DEF isdigit
      <4>4. CASE in.infile /\ in.charIsSaved
        <5>1. in'.savedChars = Append(in.savedChars, ch)
          BY <3>u, <4>2, <4>4
        <5>2. in'.savedChars # <<>> /\ LastOf(in'.savedChars) = ch
          BY <1>0, <4>2, <5>1 DEF LastOf
        <5>3. getChar' = ch
          BY <5>2 DEF getChar, LastOf
        <5> QED
          BY <5>3 DEF isdigit
      <4>5. CASE in.infile /\ ~in.charIsSaved /\ in.savedChars = <<>>
        <5>1. in'.savedChars = <<>> /\ in'.ungot = Append(in.ungot, ch)
          BY <3>u, <4>2, <4>5
        <5>2. in'.ungot # <<>> /\ LastOf(in'.ungot) = ch
          BY <1>0, <4>2, <5>1 DEF LastOf
        <5>3. getChar' = ch
          BY <5>1, <5>2 DEF getChar, LastOf
        <5> QED
          BY <5>3 DEF isdigit
      <4>6. CASE in.infile /\ ~in.charIsSaved /\ in.savedChars # <<>>
        <5>1. in.cp = 0
          BY <1>0, <4>6 DEF Sound
        <5>2. in'.savedChars = in.savedChars /\ in'.cp = in.cp
          BY <3>u, <4>2, <4>6
        <5> QED
          BY <4>6, <5>1, <5>2
      <4> QED
        BY <4>2, <4>3, <4>4, <4>5, <4>6
    <3>5. PointOK'
      BY <1>0, <1>4, <2>4, <3>3, <3>4
      DEF GoTo, GoWith, TakeNothing, PointOK, Points, Between, NumberState
    <3> QED
      BY <1>1, <2>1, <2>2, <3>1, <3>5, AgainIn DEF ScannerInv
  <2>5. i.cp \in Int
    BY <2>1 DEF Source
  <2> QED
    BY <1>4, <2>3, <2>4, <2>5 DEF PutBack
<1>5. \/ Deliver(EmptyToken) /\ UNCHANGED in
      \/ Take(ch) /\ GoTo("operator") /\ UNCHANGED in
      \/ \E p \in {"scanString", "INITIAL_STATE", "scanWord"} :
             /\ ch # EOF /\ (p = "INITIAL_STATE" => isdigit(ch))
             /\ PutBack(i, TakeNothing /\ GoTo(p))
  BY DEF Dispatch
<1> QED
  BY <1>2, <1>3, <1>4, <1>5

-----------------------------------------------------------------------------
LEMMA InitInv == newTokenScanner => ScannerInv
<1> SUFFICES ASSUME newTokenScanner PROVE ScannerInv
  OBVIOUS
<1>1. <<>> \in Text /\ <<>> \in Seq(Text) /\ EOF \in Character
  BY DEF Text, Character
<1>2. ConfigOK
  BY BoundsAssumption DEF newTokenScanner, ConfigOK
<1>3. InOK
  BY <1>1 DEF newTokenScanner, NoInput, InOK, Placed, Source, Sound
<1>4. TextOK
  BY <1>1 DEF newTokenScanner, TextOK
<1>5. PointOK
  BY <1>1 DEF newTokenScanner, PointOK, NoCall, Points, Ops
<1> QED
  BY <1>2, <1>3, <1>4, <1>5 DEF ScannerInv

LEMMA NextInv ==
    ASSUME ScannerInv, [Next]_vars
    PROVE  ScannerInv'
<1>1. CASE UNCHANGED vars
  BY <1>1 DEF vars, config, ScannerInv, ConfigOK, InOK, TextOK, PointOK, Wanted, SomeRest,
              getChar
<1>2. CASE \/ \E f \in Flag : SetFlag(f)
           \/ \E op \in Wanted.operators : addOperator(op)
           \/ \E c \in Wanted.wordChars : addWordCharacters(c)
  BY <1>2, SetUpOK
<1>3. CASE \E n \in 0..TextLength : \E str \in [1..n -> Wanted.alphabet] :
               setInputString(str) \/ setInputFile(str)
  BY <1>3, NewInputOK
<1>4. CASE nextToken \/ hasMoreTokens \/ \E op \in Wanted.operators : verifyToken(op)
  BY <1>4, CallOK DEF nextToken, hasMoreTokens, verifyToken, Ops
<1>5. CASE saveToken
  BY <1>5, SaveTokenOK
<1>6. CASE Step
  BY <1>6, TakeSavedTokenOK, BeginScanOK, skipSpacesOK, FirstCharOK, SlashOK, CommentOK,
     DispatchOK, GrowOperatorOK, BackOffOK, scanWordOK, scanNumberOK, scanStringOK
  DEF Step
<1> QED
  BY <1>1, <1>2, <1>3, <1>4, <1>5, <1>6 DEF Next

\* Whatever the text and the calls, the pointer stays in the text and at most two
\* tokens are put back (tokenscanner.c:305).
THEOREM TypeCorrect == Spec => []TypeOK
<1>1. newTokenScanner => ScannerInv
  BY InitInv
<1>2. ScannerInv /\ [Next]_vars => ScannerInv'
  BY NextInv
<1>3. ScannerInv => TypeOK
  BY InvTypes
<1> QED
  BY <1>1, <1>2, <1>3, PTL DEF Spec

-----------------------------------------------------------------------------

\* What is given back is read again in the reverse order; it and the text after
\* the pointer are what a source will still give.
Turned(s) == [k \in 1..Len(s) |-> s[Len(s) + 1 - k]]
TextAfter(i) == SubSeq(i.buffer, i.cp + 1, Len(i.buffer))
Back(i) == i.ungot \o i.savedChars
Behind(s, t) == Turned(s) \o t
RestOf(i) == Behind(Back(i), TextAfter(i))

LEMMA TurnedType ==
    ASSUME NEW S, NEW s \in Seq(S)
    PROVE  Turned(s) \in Seq(S) /\ Len(Turned(s)) = Len(s)
<1> DEFINE n == Len(s)
<1>1. n \in Nat /\ \A k \in 1..n : s[k] \in S
  BY ElementOfSeq
<1> HIDE DEF n
<1>2. \A k \in 1..n : n + 1 - k \in 1..n
  BY <1>1
<1>3. /\ [k \in 1..n |-> s[n + 1 - k]] \in Seq(S)
      /\ Len([k \in 1..n |-> s[n + 1 - k]]) = n
  BY <1>1, <1>2
<1> QED
  BY <1>3 DEF n, Turned

LEMMA OneBefore ==
    ASSUME NEW S, NEW c \in S, NEW t \in Seq(S)
    PROVE  LET q == <<c>> \o t
           IN /\ q \in Seq(S) /\ Len(q) = Len(t) + 1 /\ q[1] = c
              /\ \A k \in 2..Len(t) + 1 : q[k] = t[k - 1]
<1> DEFINE o == <<c>>
           n == Len(t)
<1>1. o \in Seq(S) /\ Len(o) = 1 /\ o[1] = c /\ n \in Nat
  OBVIOUS
<1> HIDE DEF o
<1>c. /\ o \o t \in Seq(S) /\ Len(o \o t) = Len(o) + Len(t)
      /\ \A k \in 1..Len(o) + Len(t) :
             (o \o t)[k] = IF k <= Len(o) THEN o[k] ELSE t[k - Len(o)]
  BY <1>1, ConcatProperties
<1>2. /\ o \o t \in Seq(S) /\ Len(o \o t) = 1 + n
      /\ \A k \in 1..1 + n : (o \o t)[k] = IF k <= 1 THEN o[k] ELSE t[k - 1]
  BY <1>1, <1>c
<1> DEFINE q == o \o t
<1> HIDE DEF n, q
<1>3. /\ q \in Seq(S) /\ Len(q) = n + 1 /\ q[1] = c
      /\ \A k \in 2..n + 1 : q[k] = t[k - 1]
  <2>1. q \in Seq(S) /\ Len(q) = 1 + n
        /\ \A k \in 1..1 + n : q[k] = IF k <= 1 THEN o[k] ELSE t[k - 1]
    BY <1>2 DEF n, q
  <2> QED
    BY <1>1, <2>1
<1> QED
  BY <1>3 DEF n, q, o

LEMMA TurnedAppend ==
    ASSUME NEW S, NEW s \in Seq(S), NEW c \in S
    PROVE  Turned(Append(s, c)) = <<c>> \o Turned(s)
<1> DEFINE t == Append(s, c)
           n == Len(s)
           p == Turned(t)
           q == <<c>> \o Turned(s)
<1>1. /\ t \in Seq(S) /\ Len(t) = n + 1 /\ n \in Nat /\ t[n + 1] = c
      /\ \A k \in 1..n : t[k] = s[k]
  BY AppendProperties
<1>2. /\ Turned(s) \in Seq(S) /\ Len(Turned(s)) = n
      /\ p \in Seq(S) /\ Len(p) = n + 1
  BY <1>1, TurnedType
<1>4. /\ q \in Seq(S) /\ Len(q) = n + 1 /\ q[1] = c
      /\ \A k \in 2..n + 1 : q[k] = Turned(s)[k - 1]
  BY <1>2, OneBefore
<1>5. \A k \in 1..n + 1 : p[k] = t[n + 2 - k]
  BY <1>1 DEF Turned
<1>6. \A k \in 1..n : Turned(s)[k] = s[n + 1 - k]
  BY DEF Turned
<1> HIDE DEF t, n, p, q
<1>7. ASSUME NEW k \in 1..n + 1 PROVE p[k] = q[k]
  <2>1. CASE k = 1
    BY <1>1, <1>4, <1>5, <2>1
  <2>2. CASE k > 1
    <3>1. /\ k \in 2..n + 1 /\ k - 1 \in 1..n /\ n + 2 - k \in 1..n
          /\ n + 1 - (k - 1) = n + 2 - k
      BY <1>1, <2>2
    <3>2. q[k] = Turned(s)[k - 1]
      BY <1>4, <3>1
    <3>3. Turned(s)[k - 1] = s[n + 2 - k]
      BY <1>6, <3>1
    <3>4. p[k] = s[n + 2 - k]
      BY <1>1, <1>5, <3>1
    <3> QED
      BY <3>2, <3>3, <3>4
  <2> QED
    BY <1>1, <2>1, <2>2
<1>8. p = q
  BY <1>1, <1>2, <1>4, <1>7, SeqEqual
<1> QED
  BY <1>8 DEF p, q, t

LEMMA TextAfterType ==
    ASSUME NEW i \in Source, i.cp \in Nat, i.cp <= Len(i.buffer)
    PROVE  /\ TextAfter(i) \in Seq(Character)
           /\ Len(TextAfter(i)) = Len(i.buffer) - i.cp
           /\ i.cp = 0 => TextAfter(i) = i.buffer
<1> DEFINE b == i.buffer
           c == i.cp
<1>1. b \in Seq(Character) /\ c \in Nat /\ c <= Len(b)
  BY DEF Source, Text
<1> HIDE DEF b, c
<1>2. /\ SubSeq(b, c + 1, Len(b)) \in Seq(Character)
      /\ Len(SubSeq(b, c + 1, Len(b))) = Len(b) - c
  BY <1>1
<1>3. c = 0 => SubSeq(b, c + 1, Len(b)) = b
  BY <1>1
<1> QED
  BY <1>2, <1>3 DEF TextAfter, b, c

LEMMA TextAfterNext ==
    ASSUME NEW S, NEW b \in Seq(S), NEW c \in Nat, c < Len(b)
    PROVE  SubSeq(b, c + 1, Len(b)) = <<b[c + 1]>> \o SubSeq(b, c + 2, Len(b))
<1> DEFINE n == Len(b)
           p == SubSeq(b, c + 1, n)
           t == SubSeq(b, c + 2, n)
           q == <<b[c + 1]>> \o t
<1>1. n \in Nat /\ c < n /\ c + 1 \in 1..n /\ b[c + 1] \in S
  BY ElementOfSeq
<1>2. /\ p \in Seq(S) /\ Len(p) = n - c /\ \A k \in 1..n - c : p[k] = b[c + k]
  BY <1>1
<1>3. /\ t \in Seq(S) /\ Len(t) = n - c - 1
      /\ \A k \in 1..n - c - 1 : t[k] = b[c + 1 + k]
  BY <1>1
<1>5. /\ q \in Seq(S) /\ Len(q) = n - c /\ q[1] = b[c + 1]
      /\ \A k \in 2..n - c : q[k] = t[k - 1]
  <2>1. /\ q \in Seq(S) /\ Len(q) = Len(t) + 1 /\ q[1] = b[c + 1]
        /\ \A k \in 2..Len(t) + 1 : q[k] = t[k - 1]
    BY <1>1, <1>3, OneBefore
  <2>2. Len(t) + 1 = n - c
    BY <1>1, <1>3
  <2> QED
    BY <2>1, <2>2
<1> HIDE DEF n, p, t, q
<1>6. ASSUME NEW k \in 1..n - c PROVE p[k] = q[k]
  <2>1. CASE k = 1
    BY <1>2, <1>5, <2>1
  <2>2. CASE k > 1
    <3>1. k \in 2..n - c /\ k - 1 \in 1..n - c - 1 /\ c + 1 + (k - 1) = c + k
      BY <1>1, <2>2
    <3>2. q[k] = t[k - 1]
      BY <1>5, <3>1
    <3>3. t[k - 1] = b[c + k]
      BY <1>3, <3>1
    <3> QED
      BY <1>2, <3>2, <3>3
  <2> QED
    BY <1>1, <2>1, <2>2
<1>7. p = q
  BY <1>1, <1>2, <1>5, <1>6, SeqEqual
<1> QED
  BY <1>7 DEF p, q, t, n

LEMMA RestType ==
    ASSUME NEW i \in Source, i.cp \in Nat, i.cp <= Len(i.buffer)
    PROVE  /\ RestOf(i) \in Seq(Character)
           /\ Len(RestOf(i)) = Len(i.savedChars) + Len(i.ungot) + (Len(i.buffer) - i.cp)
<1>1. /\ i.savedChars \in Seq(Character) /\ i.ungot \in Seq(Character)
      /\ i.buffer \in Seq(Character)
  BY DEF Source, Text
<1> DEFINE back == i.ungot \o i.savedChars
<1>2. back \in Seq(Character) /\ Len(back) = Len(i.ungot) + Len(i.savedChars)
  BY <1>1, ConcatProperties
<1>3. Turned(back) \in Seq(Character) /\ Len(Turned(back)) = Len(back)
  BY <1>2, TurnedType
<1>4. /\ TextAfter(i) \in Seq(Character)
      /\ Len(TextAfter(i)) = Len(i.buffer) - i.cp
  BY TextAfterType
<1> DEFINE a == Turned(back)
           t == TextAfter(i)
<1>5. a \o t \in Seq(Character) /\ Len(a \o t) = Len(a) + Len(t)
  <2> HIDE DEF a, t
  <2>1. a \in Seq(Character) /\ t \in Seq(Character)
    BY <1>3, <1>4 DEF a, t
  <2> QED
    BY <2>1, ConcatProperties
<1>6. Len(RestOf(i)) = Len(i.savedChars) + Len(i.ungot) + (Len(i.buffer) - i.cp)
  <2>1. /\ Len(RestOf(i)) = Len(a) + Len(t) /\ Len(a) = Len(back)
        /\ Len(back) = Len(i.ungot) + Len(i.savedChars)
        /\ Len(t) = Len(i.buffer) - i.cp
    BY <1>2, <1>3, <1>4, <1>5 DEF RestOf, Back, Behind
  <2>2. Len(i.ungot) \in Nat /\ Len(i.savedChars) \in Nat /\ Len(i.buffer) \in Nat
    BY <1>1
  <2> DEFINE x == Len(i.ungot)
             y == Len(i.savedChars)
             z == Len(i.buffer) - i.cp
  <2>3. x \in Nat /\ y \in Nat /\ z \in Int /\ Len(RestOf(i)) = (x + y) + z
    BY <2>1, <2>2
  <2> HIDE DEF x, y, z
  <2>4. Len(RestOf(i)) = y + x + z
    BY <2>3
  <2> QED
    BY <2>4 DEF x, y, z
<1>7. RestOf(i) \in Seq(Character)
  BY <1>5 DEF RestOf, Back, Behind
<1> QED
  BY <1>6, <1>7

LEMMA RestNow == ScannerInv => Rest = RestOf(in) /\ Rest \in Seq(Character)
<1> SUFFICES ASSUME ScannerInv PROVE Rest = RestOf(in) /\ Rest \in Seq(Character)
  OBVIOUS
<1>1. Rest = RestOf(in)
  BY DEF Rest, RestOf, Back, Behind, Turned, TextAfter
<1> QED
  BY <1>1, RestType DEF ScannerInv, InOK, Placed

-----------------------------------------------------------------------------
\* Where a piece of a text is.
LEMMA LengthOfTwo ==
    ASSUME NEW S, NEW a \in Seq(S), NEW b \in Seq(S)
    PROVE  a \o b \in Seq(S) /\ Len(a \o b) = Len(a) + Len(b)
BY ConcatProperties

LEMMA FirstOfSeq ==
    ASSUME NEW S, NEW s \in Seq(S), s # <<>>
    PROVE  Len(s) \in Nat \ {0} /\ s[1] \in S
BY EmptySeq, ElementOfSeq

LEMMA TailFrom ==
    ASSUME NEW S, NEW b \in Seq(S), NEW c \in Nat, c <= Len(b)
    PROVE  /\ SubSeq(b, c + 1, Len(b)) \in Seq(S)
           /\ Len(SubSeq(b, c + 1, Len(b))) = Len(b) - c
           /\ \A k \in 1..Len(b) - c : SubSeq(b, c + 1, Len(b))[k] = b[c + k]
<1> DEFINE n == Len(b)
           d == c + 1
<1>1. n \in Nat /\ d \in Nat \ {0} /\ d <= n + 1 /\ n = Len(b)
  OBVIOUS
<1> HIDE DEF n, d
<1>2. /\ SubSeq(b, d, n) \in Seq(S) /\ Len(SubSeq(b, d, n)) = n + 1 - d
      /\ \A k \in 1..n + 1 - d : SubSeq(b, d, n)[k] = b[d + k - 1]
  BY <1>1
<1>3. n + 1 - d = n - c /\ \A k \in 1..n - c : d + k - 1 = c + k
  BY <1>1 DEF d
<1> QED
  BY <1>2, <1>3 DEF d, n

LEMMA StartsAt ==
    ASSUME NEW S, NEW u \in Seq(S), NEW t \in Seq(S), NEW r \in Seq(S),
           NEW s, s = (u \o t) \o r
    PROVE  StartsWith(SubSeq(s, Len(u) + 1, Len(s)), t)
<1> DEFINE l == Len(u)
           m == Len(t)
           n == Len(r)
           a == u \o t
           x == SubSeq(s, l + 1, l + m + n)
           y == SubSeq(x, 1, m)
<1>1. /\ a \in Seq(S) /\ Len(a) = l + m
      /\ \A k \in 1..l + m : a[k] = IF k <= l THEN u[k] ELSE t[k - l]
  BY ConcatProperties
<1>2. l \in Nat /\ m \in Nat /\ n \in Nat
  OBVIOUS
<1>3. /\ s \in Seq(S) /\ Len(s) = Len(a) + n
      /\ \A k \in 1..Len(a) + n : s[k] = IF k <= Len(a) THEN a[k] ELSE r[k - Len(a)]
  <2>1. s = a \o r /\ a \in Seq(S) /\ r \in Seq(S)
    BY <1>1
  <2> HIDE DEF a, l, m, x
  <2> QED
    BY <2>1, ConcatProperties
<1> HIDE DEF a
<1> HIDE DEF l, m, n
<1>4. s \in Seq(S) /\ Len(s) = l + m + n
  BY <1>1, <1>2, <1>3
<1>5. x \in Seq(S) /\ Len(x) = m + n /\ \A k \in 1..m + n : x[k] = s[l + k]
  <2>1. /\ SubSeq(s, l + 1, Len(s)) \in Seq(S) /\ Len(SubSeq(s, l + 1, Len(s))) = Len(s) - l
        /\ \A k \in 1..Len(s) - l : SubSeq(s, l + 1, Len(s))[k] = s[l + k]
    <3>1. l <= Len(s)
      BY <1>2, <1>4
    <3> HIDE DEF x, y
    <3> QED
      BY <1>2, <1>4, <3>1, TailFrom
  <2>2. Len(s) = l + m + n /\ Len(s) - l = m + n
    BY <1>2, <1>4
  <2> QED
    BY <2>1, <2>2
<1> HIDE DEF x
<1>6. y \in Seq(S) /\ Len(y) = m /\ \A k \in 1..m : y[k] = x[k]
  BY <1>2, <1>5
<1>7. ASSUME NEW k \in 1..m PROVE y[k] = t[k]
  <2>1. k \in 1..m + n /\ l + k \in 1..l + m /\ l + k > l /\ (l + k) - l = k
    BY <1>2
  <2>2. x[k] = s[l + k]
    BY <1>5, <2>1
  <2>3. l + k \in 1..Len(a) + n /\ l + k <= Len(a)
    BY <1>1, <1>2, <2>1
  <2>4. s[l + k] = a[l + k]
    BY <1>3, <2>3
  <2>5. a[l + k] = t[k]
    <3>1. \A q \in 1..l + m : q > l => a[q] = t[q - l]
      BY <1>1, <1>2
    <3>2. a[l + k] = t[(l + k) - l]
      BY <2>1, <3>1
    <3> QED
      BY <2>1, <3>2
  <2> QED
    BY <1>6, <2>2, <2>4, <2>5
<1>8. y = t
  <2>1. Len(t) = m /\ t \in Seq(S)
    BY DEF m
  <2> HIDE DEF y
  <2> QED
    BY <1>6, <1>7, <2>1, SeqEqual
<1>9. StartsWith(x, t)
  <2>1. Len(t) <= Len(x) /\ SubSeq(x, 1, Len(t)) = t
    BY <1>2, <1>5, <1>8 DEF m
  <2> QED
    BY <2>1 DEF StartsWith
<1>10. x = SubSeq(s, Len(u) + 1, Len(s))
  BY <1>4 DEF x, l
<1> QED
  BY <1>9, <1>10

LEMMA HeldType == ScannerInv => Held \in Seq(Character)
BY DEF ScannerInv, PointOK, Held

LEMMA PositionFollows == ScannerInv => PositionIsNextToken
<1> SUFFICES ASSUME ScannerInv, pc = "idle", Intact, in.savedChars = <<>>,
                    Len(savedTokens) <= 1
             PROVE  /\ getPosition = Len(read)
                         - (IF savedTokens = <<>> THEN 0 ELSE Len(savedTokens[1]))
                    /\ savedTokens # <<>> =>
                         StartsWith(SubSeq(in.buffer, getPosition + 1, Len(in.buffer)),
                                    savedTokens[1])
  BY DEF PositionIsNextToken
<1>1. /\ read \in Seq(Character) /\ Rest \in Seq(Character) /\ Rest = RestOf(in)
      /\ in \in Source /\ in.cp \in Nat /\ in.cp <= Len(in.buffer)
      /\ in.ungot \in Seq(Character) /\ in.buffer \in Seq(Character)
      /\ savedTokens \in Seq(Text)
  BY RestNow, InvTypes, SourceNow DEF ScannerInv, TextOK, Text
<1>2. Held = <<>> /\ sb = <<>>
  BY DEF Held, ScannerInv, PointOK, Between
<1>3. read \o Rest = in.buffer
  BY <1>1, <1>2, ConcatEmptySeq DEF Intact
<1>4. Len(read) = in.cp - Len(in.ungot)
  <2>1. Len(read \o Rest) = Len(read) + Len(Rest)
    BY <1>1, LengthOfTwo
  <2>2. Len(Rest) = Len(in.savedChars) + Len(in.ungot) + (Len(in.buffer) - in.cp)
    BY <1>1, RestType
  <2>3. Len(in.savedChars) = 0
    OBVIOUS
  <2> DEFINE x == Len(read)
             y == Len(Rest)
             z == Len(in.ungot)
             b == Len(in.buffer)
             c == in.cp
  <2>4. /\ x \in Nat /\ y \in Nat /\ z \in Nat /\ b \in Nat /\ c \in Nat
        /\ b = x + y /\ y = 0 + z + (b - c)
    <3>1. x \in Nat /\ y \in Nat /\ z \in Nat /\ b \in Nat /\ c \in Nat
      BY <1>1
    <3>2. b = x + y
      BY <1>3, <2>1
    <3>3. y = 0 + z + (b - c)
      BY <2>2, <2>3
    <3> QED
      BY <3>1, <3>2, <3>3
  <2> HIDE DEF x, y, z, b, c
  <2>5. x = c - z
    BY <2>4
  <2> QED
    BY <2>5 DEF x, z, c
<1>5. CASE savedTokens = <<>>
  BY <1>1, <1>4, <1>5 DEF getPosition
<1>6. CASE savedTokens # <<>>
  <2> DEFINE t == savedTokens[1]
  <2>1. Len(savedTokens) = 1 /\ t \in Seq(Character) /\ LastOf(savedTokens) = t
    <3>0. Len(savedTokens) \in Nat \ {0} /\ t \in Text
      <4>1. savedTokens \in Seq(Text)
        BY <1>1
      <4> QED
        BY <1>6, <4>1, FirstOfSeq
    <3>1. Len(savedTokens) = 1
      <4> DEFINE m == Len(savedTokens)
      <4>1. m \in Nat \ {0} /\ m <= 1
        BY <3>0
      <4> HIDE DEF m
      <4>2. m = 1
        BY <4>1
      <4> QED
        BY <4>2 DEF m
    <3>2. t \in Text
      BY <3>0
    <3> QED
      BY <3>1, <3>2 DEF LastOf, Text
  <2>2. PICK u \in Seq(Character) : read = u \o t
    BY <1>6, <2>1 DEF ScannerInv, TextOK, EndsWith, Text
  <2>3. Len(read) = Len(u) + Len(t)
    BY <2>1, <2>2, LengthOfTwo
  <2> HIDE DEF t
  <2>4. getPosition = Len(read) - Len(t) /\ getPosition = Len(u)
    <3>1. getPosition = in.cp - Len(in.ungot) - Len(t)
      BY <1>6, <2>1 DEF getPosition, t
    <3> DEFINE p == in.cp - Len(in.ungot)
               l == Len(t)
               m == Len(u)
    <3>2. p = Len(read) /\ p = m + l /\ m \in Nat /\ l \in Nat /\ getPosition = p - l
      BY <1>4, <2>1, <2>3, <3>1
    <3> HIDE DEF p, l, m
    <3>3. getPosition = m
      BY <3>2
    <3> QED
      BY <3>2, <3>3 DEF l, m
  <2>5. StartsWith(SubSeq(in.buffer, Len(u) + 1, Len(in.buffer)), t)
    BY <1>1, <1>3, <2>1, <2>2, StartsAt
  <2> QED
    BY <1>6, <2>4, <2>5 DEF t
<1> QED
  BY <1>5, <1>6

\* However the client looked ahead and put back, the position between two calls
\* is where the next token to be taken begins (tokenscanner.h, getPosition).
THEOREM PositionCorrect == Spec => []PositionIsNextToken
<1>1. newTokenScanner => ScannerInv
  BY InitInv
<1>2. ScannerInv /\ [Next]_vars => ScannerInv'
  BY NextInv
<1> QED
  BY <1>1, <1>2, PositionFollows, PTL DEF Spec

-----------------------------------------------------------------------------
\* What reading and putting back do to the characters still to be read.
Before(c, r) == <<c>> \o r

LEMMA ConcatAppend ==
    ASSUME NEW S, NEW a \in Seq(S), NEW b \in Seq(S), NEW c \in S
    PROVE  a \o Append(b, c) = Append(a \o b, c)
<1>1. <<c>> \in Seq(S) /\ a \o b \in Seq(S)
  BY LengthOfTwo
<1>2. Append(b, c) = b \o <<c>> /\ Append(a \o b, c) = (a \o b) \o <<c>>
  BY <1>1, AppendIsConcat
<1> QED
  BY <1>1, <1>2, ConcatAssociative

LEMMA LastOfAppend ==
    ASSUME NEW S, NEW s \in Seq(S), NEW c \in S
    PROVE  LET y == Append(s, c)
           IN /\ y \in Seq(S) /\ y # <<>> /\ LastOf(y) = c /\ ButLast(y) = s
<1> DEFINE y == Append(s, c)
           n == Len(s)
           b == ButLast(y)
<1>1. /\ y \in Seq(S) /\ n \in Nat /\ Len(y) = n + 1 /\ y[n + 1] = c
      /\ \A k \in 1..n : y[k] = s[k]
  BY AppendProperties
<1>2. y # <<>>
  BY <1>1, EmptySeq
<1>3. LastOf(y) = c
  BY <1>1 DEF LastOf
<1> HIDE DEF y
<1>4. b \in Seq(S) /\ Len(b) = n /\ \A k \in 1..n : b[k] = y[k]
  <2>1. /\ ButLast(y) \in Seq(S) /\ Len(ButLast(y)) = Len(y) - 1
        /\ \A k \in 1..Len(y) - 1 : ButLast(y)[k] = y[k]
    BY <1>1, <1>2, LastAndRest
  <2>2. Len(y) - 1 = n
    BY <1>1
  <2> QED
    BY <2>1, <2>2
<1> HIDE DEF b
<1>5. b = s
  BY <1>1, <1>4, SeqEqual DEF n
<1> QED
  BY <1>1, <1>2, <1>3, <1>5 DEF y, b

LEMMA LastOfTwo ==
    ASSUME NEW S, NEW a \in Seq(S), NEW b \in Seq(S), b # <<>>
    PROVE  /\ a \o b # <<>> /\ a \o b \in Seq(S) /\ LastOf(a \o b) = LastOf(b)
           /\ ButLast(a \o b) = a \o ButLast(b)
<1> DEFINE c == LastOf(b)
           d == ButLast(b)
           x == a \o d
<1>1. c \in S /\ d \in Seq(S) /\ b = Append(d, c)
  BY LastAndRest
<1> HIDE DEF c, d
<1>2. x \in Seq(S) /\ a \o b = Append(x, c)
  BY <1>1, ConcatAppend, LengthOfTwo
<1> HIDE DEF x
<1>3. /\ Append(x, c) \in Seq(S) /\ Append(x, c) # <<>>
      /\ LastOf(Append(x, c)) = c /\ ButLast(Append(x, c)) = x
  BY <1>1, <1>2, LastOfAppend
<1> QED
  BY <1>2, <1>3 DEF c, d, x

LEMMA BehindLast ==
    ASSUME NEW S, NEW y \in Seq(S), y # <<>>, NEW t \in Seq(S)
    PROVE  Behind(y, t) = Before(LastOf(y), Behind(ButLast(y), t))
<1> DEFINE c == LastOf(y)
           d == ButLast(y)
           o == <<c>>
           r == Turned(d)
<1>1. c \in S /\ d \in Seq(S) /\ y = Append(d, c)
  BY LastAndRest
<1> HIDE DEF c, d
<1>2. o \in Seq(S) /\ r \in Seq(S)
  BY <1>1, TurnedType
<1>3. Turned(y) = o \o r
  BY <1>1, TurnedAppend
<1> HIDE DEF o, r
<1>4. (o \o r) \o t = o \o (r \o t)
  BY <1>2, ConcatAssociative
<1> QED
  BY <1>3, <1>4 DEF Behind, Before, c, d, o, r

LEMMA NothingBack ==
    ASSUME NEW i \in Source, i.cp \in Nat, i.cp <= Len(i.buffer),
           i.ungot = <<>>, i.savedChars = <<>>
    PROVE  RestOf(i) = TextAfter(i)
<1>1. Back(i) = <<>> /\ <<>> \in Seq(Character)
  BY ConcatEmptySeq DEF Back
<1>2. Turned(<<>>) = <<>>
  <2>1. Turned(<<>>) \in Seq(Character) /\ Len(Turned(<<>>)) = 0
    BY <1>1, TurnedType
  <2> QED
    BY <2>1, EmptySeq
<1>3. TextAfter(i) \in Seq(Character)
  BY TextAfterType
<1> QED
  BY <1>1, <1>2, <1>3, ConcatEmptySeq DEF RestOf, Behind

\* i has one more character given back to it than j.
LEMMA OneMoreBack ==
    ASSUME NEW i \in Source, NEW j \in Source, NEW c,
           i.buffer = j.buffer, i.cp = j.cp, i.cp \in Nat, i.cp <= Len(i.buffer),
           \/ /\ i.savedChars # <<>> /\ i.ungot = j.ungot
              /\ j.savedChars = ButLast(i.savedChars) /\ c = LastOf(i.savedChars)
           \/ /\ i.savedChars = <<>> /\ j.savedChars = <<>> /\ i.ungot # <<>>
              /\ j.ungot = ButLast(i.ungot) /\ c = LastOf(i.ungot)
    PROVE  RestOf(i) = Before(c, RestOf(j))
<1> DEFINE t == TextAfter(i)
           y == Back(i)
<1>1. /\ i.savedChars \in Seq(Character) /\ i.ungot \in Seq(Character)
      /\ j.savedChars \in Seq(Character) /\ j.ungot \in Seq(Character)
      /\ t \in Seq(Character)
  BY TextAfterType DEF Source, Text
<1>2. TextAfter(j) = t
  BY DEF TextAfter
<1>3. y \in Seq(Character) /\ y # <<>> /\ LastOf(y) = c /\ ButLast(y) = Back(j)
  <2>1. CASE i.savedChars # <<>>
    <3> DEFINE a == i.ungot
               b == i.savedChars
    <3>1. a \in Seq(Character) /\ b \in Seq(Character) /\ b # <<>>
      BY <1>1, <2>1
    <3>2. c = LastOf(b) /\ Back(j) = a \o ButLast(b) /\ y = a \o b
      BY <2>1 DEF Back
    <3> HIDE DEF a, b, y
    <3>3. /\ a \o b # <<>> /\ a \o b \in Seq(Character) /\ LastOf(a \o b) = LastOf(b)
          /\ ButLast(a \o b) = a \o ButLast(b)
      BY <3>1, LastOfTwo
    <3> QED
      BY <3>2, <3>3
  <2>2. CASE i.savedChars = <<>>
    <3>1. y = i.ungot /\ Back(j) = j.ungot
      BY <1>1, <2>2, ConcatEmptySeq DEF Back
    <3> QED
      BY <1>1, <2>2, <3>1
  <2> QED
    BY <2>1, <2>2
<1> HIDE DEF y, t
<1>4. Behind(y, t) = Before(LastOf(y), Behind(ButLast(y), t))
  BY <1>1, <1>3, BehindLast
<1> QED
  BY <1>2, <1>3, <1>4 DEF RestOf, y, t

LEMMA UngetToFile ==
    ASSUME NEW i \in Source, i.cp \in Nat, i.cp <= Len(i.buffer), i.infile,
           i.charIsSaved \/ i.savedChars = <<>>, NEW c \in Character, c # EOF
    PROVE  /\ RestOf(ungetChar(i, c)) = Before(c, RestOf(i))
           /\ ungetChar(i, c).cp = i.cp
<1> DEFINE j == ungetChar(i, c)
           s == Append(i.savedChars, c)
           u == Append(i.ungot, c)
<1>1. /\ i.savedChars \in Seq(Character) /\ i.ungot \in Seq(Character)
      /\ i.charIsSaved \in BOOLEAN
  BY DEF Source, Text
<1>2. /\ s # <<>> /\ LastOf(s) = c /\ ButLast(s) = i.savedChars
      /\ u # <<>> /\ LastOf(u) = c /\ ButLast(u) = i.ungot
  BY <1>1, LastOfAppend
<1>3. /\ j \in Source /\ j.buffer = i.buffer
      /\ \/ /\ ~i.infile /\ j.cp = i.cp - 1
            /\ j.savedChars = i.savedChars /\ j.ungot = i.ungot
         \/ /\ i.infile /\ i.charIsSaved /\ j.cp = i.cp
            /\ j.savedChars = s /\ j.ungot = i.ungot
         \/ /\ i.infile /\ ~i.charIsSaved /\ j.cp = i.cp
            /\ j.savedChars = i.savedChars
            /\ j.ungot = IF c = EOF THEN i.ungot ELSE u
  <2>1. j \in Source /\ j.buffer = i.buffer
        /\ \/ /\ ~i.infile /\ j.cp = i.cp - 1
              /\ j.savedChars = i.savedChars /\ j.ungot = i.ungot
              /\ j.charIsSaved = i.charIsSaved
           \/ /\ i.infile /\ i.charIsSaved /\ j.charIsSaved /\ j.cp = i.cp
              /\ j.savedChars = Append(i.savedChars, c) /\ j.ungot = i.ungot
           \/ /\ i.infile /\ ~i.charIsSaved /\ j.charIsSaved /\ j.cp = i.cp
              /\ j.savedChars = i.savedChars
              /\ j.ungot = IF c = EOF THEN i.ungot ELSE Append(i.ungot, c)
    BY UngetCases
  <2> HIDE DEF j
  <2> QED
    BY <2>1
<1> HIDE DEF j, s, u
<1>4. /\ j.cp = i.cp
      /\ \/ j.ungot = i.ungot /\ j.savedChars = s
         \/ i.savedChars = <<>> /\ j.savedChars = <<>> /\ j.ungot = u
  BY <1>1, <1>3
<1>5. RestOf(j) = Before(c, RestOf(i))
  BY <1>2, <1>3, <1>4, OneMoreBack
<1> QED
  BY <1>4, <1>5 DEF j

LEMMA TextFrom ==
    ASSUME NEW i \in Source, NEW j \in Source, i.buffer = j.buffer,
           i.cp \in Nat, j.cp = i.cp + 1, j.cp <= Len(i.buffer),
           i.ungot = <<>>, i.savedChars = <<>>, j.ungot = <<>>, j.savedChars = <<>>
    PROVE  RestOf(i) = Before(i.buffer[j.cp], RestOf(j))
<1> DEFINE b == i.buffer
           n == i.cp
<1>1. /\ b \in Seq(Character) /\ n \in Nat /\ n < Len(b) /\ Len(b) \in Nat
      /\ j.cp = n + 1 /\ j.cp + 1 = n + 2 /\ n <= Len(b)
  BY DEF Source, Text
<1>2. /\ RestOf(i) = SubSeq(b, n + 1, Len(b))
      /\ RestOf(j) = SubSeq(b, n + 2, Len(b))
  <2>1. j.cp \in Nat
    BY <1>1
  <2>2. RestOf(i) = TextAfter(i) /\ RestOf(j) = TextAfter(j)
    BY <1>1, <2>1, NothingBack
  <2> QED
    BY <1>1, <2>2 DEF TextAfter
<1>3. SubSeq(b, n + 1, Len(b)) = <<b[n + 1]>> \o SubSeq(b, n + 2, Len(b))
  <2> HIDE DEF b, n
  <2> QED
    BY <1>1, TextAfterNext
<1> QED
  BY <1>1, <1>2, <1>3 DEF Before

LEMMA UngetToString ==
    ASSUME NEW i \in Source, i.cp \in Nat \ {0}, i.cp <= Len(i.buffer), ~i.infile,
           i.ungot = <<>>, i.savedChars = <<>>, NEW c \in Character
    PROVE  /\ RestOf(ungetChar(i, c)) = Before(i.buffer[i.cp], RestOf(i))
           /\ ungetChar(i, c).cp = i.cp - 1
<1> DEFINE j == ungetChar(i, c)
<1>1. /\ j \in Source /\ j.buffer = i.buffer /\ j.cp = i.cp - 1
      /\ j.ungot = <<>> /\ j.savedChars = <<>>
  BY UngetCases
<1> HIDE DEF j
<1>2. j.cp \in Nat /\ i.cp = j.cp + 1
  BY <1>1
<1>3. RestOf(j) = Before(i.buffer[i.cp], RestOf(i))
  BY <1>1, <1>2, TextFrom
<1> QED
  BY <1>1, <1>3 DEF j

LEMMA RestGet ==
    ASSUME ScannerInv
    PROVE  /\ SomeRest => Rest = Before(getChar, RestOf(AfterGetChar))
           /\ ~SomeRest => /\ Rest = <<>> /\ getChar = EOF
                           /\ RestOf(AfterGetChar) = <<>>
<1> DEFINE i == AfterGetChar
<1>1. /\ TypeOK /\ Rest = RestOf(in)
      /\ in \in Source /\ in.cp \in Nat /\ in.cp <= Len(in.buffer)
      /\ in.savedChars \in Seq(Character) /\ in.ungot \in Seq(Character)
      /\ in.buffer \in Seq(Character) /\ Len(in.buffer) \in Nat
      /\ TextAfter(in) \in Seq(Character)
  BY InvTypes, SourceNow, RestNow, TextAfterType
<1>2. CASE in.savedChars # <<>>
  <2>1. /\ i.savedChars = ButLast(in.savedChars) /\ getChar = LastOf(in.savedChars)
        /\ i.ungot = in.ungot /\ i.cp = in.cp /\ i.buffer = in.buffer /\ i \in Source
    BY <1>1, <1>2, GetCharCases
  <2> HIDE DEF i
  <2>2. RestOf(in) = Before(getChar, RestOf(i))
    BY <1>1, <1>2, <2>1, OneMoreBack
  <2> QED
    BY <1>1, <1>2, <2>2 DEF SomeRest, i
<1>3. CASE in.savedChars = <<>> /\ in.ungot # <<>>
  <2>1. /\ i.savedChars = <<>> /\ getChar = LastOf(in.ungot) /\ i \in Source
        /\ i.ungot = ButLast(in.ungot) /\ i.cp = in.cp /\ i.buffer = in.buffer
    BY <1>1, <1>3, GetCharCases
  <2> HIDE DEF i
  <2>2. RestOf(in) = Before(getChar, RestOf(i))
    BY <1>1, <1>3, <2>1, OneMoreBack
  <2> QED
    BY <1>1, <1>3, <2>2 DEF SomeRest, i
<1>4. CASE in.savedChars = <<>> /\ in.ungot = <<>> /\ in.cp < Len(in.buffer)
  <2>1. /\ i \in Source /\ i.savedChars = <<>> /\ i.ungot = <<>>
        /\ i.cp = in.cp + 1 /\ i.buffer = in.buffer /\ getChar = in.buffer[i.cp]
    BY <1>1, <1>4, GetCharCases
  <2> HIDE DEF i
  <2>2. i.cp <= Len(in.buffer)
    BY <1>1, <1>4, <2>1
  <2>3. RestOf(in) = Before(getChar, RestOf(i))
    BY <1>1, <1>4, <2>1, <2>2, TextFrom
  <2> QED
    BY <1>1, <1>4, <2>3 DEF SomeRest, i
<1>5. CASE in.savedChars = <<>> /\ in.ungot = <<>> /\ in.cp = Len(in.buffer)
  <2>1. /\ i \in Source /\ i.savedChars = <<>> /\ i.ungot = <<>>
        /\ i.cp = in.cp /\ i.buffer = in.buffer /\ getChar = EOF
    BY <1>1, <1>5, GetCharCases
  <2>2. TextAfter(in) = <<>>
    <3>1. Len(TextAfter(in)) = 0
      BY <1>1, <1>5, TextAfterType
    <3> QED
      BY <1>1, <3>1, EmptySeq
  <2>3. RestOf(in) = <<>> /\ RestOf(i) = <<>>
    <3>1. i.cp \in Nat /\ i.cp <= Len(i.buffer) /\ TextAfter(i) = TextAfter(in)
      BY <1>1, <2>1 DEF TextAfter
    <3> HIDE DEF i
    <3> QED
      BY <1>1, <1>5, <2>1, <2>2, <3>1, NothingBack
  <2> QED
    BY <1>1, <1>5, <2>1, <2>3 DEF SomeRest
<1> QED
  BY <1>1, <1>2, <1>3, <1>4, <1>5

-----------------------------------------------------------------------------
\* What has been read, taken together: the text is that and the rest.
Gone == read \o Held \o sb
Clean(s) == \A k \in 1..Len(s) : s[k] # EOF

LEMMA CleanParts ==
    ASSUME NEW S, NEW a \in Seq(S), NEW b \in Seq(S), Clean(a \o b)
    PROVE  Clean(a) /\ Clean(b)
<1> DEFINE s == a \o b
           m == Len(a)
           n == Len(b)
<1>1. /\ m \in Nat /\ n \in Nat /\ Len(s) = m + n
      /\ \A k \in 1..m + n : s[k] = IF k <= m THEN a[k] ELSE b[k - m]
  BY ConcatProperties
<1>2. \A k \in 1..m + n : s[k] # EOF
  BY <1>1 DEF Clean
<1> HIDE DEF s, m, n
<1>3. ASSUME NEW k \in 1..m PROVE a[k] # EOF
  <2>1. k \in 1..m + n /\ k <= m
    BY <1>1
  <2> QED
    BY <1>1, <1>2, <2>1
<1>4. ASSUME NEW k \in 1..n PROVE b[k] # EOF
  <2> DEFINE q == m + k
  <2>1. q \in 1..m + n /\ ~(q <= m) /\ q - m = k
    BY <1>1
  <2> HIDE DEF q
  <2>2. s[q] = b[q - m] /\ s[q] # EOF
    BY <1>1, <1>2, <2>1
  <2> QED
    BY <2>1, <2>2
<1> QED
  BY <1>3, <1>4 DEF Clean, m, n

LEMMA Moved ==
    ASSUME NEW S, NEW g \in Seq(S), NEW c \in S, NEW r \in Seq(S)
    PROVE  Append(g, c) \o r = g \o Before(c, r)
<1> DEFINE o == <<c>>
<1>1. o \in Seq(S) /\ Append(g, c) = g \o o
  BY AppendIsConcat
<1> HIDE DEF o
<1>2. (g \o o) \o r = g \o (o \o r)
  BY <1>1, ConcatAssociative
<1> QED
  BY <1>1, <1>2 DEF Before, o

LEMMA BeforeFirst ==
    ASSUME NEW S, NEW c \in S, NEW r \in Seq(S)
    PROVE  /\ Before(c, r) \in Seq(S) /\ Len(Before(c, r)) = Len(r) + 1
           /\ Before(c, r)[1] = c /\ Before(c, r) # <<>>
<1>1. /\ Before(c, r) \in Seq(S) /\ Len(Before(c, r)) = Len(r) + 1
      /\ Before(c, r)[1] = c
  BY OneBefore DEF Before
<1> QED
  BY <1>1, EmptySeq

LEMMA IntactParts ==
    ASSUME ScannerInv, Intact
    PROVE  /\ read \in Seq(Character) /\ Held \in Seq(Character) /\ sb \in Seq(Character)
           /\ read \o Held \in Seq(Character) /\ Gone \in Seq(Character)
           /\ Rest \in Seq(Character) /\ Gone \o Rest = in.buffer
           /\ Len(Gone) + Len(Rest) = Len(in.buffer)
           /\ Clean(Gone) /\ Clean(Rest) /\ Clean(Held) /\ Clean(sb)
<1>1. /\ read \in Seq(Character) /\ Held \in Seq(Character) /\ sb \in Seq(Character)
      /\ Rest \in Seq(Character)
  BY HeldType, RestNow DEF ScannerInv, TextOK, Text
<1>2. read \o Held \in Seq(Character)
  BY <1>1, LengthOfTwo
<1>3. Gone \in Seq(Character)
  <2> DEFINE x == read \o Held
  <2>1. x \in Seq(Character)
    BY <1>2
  <2> HIDE DEF x
  <2>2. x \o sb \in Seq(Character)
    BY <1>1, <2>1, LengthOfTwo
  <2> QED
    BY <2>2 DEF x, Gone
<1>4. Gone \o Rest = in.buffer
  BY DEF Intact, Gone
<1>5. Len(Gone) + Len(Rest) = Len(in.buffer)
  <2>1. Len(Gone \o Rest) = Len(Gone) + Len(Rest)
    BY <1>1, <1>3, LengthOfTwo
  <2> QED
    BY <1>4, <2>1
<1>6. Clean(Gone \o Rest)
  BY <1>4 DEF ScannerInv, InOK, Sound, Clean
<1>7. Clean(Gone) /\ Clean(Rest)
  BY <1>1, <1>3, <1>6, CleanParts
<1>8. Clean(read \o Held) /\ Clean(sb)
  <2> DEFINE x == read \o Held
  <2>1. x \in Seq(Character) /\ Clean(x \o sb)
    BY <1>2, <1>7 DEF Gone
  <2> HIDE DEF x
  <2>2. Clean(x) /\ Clean(sb)
    BY <1>1, <2>1, CleanParts
  <2> QED
    BY <2>2 DEF x
<1>9. Clean(Held)
  BY <1>1, <1>8, CleanParts
<1> QED
  BY <1>1, <1>2, <1>3, <1>4, <1>5, <1>7, <1>8, <1>9

\* While nothing is lost, the scanner's own stack is above a character given to
\* ungetc, and a string has nothing given back.
LEMMA NothingAbove ==
    ASSUME ScannerInv, Intact
    PROVE  /\ in.savedChars # <<>> => in.infile /\ in.charIsSaved
           /\ ~in.infile => in.savedChars = <<>> /\ in.ungot = <<>>
           /\ ~(in.savedChars # <<>> /\ in.cp = 0)
<1>1. /\ in \in Source /\ in.cp \in Nat /\ in.cp <= Len(in.buffer) /\ Sound(in)
      /\ Rest = RestOf(in)
      /\ in.savedChars \in Seq(Character) /\ in.ungot \in Seq(Character)
      /\ in.buffer \in Seq(Character)
  BY InvTypes, SourceNow, RestNow DEF ScannerInv, InOK
<1>2. ASSUME in.savedChars # <<>>, in.cp <= 0 PROVE FALSE
  <2> DEFINE s == Len(in.savedChars)
             u == Len(in.ungot)
             b == Len(in.buffer)
             g == Len(Gone)
             r == Len(Rest)
             c == in.cp
  <2>1. c <= 0
    BY <1>2
  <2>2. r = s + u + (b - c)
    BY <1>1, RestType
  <2>3. s \in Nat \ {0}
    BY <1>1, <1>2, EmptySeq
  <2>4. u \in Nat /\ b \in Nat /\ c \in Nat
    BY <1>1
  <2>5. g \in Nat /\ g + r = b
    BY IntactParts
  <2> HIDE DEF s, u, b, g, r, c
  <2> QED
    BY <2>1, <2>2, <2>3, <2>4, <2>5
<1> QED
  BY <1>1, <1>2 DEF Sound

LEMMA GetNotEOF ==
    ASSUME ScannerInv, Intact
    PROVE  /\ SomeRest => getChar # EOF
           /\ Rest # <<>> => SomeRest
           /\ RestOf(AfterGetChar) \in Seq(Character) /\ getChar \in Character
<1>1. getChar \in Character /\ RestOf(AfterGetChar) \in Seq(Character)
  BY InvTypes, GetCharType, RestType DEF Placed
<1>2. ASSUME SomeRest PROVE getChar # EOF
  <2>1. Rest = Before(getChar, RestOf(AfterGetChar))
    BY <1>2, RestGet
  <2>2. Rest[1] = getChar /\ Len(Rest) = Len(RestOf(AfterGetChar)) + 1
    BY <1>1, <2>1, BeforeFirst
  <2>3. 1 \in 1..Len(Rest)
    <3>1. Len(RestOf(AfterGetChar)) \in Nat
      BY <1>1
    <3> QED
      BY <2>2, <3>1
  <2> QED
    BY <2>2, <2>3, IntactParts DEF Clean
<1> QED
  BY <1>1, <1>2, RestGet

LEMMA HeldIs ==
    ASSUME ScannerInv, Intact, pc \in {"slash", "dispatch"}
    PROVE  /\ ch = EOF => Held = <<>> /\ Rest = <<>>
           /\ ch # EOF => Held = <<ch>>
<1>1. ASSUME Held = <<EOF>> PROVE FALSE
  <2>1. Clean(<<EOF>>)
    BY <1>1, IntactParts
  <2>2. Len(<<EOF>>) = 1 /\ <<EOF>>[1] = EOF
    OBVIOUS
  <2> QED
    BY <2>1, <2>2 DEF Clean
<1> QED
  BY <1>1 DEF Held

\* Putting back the character just read leaves all to be read again.
LEMMA GetUnget ==
    ASSUME ScannerInv, Intact, SomeRest
    PROVE  LET j == ungetChar(AfterGetChar, getChar)
           IN /\ RestOf(j) = Rest /\ j.cp \in Nat /\ Placed(j)
              /\ j.buffer = in.buffer
<1> DEFINE i == AfterGetChar
           c == getChar
           j == ungetChar(i, c)
<1>1. /\ TypeOK /\ c \in Character /\ i \in Source /\ i.cp \in Nat /\ Placed(i)
      /\ i.buffer = in.buffer /\ i.infile = in.infile
      /\ in.infile \in BOOLEAN /\ in.charIsSaved \in BOOLEAN
      /\ i.cp <= Len(i.buffer) /\ in.cp \in Nat
  BY InvTypes, GetCharType, SourceNow DEF Placed
<1>2. c # EOF /\ Rest = Before(c, RestOf(i))
  BY GetNotEOF, RestGet
<1>3. Placed(j) /\ j.buffer = in.buffer
  BY <1>1, UngetType
<1>4. CASE in.infile
  <2>1. i.charIsSaved \/ i.savedChars = <<>>
    <3>1. CASE in.savedChars # <<>>
      BY <1>1, <3>1, NothingAbove, GetCharSaved
    <3>2. CASE in.savedChars = <<>>
      BY <1>1, <3>2, GetCharCases
    <3> QED
      BY <3>1, <3>2
  <2> HIDE DEF i, c
  <2>2. RestOf(ungetChar(i, c)) = Before(c, RestOf(i)) /\ ungetChar(i, c).cp = i.cp
    BY <1>1, <1>2, <1>4, <2>1, UngetToFile
  <2> QED
    BY <1>1, <1>2, <1>3, <2>2 DEF i, c
<1>5. CASE ~in.infile
  <2>1. in.savedChars = <<>> /\ in.ungot = <<>> /\ in.cp < Len(in.buffer)
    BY <1>5, NothingAbove DEF SomeRest
  <2>2. /\ i.savedChars = <<>> /\ i.ungot = <<>>
        /\ i.cp = in.cp + 1 /\ c = i.buffer[i.cp]
    BY <1>1, <2>1, GetCharCases
  <2> HIDE DEF i, c
  <2>3. i.cp \in Nat \ {0} /\ i.cp - 1 = in.cp
    BY <1>1, <2>2
  <2>4. RestOf(ungetChar(i, c)) = Before(i.buffer[i.cp], RestOf(i))
        /\ ungetChar(i, c).cp = i.cp - 1
    BY <1>1, <1>5, <2>2, <2>3, UngetToString
  <2> QED
    BY <1>1, <1>2, <1>3, <2>2, <2>3, <2>4 DEF i, c
<1> QED
  BY <1>1, <1>4, <1>5

\* At its end a file takes no end of file back.
LEMMA GetUngetEnd ==
    ASSUME ScannerInv, Intact, ~SomeRest, in.infile
    PROVE  LET j == ungetChar(AfterGetChar, getChar)
           IN /\ RestOf(j) = Rest /\ j.cp \in Nat /\ Placed(j)
              /\ j.buffer = in.buffer
<1> DEFINE i == AfterGetChar
           j == ungetChar(i, EOF)
<1>1. /\ TypeOK /\ getChar = EOF /\ EOF \in Character
      /\ i \in Source /\ i.cp \in Nat /\ Placed(i)
      /\ i.buffer = in.buffer /\ i.infile = in.infile
      /\ in.savedChars = <<>>
      /\ Rest = <<>> /\ RestOf(i) = <<>>
  BY InvTypes, GetCharType, RestGet DEF SomeRest
<1>2. Placed(j) /\ j.buffer = in.buffer
  BY <1>1, UngetType
<1>3. ~i.charIsSaved
  BY <1>1, GetCharSaved
<1> HIDE DEF i
<1>4. j.cp = i.cp /\ j.savedChars = i.savedChars /\ j.ungot = i.ungot
      /\ j.buffer = i.buffer
  <2>1. j \in Source /\ j.buffer = i.buffer
        /\ \/ /\ ~i.infile /\ j.cp = i.cp - 1
              /\ j.savedChars = i.savedChars /\ j.ungot = i.ungot
              /\ j.charIsSaved = i.charIsSaved
           \/ /\ i.infile /\ i.charIsSaved /\ j.charIsSaved /\ j.cp = i.cp
              /\ j.savedChars = Append(i.savedChars, EOF) /\ j.ungot = i.ungot
           \/ /\ i.infile /\ ~i.charIsSaved /\ j.charIsSaved /\ j.cp = i.cp
              /\ j.savedChars = i.savedChars
              /\ j.ungot = IF EOF = EOF THEN i.ungot ELSE Append(i.ungot, EOF)
    BY <1>1, UngetCases
  <2> HIDE DEF j
  <2> QED
    BY <1>1, <1>3, <2>1
<1>5. RestOf(j) = RestOf(i)
  BY <1>4 DEF RestOf, Back, TextAfter
<1> QED
  BY <1>1, <1>2, <1>4, <1>5 DEF i

\* The last character of what has gone is put back: in a string whichever
\* character the code puts back.
LEMMA GivesBack ==
    ASSUME ScannerInv, Intact, NEW a \in Seq(Character), NEW c \in Character,
           Gone = Append(a, c), NEW d \in Character, in.infile => d = c
    PROVE  LET j == ungetChar(in, d)
           IN /\ RestOf(j) = Before(c, Rest) /\ j.cp \in Nat /\ Placed(j)
              /\ j.buffer = in.buffer
<1> DEFINE j == ungetChar(in, d)
           n == Len(a)
<1>1. /\ in \in Source /\ in.cp \in Nat /\ in.cp <= Len(in.buffer) /\ Placed(in)
      /\ in.infile \in BOOLEAN /\ in.charIsSaved \in BOOLEAN
      /\ Rest = RestOf(in) /\ Rest \in Seq(Character)
      /\ Len(in.buffer) \in Nat /\ in.buffer \in Seq(Character)
  BY InvTypes, SourceNow, RestNow
<1>2. Placed(j) /\ j.buffer = in.buffer
  BY <1>1, UngetType
<1>3. /\ Gone \in Seq(Character) /\ Len(Gone) = n + 1 /\ n \in Nat /\ Gone[n + 1] = c
  BY AppendProperties
<1>4. c # EOF
  <2>1. n + 1 \in 1..Len(Gone)
    BY <1>3
  <2> QED
    BY <1>3, <2>1, IntactParts DEF Clean
<1>5. CASE in.infile
  <2>1. in.charIsSaved \/ in.savedChars = <<>>
    BY <1>1, NothingAbove
  <2>2. d = c
    BY <1>5
  <2>3. RestOf(ungetChar(in, c)) = Before(c, RestOf(in)) /\ ungetChar(in, c).cp = in.cp
    BY <1>1, <1>4, <1>5, <2>1, UngetToFile
  <2> QED
    BY <1>1, <1>2, <2>2, <2>3
<1>6. CASE ~in.infile
  <2>1. in.savedChars = <<>> /\ in.ungot = <<>>
    BY <1>6, NothingAbove
  <2>2. Len(Rest) = Len(in.buffer) - in.cp
    <3>1. Rest = TextAfter(in)
      BY <1>1, <2>1, NothingBack
    <3> QED
      BY <1>1, <3>1, TextAfterType
  <2>3. in.cp = n + 1
    <3> DEFINE b == Len(in.buffer)
               r == Len(Rest)
               p == in.cp
    <3>1. (n + 1) + r = b /\ r = b - p /\ p \in Nat /\ b \in Nat
      BY <1>1, <1>3, <2>2, IntactParts
    <3> HIDE DEF b, r, p, n
    <3>2. p = n + 1
      BY <1>3, <3>1
    <3> QED
      BY <3>2 DEF p
  <2>4. in.buffer[in.cp] = c
    <3>1. /\ in.buffer = Gone \o Rest /\ n + 1 \in 1..Len(Gone) + Len(Rest)
          /\ n + 1 <= Len(Gone)
      BY <1>1, <1>3, IntactParts
    <3>2. (Gone \o Rest)[n + 1] = Gone[n + 1]
      <4> HIDE DEF n
      <4> QED
        BY <1>1, <1>3, <3>1, ConcatProperties
    <3> QED
      BY <1>3, <2>3, <3>1, <3>2
  <2>5. /\ RestOf(ungetChar(in, d)) = Before(in.buffer[in.cp], RestOf(in))
        /\ ungetChar(in, d).cp = in.cp - 1
    <3>1. in.cp \in Nat \ {0}
      BY <1>1, <1>3, <2>3
    <3> QED
      BY <1>1, <1>6, <2>1, <3>1, UngetToString
  <2>6. in.cp - 1 \in Nat
    BY <1>1, <1>3, <2>3
  <2> QED
    BY <1>1, <1>2, <2>4, <2>5, <2>6
<1> QED
  BY <1>1, <1>5, <1>6

LEMMA AgainSame ==
    ASSUME NEW i, Placed(i), i.cp \in Nat
    PROVE  RestOf(Again(i)) = RestOf(i) /\ Again(i).buffer = i.buffer
<1>1. /\ Again(i).cp = i.cp /\ Again(i).buffer = i.buffer
      /\ Again(i).savedChars = i.savedChars /\ Again(i).ungot = i.ungot
  BY PlacedAgain
<1> QED
  BY <1>1 DEF RestOf, Back, TextAfter

-----------------------------------------------------------------------------
\* A step keeps the text intact: it takes a character over, or puts one back, or
\* neither.
LEMMA RestNext == Rest' = RestOf(in')
BY DEF Rest, RestOf, Back, Behind, Turned, TextAfter

LEMMA TakenOver ==
    ASSUME ScannerInv, Intact, SomeRest, in' = AfterGetChar,
           Gone' = Append(Gone, getChar)
    PROVE  Intact'
<1> DEFINE g == Gone
           c == getChar
           r == RestOf(AfterGetChar)
<1>0. g \in Seq(Character) /\ c \in Character /\ r \in Seq(Character)
  BY IntactParts, GetNotEOF
<1>1. g \o Rest = in.buffer /\ Rest = Before(c, r)
  BY IntactParts, RestGet
<1>2. Rest' = r /\ in'.buffer = in.buffer
  BY RestNext, GetCharType, InvTypes
<1> HIDE DEF g, c, r
<1>3. Append(g, c) \o r = g \o Before(c, r)
  BY <1>0, Moved
<1>4. Gone' \o Rest' = in'.buffer
  BY <1>1, <1>2, <1>3 DEF g, c
<1> QED
  BY <1>4 DEF Intact, Gone

LEMMA PutBackOne ==
    ASSUME ScannerInv, Intact, NEW c \in Character, Gone' \in Seq(Character),
           Gone = Append(Gone', c), Rest' = Before(c, Rest), in'.buffer = in.buffer
    PROVE  Intact'
<1> DEFINE g == Gone'
           r == Rest
<1>0. g \in Seq(Character) /\ r \in Seq(Character)
  BY IntactParts
<1>1. Append(g, c) \o r = in.buffer
  BY IntactParts
<1> HIDE DEF g, r
<1>2. Append(g, c) \o r = g \o Before(c, r)
  BY <1>0, Moved
<1>3. Gone' \o Rest' = in'.buffer
  BY <1>1, <1>2 DEF g, r
<1> QED
  BY <1>3 DEF Intact, Gone

LEMMA NoneMoved ==
    ASSUME Intact, Gone' = Gone, Rest' = Rest, in'.buffer = in.buffer
    PROVE  Intact'
BY DEF Intact, Gone

\* What has gone, where there is no character in hand or no token.
LEMMA GoneNow ==
    ASSUME ScannerInv, Intact
    PROVE  /\ Held = <<>> => Gone = read \o sb
           /\ sb = <<>> => Gone = read \o Held
           /\ sb = <<>> /\ Held = <<>> => Gone = read
           /\ pc \notin {"slash", "dispatch"} => Held = <<>>
<1>1. /\ read \in Seq(Character) /\ Held \in Seq(Character) /\ sb \in Seq(Character)
      /\ read \o Held \in Seq(Character)
  BY IntactParts
<1>2. read \o <<>> = read /\ (read \o Held) \o <<>> = read \o Held
  BY <1>1, ConcatEmptySeq
<1> QED
  BY <1>2 DEF Gone, Held

LEMMA GoneThen ==
    ASSUME ScannerInv'
    PROVE  /\ Held' = <<>> => Gone' = read' \o sb'
           /\ sb' = <<>> /\ Held' = <<>> => Gone' = read'
           /\ pc' \notin {"slash", "dispatch"} => Held' = <<>>
           /\ read' \in Seq(Character) /\ sb' \in Seq(Character)
<1>1. read' \in Seq(Character) /\ sb' \in Seq(Character)
  BY DEF ScannerInv, TextOK, Text
<1>2. read' \o <<>> = read'
  BY <1>1, ConcatEmptySeq
<1> QED
  BY <1>1, <1>2 DEF Gone, Held

\* The token so far becomes the token, or the call fails: its text is passed over.
LEMMA DeliveredAll ==
    ASSUME ScannerInv, ScannerInv', Intact, Held = <<>>,
           Deliver(sb) \/ ThrowError
    PROVE  Gone' = Gone
<1>1. pc' = "idle" /\ read' = read \o sb /\ sb' = <<>>
  BY DEF Deliver, Return, Leave, ThrowError
<1> QED
  BY <1>1, GoneNow, GoneThen

LEMMA PutBackGoes ==
    ASSUME NEW i, Placed(i), i.cp \in Nat, in' = Again(i)
    PROVE  Rest' = RestOf(i) /\ in'.buffer = i.buffer
BY AgainSame, RestNext

\* How a character joins what has gone.
LEMMA JoinsToken ==
    ASSUME ScannerInv, Intact, Held = <<>>, NEW c \in Character
    PROVE  read \o Append(sb, c) = Append(Gone, c)
<1>1. read \in Seq(Character) /\ sb \in Seq(Character) /\ Gone = read \o sb
  BY IntactParts, GoneNow
<1>2. read \o Append(sb, c) = Append(read \o sb, c)
  BY <1>1, ConcatAppend
<1> QED
  BY <1>1, <1>2

LEMMA OneTaken ==
    ASSUME ScannerInv, ScannerInv', Intact, Held = <<>>, Take(getChar), SomeRest,
           in' = AfterGetChar, pc' \notin {"slash", "dispatch"}
    PROVE  Intact'
<1>1. Gone' = read' \o sb' /\ read' = read /\ sb' = Append(sb, getChar)
  BY GoneThen DEF Take
<1>2. getChar \in Character
  BY GetNotEOF
<1>3. Gone' = Append(Gone, getChar)
  BY <1>1, <1>2, JoinsToken
<1> QED
  BY <1>3, TakenOver

LEMMA OneSkipped ==
    ASSUME ScannerInv, ScannerInv', Intact, Held = <<>>, sb = <<>>, Skip(getChar),
           SomeRest, in' = AfterGetChar, pc' \notin {"slash", "dispatch"}
    PROVE  Intact'
<1>1. Gone' = Append(Gone, getChar)
  BY GoneNow, GoneThen DEF Skip
<1> QED
  BY <1>1, TakenOver

LEMMA AtEnd ==
    ASSUME ScannerInv, Intact, ~SomeRest, in' = AfterGetChar
    PROVE  Rest' = Rest /\ in'.buffer = in.buffer
BY RestGet, RestNext, GetCharType, InvTypes

LEMMA Unmoved ==
    ASSUME ScannerInv, in' = in
    PROVE  Rest' = Rest /\ in'.buffer = in.buffer
BY RestNow, RestNext

LEMMA skipSpacesKeeps ==
    ASSUME ScannerInv, ScannerInv', Intact, skipSpaces
    PROVE  Intact'
<1>1. pc = "skipSpaces" /\ sb = <<>> /\ Held = <<>> /\ Gone = read
  BY GoneNow DEF skipSpaces, ScannerInv, PointOK, Between
<1>2. CASE getChar # EOF /\ in' = AfterGetChar /\ Skip(getChar) /\ GoTo(pc)
  <2>1. SomeRest /\ pc' \notin {"slash", "dispatch"}
    BY <1>1, <1>2, RestGet DEF GoTo, GoWith
  <2> QED
    BY <1>1, <1>2, <2>1, OneSkipped
<1> DEFINE i == IF getChar = EOF THEN AfterGetChar ELSE ungetChar(AfterGetChar, getChar)
<1>3. CASE PutBack(i, TakeNothing /\ GoTo("first"))
  <2>1. RestOf(i) = Rest /\ i.cp \in Nat /\ Placed(i) /\ i.buffer = in.buffer
    <3>1. CASE SomeRest
      BY <3>1, GetNotEOF, GetUnget
    <3>2. CASE ~SomeRest
      BY <3>2, RestGet, InvTypes, GetCharType
    <3> QED
      BY <3>1, <3>2
  <2> HIDE DEF i
  <2>2. in' = Again(i) /\ TakeNothing /\ GoTo("first")
    BY <1>3, <2>1 DEF PutBack, Again
  <2>3. Gone' = Gone
    BY <1>1, <2>2, GoneThen DEF TakeNothing, GoTo, GoWith
  <2> QED
    BY <2>1, <2>2, <2>3, PutBackGoes, NoneMoved
<1> QED
  BY <1>2, <1>3 DEF skipSpaces

LEMMA FirstCharKeeps ==
    ASSUME ScannerInv, ScannerInv', Intact, FirstChar
    PROVE  Intact'
<1>1. pc = "first" /\ sb = <<>> /\ Held = <<>> /\ Gone = read
  BY GoneNow DEF FirstChar, ScannerInv, PointOK, Between
<1>2. /\ in' = AfterGetChar /\ read' = read /\ sb' = <<>>
      /\ ch' = getChar /\ pc' \in {"slash", "dispatch"}
  BY <1>1 DEF FirstChar, TakeNothing, GoWith
<1>3. read \in Seq(Character) /\ getChar \in Character
  BY IntactParts, GetNotEOF
<1>4. CASE SomeRest
  <2>1. Held' = <<getChar>>
    BY <1>2, <1>4, GetNotEOF DEF Held
  <2>2. Gone' = (read \o <<getChar>>) \o <<>>
    BY <1>2, <2>1 DEF Gone
  <2>3. read \o <<getChar>> = Append(read, getChar) /\ Append(read, getChar) \in Seq(Character)
    BY <1>3, AppendIsConcat
  <2>4. Gone' = Append(Gone, getChar)
    BY <1>1, <2>2, <2>3, ConcatEmptySeq
  <2> QED
    BY <1>2, <1>4, <2>4, TakenOver
<1>5. CASE ~SomeRest
  <2>1. Rest' = Rest /\ in'.buffer = in.buffer /\ Rest = <<>> /\ getChar = EOF
    BY <1>2, <1>5, AtEnd, RestGet
  <2>2. Held' = <<>>
    BY <1>2, <2>1 DEF Held
  <2>3. Gone' = Gone
    BY <1>1, <1>2, <2>2, GoneThen
  <2> QED
    BY <2>1, <2>3, NoneMoved
<1> QED
  BY <1>4, <1>5

LEMMA SlashKeeps ==
    ASSUME ScannerInv, ScannerInv', Intact, Slash, ~SlashAtEnd
    PROVE  Intact'
<1>1. pc = "slash" /\ sb = <<>> /\ ch = "/" /\ ch # EOF
  BY DEF Slash, ScannerInv, PointOK, Between, EOF
<1>2. Held = <<"/">> /\ Gone = read \o <<"/">>
  BY <1>1, HeldIs, GoneNow
<1>3. CASE /\ getChar \in {"/", "*"} /\ in' = AfterGetChar
           /\ read' = read \o <<"/", getChar>> /\ UNCHANGED sb
           /\ GoWith(IF getChar = "/" THEN "lineComment" ELSE "blockComment", ch, EOF)
  <2>1. SomeRest
    BY <1>3, RestGet DEF EOF
  <2>2. Gone' = read'
    BY <1>1, <1>3, GoneThen DEF GoWith
  <2>3. read \o <<"/", getChar>> = Append(read \o <<"/">>, getChar)
    <3> DEFINE o == <<"/">>
    <3>1. o \in Seq(Character) /\ getChar \in Character /\ read \in Seq(Character)
      BY <1>1, GetNotEOF, IntactParts DEF ScannerInv, PointOK
    <3>2. <<"/", getChar>> = Append(o, getChar)
      OBVIOUS
    <3> HIDE DEF o
    <3>3. read \o Append(o, getChar) = Append(read \o o, getChar)
      BY <3>1, ConcatAppend
    <3> QED
      BY <3>2, <3>3 DEF o
  <2>4. Gone' = Append(Gone, getChar)
    BY <1>2, <1>3, <2>2, <2>3
  <2> QED
    BY <1>3, <2>1, <2>4, TakenOver
<1> DEFINE i == ungetChar(AfterGetChar, getChar)
<1>4. CASE PutBack(i, TakeNothing /\ GoTo("dispatch"))
  <2>1. RestOf(i) = Rest /\ i.cp \in Nat /\ Placed(i) /\ i.buffer = in.buffer
    <3>1. CASE SomeRest
      BY <3>1, GetUnget
    <3>2. CASE ~SomeRest
      <4>1. getChar = EOF
        BY <3>2, RestGet
      <4>2. in.infile
        BY <1>1, <4>1 DEF SlashAtEnd
      <4> QED
        BY <3>2, <4>2, GetUngetEnd
    <3> QED
      BY <3>1, <3>2
  <2> HIDE DEF i
  <2>2. in' = Again(i) /\ TakeNothing /\ GoTo("dispatch")
    BY <1>4, <2>1 DEF PutBack, Again
  <2>3. Held' = Held
    BY <1>1, <1>2, <2>2 DEF Held, GoTo, GoWith
  <2>4. Gone' = Gone
    BY <2>2, <2>3 DEF TakeNothing, Gone
  <2> QED
    BY <2>1, <2>2, <2>4, PutBackGoes, NoneMoved
<1> QED
  BY <1>3, <1>4 DEF Slash

LEMMA CommentKeeps ==
    ASSUME ScannerInv, ScannerInv', Intact, Comment
    PROVE  Intact'
<1>1. pc \in {"lineComment", "blockComment"} /\ sb = <<>> /\ Held = <<>> /\ Gone = read
  BY GoneNow DEF Comment, ScannerInv, PointOK, Between
<1>2. in' = AfterGetChar /\ pc' \notin {"slash", "dispatch"}
  BY <1>1 DEF Comment, GoWith
<1>3. CASE getChar = EOF
  <2>1. TakeNothing /\ ~SomeRest
    BY <1>3, GetNotEOF DEF Comment
  <2>2. Gone' = Gone
    BY <1>1, <1>2, <2>1, GoneThen DEF TakeNothing
  <2> QED
    BY <1>2, <2>1, <2>2, AtEnd, NoneMoved
<1>4. CASE getChar # EOF
  <2>1. Skip(getChar) /\ SomeRest
    BY <1>4, RestGet DEF Comment
  <2> QED
    BY <1>1, <1>2, <2>1, OneSkipped
<1> QED
  BY <1>3, <1>4

LEMMA DispatchKeeps ==
    ASSUME ScannerInv, ScannerInv', Intact, Dispatch
    PROVE  Intact'
<1>1. /\ pc = "dispatch" /\ sb = <<>> /\ Gone = read \o Held
      /\ ch \in Character /\ read \in Seq(Character)
  BY GoneNow, IntactParts DEF Dispatch, ScannerInv, PointOK, Between
<1> DEFINE i == ungetChar(in, ch)
<1>2. \/ ch = EOF /\ Deliver(EmptyToken) /\ UNCHANGED in
      \/ ch # EOF /\ Take(ch) /\ GoTo("operator") /\ UNCHANGED in
      \/ \E p \in {"scanString", "INITIAL_STATE", "scanWord"} :
             ch # EOF /\ PutBack(i, TakeNothing /\ GoTo(p))
  BY DEF Dispatch
<1>3. CASE ch = EOF /\ Deliver(EmptyToken) /\ UNCHANGED in
  <2>1. Held = <<>> /\ Gone = read
    BY <1>1, <1>3, HeldIs, GoneNow
  <2>2. pc' = "idle" /\ sb' = <<>> /\ read' = read \o <<>>
    BY <1>3 DEF Deliver, Return, Leave, EmptyToken
  <2>3. Gone' = Gone
    BY <1>1, <2>1, <2>2, GoneThen, ConcatEmptySeq
  <2> QED
    BY <1>3, <2>3, Unmoved, NoneMoved
<1>4. CASE ch # EOF /\ Take(ch) /\ GoTo("operator") /\ UNCHANGED in
  <2>1. Held = <<ch>> /\ Gone = read \o <<ch>>
    BY <1>1, <1>4, HeldIs
  <2>2. pc' = "operator" /\ read' = read /\ sb' = <<ch>>
    BY <1>1, <1>4 DEF Take, GoTo, GoWith
  <2>3. Gone' = Gone
    BY <2>1, <2>2, GoneThen
  <2> QED
    BY <1>4, <2>3, Unmoved, NoneMoved
<1>5. ASSUME NEW p \in {"scanString", "INITIAL_STATE", "scanWord"},
             ch # EOF, PutBack(i, TakeNothing /\ GoTo(p))
      PROVE  Intact'
  <2>1. Held = <<ch>> /\ Gone = read \o <<ch>>
    BY <1>1, <1>5, HeldIs
  <2>2. Gone = Append(read, ch)
    BY <1>1, <2>1, AppendIsConcat
  <2>3. RestOf(i) = Before(ch, Rest) /\ i.cp \in Nat /\ Placed(i) /\ i.buffer = in.buffer
    BY <1>1, <2>2, GivesBack
  <2> HIDE DEF i
  <2>4. in' = Again(i) /\ TakeNothing /\ GoTo(p)
    BY <1>5, <2>3 DEF PutBack, Again
  <2>5. Gone' = read
    BY <1>1, <2>4, GoneThen DEF TakeNothing, GoTo, GoWith
  <2> QED
    BY <1>1, <2>2, <2>3, <2>4, <2>5, PutBackGoes, PutBackOne
<1> QED
  BY <1>2, <1>3, <1>4, <1>5

LEMMA GrowOperatorKeeps ==
    ASSUME ScannerInv, ScannerInv', Intact, GrowOperator
    PROVE  Intact'
<1>1. pc = "operator" /\ Held = <<>> /\ Gone = read \o sb
  BY GoneNow DEF GrowOperator
<1>2. CASE TakeNothing /\ GoTo("backOff") /\ UNCHANGED in
  <2>1. Gone' = Gone
    BY <1>1, <1>2, GoneThen DEF TakeNothing, GoTo, GoWith
  <2> QED
    BY <1>2, <2>1, Unmoved, NoneMoved
<1>3. CASE /\ getChar = EOF /\ in' = AfterGetChar
           /\ TakeNothing /\ GoWith("backOff", EOF, prev)
  <2>1. Gone' = Gone
    BY <1>1, <1>3, GoneThen DEF TakeNothing, GoWith
  <2> QED
    BY <1>3, <2>1, GetNotEOF, AtEnd, NoneMoved
<1>4. CASE /\ getChar # EOF /\ in' = AfterGetChar
           /\ Take(getChar) /\ GoWith(pc, getChar, prev)
  <2>1. SomeRest /\ pc' \notin {"slash", "dispatch"}
    BY <1>1, <1>4, RestGet DEF GoWith
  <2> QED
    BY <1>1, <1>4, <2>1, OneTaken
<1> QED
  BY <1>2, <1>3, <1>4 DEF GrowOperator

LEMMA BackOffKeeps ==
    ASSUME ScannerInv, ScannerInv', Intact, BackOff, ~GivesBackAnother
    PROVE  Intact'
<1>1. /\ pc = "backOff" /\ Held = <<>> /\ Gone = read \o sb /\ sb # <<>>
      /\ ch \in Character /\ read \in Seq(Character) /\ sb \in Seq(Character)
  BY GoneNow, IntactParts DEF BackOff, ScannerInv, PointOK
<1>2. CASE Deliver(sb) /\ UNCHANGED in
  BY <1>1, <1>2, DeliveredAll, Unmoved, NoneMoved
<1> DEFINE i == ungetChar(in, ch)
<1>3. CASE PutBack(i, sb' = ButLast(sb) /\ UNCHANGED read /\ GoTo(pc))
  <2> DEFINE c == LastOf(sb)
             a == ButLast(sb)
  <2>1. /\ c \in Character /\ a \in Seq(Character) /\ sb = Append(a, c)
        /\ in.infile => ch = c
    BY <1>1, LastAndRest DEF GivesBackAnother
  <2> HIDE DEF c, a
  <2>2. read \o a \in Seq(Character) /\ Gone = Append(read \o a, c)
    BY <1>1, <2>1, ConcatAppend, LengthOfTwo
  <2>3. RestOf(i) = Before(c, Rest) /\ i.cp \in Nat /\ Placed(i) /\ i.buffer = in.buffer
    <3> DEFINE g == read \o a
    <3>1. g \in Seq(Character) /\ Gone = Append(g, c)
      BY <2>2
    <3> HIDE DEF g
    <3> QED
      BY <1>1, <2>1, <3>1, GivesBack
  <2> HIDE DEF i
  <2>4. in' = Again(i) /\ sb' = a /\ UNCHANGED read /\ GoTo(pc)
    BY <1>3, <2>3 DEF PutBack, Again, a
  <2>5. Gone' = read \o a
    BY <1>1, <2>4, GoneThen DEF GoTo, GoWith
  <2> QED
    BY <2>1, <2>2, <2>3, <2>4, <2>5, PutBackGoes, PutBackOne
<1> QED
  BY <1>2, <1>3 DEF BackOff

LEMMA scanWordKeeps ==
    ASSUME ScannerInv, ScannerInv', Intact, scanWord
    PROVE  Intact'
<1>1. pc = "scanWord" /\ Held = <<>>
  BY GoneNow DEF scanWord
<1>2. CASE getChar = EOF /\ in' = AfterGetChar /\ Deliver(sb)
  BY <1>1, <1>2, GetNotEOF, AtEnd, DeliveredAll, NoneMoved
<1>3. CASE getChar # EOF /\ in' = AfterGetChar /\ Take(getChar) /\ GoTo(pc)
  <2>1. SomeRest /\ pc' \notin {"slash", "dispatch"}
    BY <1>1, <1>3, RestGet DEF GoTo, GoWith
  <2> QED
    BY <1>1, <1>3, <2>1, OneTaken
<1> DEFINE i == ungetChar(AfterGetChar, getChar)
<1>4. CASE getChar # EOF /\ PutBack(i, Deliver(sb))
  <2>1. RestOf(i) = Rest /\ i.cp \in Nat /\ Placed(i) /\ i.buffer = in.buffer
    BY <1>4, RestGet, GetUnget
  <2> HIDE DEF i
  <2>2. in' = Again(i) /\ Deliver(sb)
    BY <1>4, <2>1 DEF PutBack, Again
  <2> QED
    BY <1>1, <2>1, <2>2, PutBackGoes, DeliveredAll, NoneMoved
<1> QED
  BY <1>2, <1>3, <1>4 DEF scanWord

LEMMA scanNumberKeeps ==
    ASSUME ScannerInv, ScannerInv', Intact, scanNumber, ~IncompleteExponent
    PROVE  Intact'
<1>1. pc \in NumberState /\ Held = <<>>
  BY GoneNow DEF scanNumber, NumberState
<1> DEFINE to == NumberStateAfter(pc, getChar)
           i == PutBackAfter(pc, AfterGetChar, getChar)
<1>2. CASE /\ to # "FINAL_STATE" /\ in' = AfterGetChar /\ Take(getChar) /\ GoTo(to)
  <2>1. to \in NumberState /\ getChar # EOF
    BY <1>1, <1>2 DEF NumberStateAfter, NumberState, isdigit, EOF
  <2>2. SomeRest /\ pc' \notin {"slash", "dispatch"}
    BY <1>2, <2>1, RestGet DEF GoTo, GoWith, NumberState
  <2> QED
    BY <1>1, <1>2, <2>2, OneTaken
<1>3. CASE to = "FINAL_STATE" /\ pc = "INITIAL_STATE"
  <2>1. ~isdigit(getChar)
    BY <1>3 DEF NumberStateAfter
  <2>2. in.savedChars # <<>> /\ in.cp = 0
    BY <1>3, <2>1 DEF ScannerInv, PointOK
  <2> QED
    BY <2>2, NothingAbove
<1>4. CASE pc # "INITIAL_STATE" /\ PutBack(i, Deliver(sb))
  <2>1. pc' = "idle"
    BY <1>4 DEF PutBack, ThrowError, Deliver, Return, Leave
  <2>2. i = IF getChar = EOF THEN AfterGetChar ELSE ungetChar(AfterGetChar, getChar)
    BY <2>1 DEF IncompleteExponent, PutBackAfter
  <2>3. RestOf(i) = Rest /\ i.cp \in Nat /\ Placed(i) /\ i.buffer = in.buffer
    <3> HIDE DEF i
    <3>1. CASE SomeRest
      BY <2>2, <3>1, GetNotEOF, GetUnget
    <3>2. CASE ~SomeRest
      BY <2>2, <3>2, RestGet, InvTypes, GetCharType
    <3> QED
      BY <3>1, <3>2
  <2> HIDE DEF i
  <2>4. in' = Again(i) /\ Deliver(sb)
    BY <1>4, <2>3 DEF PutBack, Again
  <2> QED
    BY <1>1, <2>3, <2>4, PutBackGoes, DeliveredAll, NoneMoved
<1> QED
  BY <1>2, <1>3, <1>4 DEF scanNumber

LEMMA scanStringKeeps ==
    ASSUME ScannerInv, ScannerInv', Intact, scanString
    PROVE  Intact'
<1>1. /\ pc = "scanString" /\ Held = <<>> /\ in' = AfterGetChar
      /\ sb \in Seq(Character) /\ read \in Seq(Character)
  BY GoneNow, IntactParts DEF scanString
<1>2. CASE sb # <<>> /\ getChar = EOF /\ ThrowError
  BY <1>1, <1>2, GetNotEOF, AtEnd, DeliveredAll, NoneMoved
<1>3. CASE sb # <<>> /\ getChar = sb[1] /\ Deliver(Append(sb, sb[1]))
  <2>1. getChar # EOF
    <3>1. 1 \in 1..Len(sb)
      BY <1>1, <1>3, FirstOfSeq
    <3> QED
      BY <1>3, <3>1, IntactParts DEF Clean
  <2>2. pc' = "idle" /\ sb' = <<>> /\ read' = read \o Append(sb, getChar)
    BY <1>3 DEF Deliver, Return, Leave
  <2>3. Gone' = Append(Gone, getChar)
    BY <1>1, <2>2, GoneThen, GetNotEOF, JoinsToken
  <2>4. SomeRest
    BY <2>1, RestGet
  <2> QED
    BY <1>1, <2>3, <2>4, TakenOver
<1>4. CASE /\ ~(sb # <<>> /\ getChar = EOF)
           /\ Take(getChar) /\ pc' = pc
  <2>1. SomeRest
    BY <1>1, <1>4, RestGet DEF ScannerInv, PointOK
  <2> QED
    BY <1>1, <1>4, <2>1, OneTaken
<1> QED
  BY <1>2, <1>3, <1>4 DEF scanString, GoWith

LEMMA NewInputKeeps ==
    ASSUME ScannerInv, ScannerInv', in.savedChars = <<>>,
           NEW str \in Seq(Character), setInputString(str) \/ setInputFile(str)
    PROVE  Intact'
<1>1. /\ pc' = "idle" /\ sb' = <<>> /\ read' = <<>>
  <2>1. pc = "idle" /\ sb' = sb /\ pc' = pc /\ read' = <<>>
    BY DEF setInputString, setInputFile, NewInput
  <2> QED
    BY <2>1 DEF ScannerInv, PointOK, Between
<1>2. /\ in' \in Source /\ in'.buffer = str /\ in'.cp = 0 /\ in'.ungot = <<>>
      /\ in'.savedChars = <<>>
  <2>1. in' \in Source
    BY DEF ScannerInv, InOK, Placed
  <2>2. in \in Source
    BY DEF ScannerInv, InOK, Placed
  <2> QED
    BY <2>1, <2>2 DEF setInputString, setInputFile, NewInput, Source
<1>3. Rest' = str
  <2>1. RestOf(in') = TextAfter(in') /\ TextAfter(in') = in'.buffer
    BY <1>2, NothingBack, TextAfterType
  <2> QED
    BY <1>2, <2>1, RestNext
<1>4. Gone' = <<>>
  BY <1>1, GoneThen
<1>5. Gone' \o Rest' = in'.buffer
  BY <1>2, <1>3, <1>4, ConcatEmptySeq
<1> QED
  BY <1>5 DEF Intact, Gone

LEMMA NextKeeps ==
    ASSUME ScannerInv, ScannerInv', Intact, [Next]_vars,
           ~IncompleteExponent, ~SlashAtEnd, ~GivesBackAnother, ~LeftFromBefore
    PROVE  Intact'
<1>1. CASE /\ in' = in /\ sb' = sb /\ read' = read
           /\ \/ pc' = pc /\ ch' = ch
              \/ {pc, pc'} \cap {"slash", "dispatch"} = {}
  <2>1. Rest' = Rest /\ in'.buffer = in.buffer
    BY <1>1, Unmoved
  <2>2. Held' = Held
    BY <1>1, <2>1 DEF Held
  <2> QED
    BY <1>1, <2>1, <2>2, NoneMoved DEF Gone
<1>2. CASE UNCHANGED vars
  BY <1>1, <1>2 DEF vars
<1>3. CASE \/ \E f \in Flag : SetFlag(f)
           \/ \E op \in Wanted.operators : addOperator(op)
           \/ \E c \in Wanted.wordChars : addWordCharacters(c)
  BY <1>1, <1>3 DEF SetFlag, addOperator, addWordCharacters, Scanning
<1>4. CASE \E n \in 0..TextLength : \E str \in [1..n -> Wanted.alphabet] :
               setInputString(str) \/ setInputFile(str)
  <2>0. PICK n \in 0..TextLength : \E str \in [1..n -> Wanted.alphabet] :
            setInputString(str) \/ setInputFile(str)
    BY <1>4
  <2>1. PICK str \in [1..n -> Wanted.alphabet] : setInputString(str) \/ setInputFile(str)
    BY <2>0
  <2>2. inputs \in Nat /\ inputs' = inputs + 1
    BY <2>1, BoundsAssumption
    DEF ScannerInv, ConfigOK, setInputString, setInputFile, NewInput
  <2>3. in.savedChars = <<>>
    BY <2>2 DEF LeftFromBefore
  <2>4. str \in Seq(Character)
    <3>1. in'.buffer = str /\ in'.buffer \in Seq(Character)
      <4>1. in \in Source /\ in' \in Source
        BY DEF ScannerInv, InOK, Placed
      <4> QED
        BY <2>1, <4>1 DEF setInputString, setInputFile, NewInput, Source, Text
    <3> QED
      BY <3>1
  <2> QED
    BY <2>1, <2>3, <2>4, NewInputKeeps
<1>5. CASE \/ nextToken \/ hasMoreTokens \/ \E op \in Wanted.operators : verifyToken(op)
           \/ saveToken \/ TakeSavedToken \/ BeginScan
  BY <1>1, <1>5
  DEF nextToken, hasMoreTokens, verifyToken, Call, saveToken, TakeSavedToken, Return, Leave,
      BeginScan, GoTo, GoWith, TakeNothing
<1>6. CASE Step
  BY <1>5, <1>6, skipSpacesKeeps, FirstCharKeeps, SlashKeeps, CommentKeeps, DispatchKeeps,
     GrowOperatorKeeps, BackOffKeeps, scanWordKeeps, scanNumberKeeps, scanStringKeeps
  DEF Step
<1> QED
  BY <1>2, <1>3, <1>4, <1>5, <1>6 DEF Next

\* The characters of any text go to tokens, white space and comments, each once and
\* in order, but for the four ways in which the code loses or repeats them.
THEOREM CharactersKept == Spec => CharactersLostOnlyByPushBack
<1>1. newTokenScanner => ScannerInv
  BY InitInv
<1>2. ScannerInv /\ [Next]_vars => ScannerInv'
  BY NextInv
<1>3. ScannerInv /\ ScannerInv' /\ [Next]_vars =>
          [(Intact /\ ~Intact') => \/ IncompleteExponent \/ SlashAtEnd
                                 \/ GivesBackAnother \/ LeftFromBefore]_vars
  BY NextKeeps
<1> QED
  BY <1>1, <1>2, <1>3, PTL DEF Spec, CharactersLostOnlyByPushBack

=============================================================================
