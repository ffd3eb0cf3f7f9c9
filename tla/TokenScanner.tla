---------------------------- MODULE TokenScanner ----------------------------
(***************************************************************************)
(* The token scanner of tokenscanner.c, a character at a time: a step is   *)
(* one getChar with what the code does on the character it returns.        *)
(*                                                                         *)
(* A character is a string of length one, a text a sequence of characters. *)
(* The client is a program that sets the scanner up, gives it a text, and  *)
(* takes tokens, looks ahead and puts tokens back in the reverse order.    *)
(***************************************************************************)
EXTENDS Integers, Sequences

CONSTANTS
    Setups,     \* how a client sets the scanner up, and the texts it scans: a
                \* sequence of records [flags, operators, wordChars,
                \* alphabet, length]
    MaxInputs,  \* bound: texts given to the scanner
    MaxRepeats  \* bound: characters read again, at the start of a call

Flag == {"ignoreWhitespace", "ignoreComments", "scanNumbers", "scanStrings"}
EOF == "EOF"

\* The characters of the texts, and what getc returns at their end.
Character == (UNION {Setups[i].alphabet : i \in 1..Len(Setups)}) \cup {EOF}
Text == Seq(Character)

ASSUME SetupsAssumption ==
    \A i \in 1..Len(Setups) :
        /\ Setups[i].flags \subseteq Flag
        /\ Setups[i].operators \subseteq Seq(STRING) /\ <<>> \notin Setups[i].operators
        /\ Setups[i].wordChars \subseteq STRING
        /\ Setups[i].alphabet \subseteq STRING /\ EOF \notin Setups[i].alphabet
        /\ Setups[i].length \in Nat
ASSUME BoundsAssumption == MaxInputs \in Nat /\ MaxRepeats \in Nat

VARIABLES
    setup,          \* which setup the client has in mind
    flags, operators, wordChars,
    in,             \* where characters come from, see NoInput
    savedTokens,    \* tokens put back, the next one first
    sb,             \* the token so far
    pc,             \* where the scanner is, "idle" between two calls
    ch,             \* the last character read in nextToken
    prev,           \* the character before, in a comment and, if an escape, a string
    call,           \* the call in progress, and what verifyToken expects
    failed,         \* whether an exception left the last call
    taken,          \* the token the client may put back, if any
    read,           \* history: all text passed over since the input was set
    inputs          \* history: the texts given to the scanner, counted

config == <<setup, flags, operators, wordChars>>
vars == <<config, in, savedTokens, sb, pc, ch, prev, call, failed, taken, read,
          inputs>>

EmptyToken == <<>>
NoCall == [op |-> "none"]

isdigit(c) == c \in {"0", "1", "2", "3", "4", "5", "6", "7", "8", "9"}
isalpha(c) == c \in {"a", "b", "c", "d", "e", "x", "A", "B", "E"}
isspace(c) == c \in {" ", "\t", "\n", "\r"}
Quotes == {"\"", "'"}

LastOf(s) == s[Len(s)]
ButLast(s) == SubSeq(s, 1, Len(s) - 1)
StartsWith(s, p) == Len(p) <= Len(s) /\ SubSeq(s, 1, Len(p)) = p

-----------------------------------------------------------------------------
\* isWordCharacter, isOperator, isOperatorPrefix
isWordCharacter(c) == isdigit(c) \/ isalpha(c) \/ c \in wordChars
isOperator(op) == op \in operators
isOperatorPrefix(op) == \E o \in operators : StartsWith(o, op)

\* The sources of characters: the text and the place in it (for a file, stdio's),
\* the character given to ungetc, charIsSaved and the scanner's own stack.
NoInput == [infile |-> FALSE, buffer |-> <<>>, cp |-> 0, ungot |-> <<>>,
            charIsSaved |-> FALSE, savedChars |-> <<>>]

\* What getChar returns, and what it leaves.
getChar ==
    IF in.savedChars # <<>> THEN LastOf(in.savedChars)
    ELSE IF in.ungot # <<>> THEN LastOf(in.ungot)
    ELSE IF in.cp < Len(in.buffer) THEN in.buffer[in.cp + 1]
    ELSE EOF

AfterGetChar ==
    IF in.savedChars # <<>> THEN [in EXCEPT !.savedChars = ButLast(@)]
    ELSE IF in.ungot # <<>>
         THEN [in EXCEPT !.ungot = ButLast(@), !.charIsSaved = FALSE]
    ELSE [in EXCEPT !.cp = IF @ < Len(in.buffer) THEN @ + 1 ELSE @,
                    !.charIsSaved = FALSE]

\* ungetChar: in a string the pointer moves back whatever c is, in a file c is
\* pushed back (end of file cannot be).
ungetChar(i, c) ==
    IF ~i.infile THEN [i EXCEPT !.cp = @ - 1]
    ELSE IF i.charIsSaved THEN [i EXCEPT !.savedChars = Append(@, c)]
    ELSE [i EXCEPT !.ungot = IF c = EOF THEN @ ELSE Append(@, c),
                   !.charIsSaved = TRUE]

\* The characters the scanner will still read, in order.
Rest == LET back == in.ungot \o in.savedChars
            n == Len(back)
        IN [k \in 1..n |-> back[n + 1 - k]]
           \o SubSeq(in.buffer, in.cp + 1, Len(in.buffer))

-----------------------------------------------------------------------------
\* newTokenScanner, initScanner
newTokenScanner ==
    /\ setup \in 1..Len(Setups)
    /\ flags = {} /\ operators = {} /\ wordChars = {}
    /\ in = NoInput /\ savedTokens = <<>> /\ sb = <<>>
    /\ pc = "idle" /\ ch = EOF /\ prev = EOF
    /\ call = NoCall /\ failed = FALSE
    /\ taken = <<>> /\ read = <<>> /\ inputs = 0

Scanning == <<in, savedTokens, sb, pc, ch, prev, call, failed, taken, read, inputs>>

Wanted == Setups[setup]

\* ignoreWhitespace, ignoreComments, scanNumbers, scanStrings
SetFlag(f) ==
    /\ inputs = 0 /\ f \in Wanted.flags \ flags
    /\ flags' = flags \cup {f}
    /\ UNCHANGED <<setup, operators, wordChars, Scanning>>

addOperator(op) ==
    /\ inputs = 0 /\ op \in Wanted.operators \ operators
    /\ operators' = operators \cup {op}
    /\ UNCHANGED <<setup, flags, wordChars, Scanning>>

addWordCharacters(c) ==
    /\ inputs = 0 /\ c \in Wanted.wordChars \ wordChars
    /\ wordChars' = wordChars \cup {c}
    /\ UNCHANGED <<setup, flags, operators, Scanning>>

IsSetUp == flags = Wanted.flags /\ operators = Wanted.operators
           /\ wordChars = Wanted.wordChars

NewInput(i) ==
    /\ pc = "idle" /\ IsSetUp /\ inputs < MaxInputs
    /\ in' = i /\ inputs' = inputs + 1
    /\ savedTokens' = <<>> /\ taken' = <<>> /\ read' = <<>>
    /\ UNCHANGED <<config, sb, pc, ch, prev, call, failed>>

\* setInputString leaves charIsSaved and the characters pushed back alone.
setInputString(str) ==
    NewInput([in EXCEPT !.infile = FALSE, !.buffer = str, !.cp = 0, !.ungot = <<>>])

\* setInputFile leaves the characters pushed back alone.
setInputFile(str) ==
    NewInput([in EXCEPT !.infile = TRUE, !.buffer = str, !.cp = 0, !.ungot = <<>>,
                        !.charIsSaved = FALSE])

-----------------------------------------------------------------------------
\* nextToken ends, and with it its variables.
Leave == pc' = "idle" /\ ch' = EOF /\ prev' = EOF /\ call' = NoCall

\* What the call in progress does with the token: nextToken returns it,
\* hasMoreTokens puts it back, verifyToken compares it.  tokens: those left
\* put back, after the call took its own.
Return(token, tokens) ==
    /\ Leave
    /\ savedTokens' = IF call.op = "hasMoreTokens" THEN <<token>> \o tokens
                      ELSE tokens
    /\ taken' = CASE call.op = "nextToken"     -> <<token>>
                  [] call.op = "hasMoreTokens" -> taken
                  [] OTHER                     -> <<>>
    /\ failed' = (call.op = "verifyToken" /\ token # call.expected)

\* A token scanned: its text has been passed over.
Deliver(token) ==
    /\ Return(token, savedTokens)
    /\ read' = read \o token /\ sb' = <<>>

\* error(): the call is left by an exception.
ThrowError ==
    /\ Leave /\ failed' = TRUE /\ taken' = <<>>
    /\ read' = read \o sb /\ sb' = <<>>
    /\ UNCHANGED savedTokens

\* Mutant: no error before the start of a string.
PutBackUnchecked(i, A) == in' = i /\ A

\* Characters are put back, which leaves i, and the scanner goes on with A; it
\* is an error to put one back before the start of a string.
PutBack(i, A) ==
    /\ in' = [i EXCEPT !.cp = IF @ < 0 THEN 0 ELSE @]
    /\ IF i.cp < 0 THEN ThrowError ELSE A

\* The scanner goes on at p, with c and before as ch and prev; and a character
\* is added to what it skips or to the token.
GoWith(p, c, before) ==
    /\ pc' = p /\ ch' = c /\ prev' = before
    /\ UNCHANGED <<savedTokens, taken, failed, call>>
GoTo(p) == GoWith(p, ch, prev)
Skip(c) == read' = Append(read, c) /\ UNCHANGED sb
Take(c) == sb' = Append(sb, c) /\ UNCHANGED read
TakeNothing == UNCHANGED <<read, sb>>

Still == UNCHANGED <<config, inputs>>

-----------------------------------------------------------------------------
\* The start of nextToken: a token put back comes first.  Calls stop when the
\* scanner has read more than MaxRepeats characters again.
Call(c) ==
    /\ pc = "idle" /\ inputs > 0 /\ Len(read) <= Len(in.buffer) + MaxRepeats
    /\ call' = c /\ failed' = FALSE
    /\ pc' = "nextToken"
    /\ UNCHANGED <<config, in, savedTokens, sb, ch, prev, taken, read, inputs>>

nextToken == Call([op |-> "nextToken"])
hasMoreTokens == Call([op |-> "hasMoreTokens"])
verifyToken(expected) == Call([op |-> "verifyToken", expected |-> expected])

\* The client puts the last token it took back.
saveToken ==
    /\ pc = "idle" /\ taken # <<>>
    /\ savedTokens' = taken \o savedTokens
    /\ taken' = <<>>
    /\ UNCHANGED <<config, in, sb, pc, ch, prev, call, failed, read, inputs>>

TakeSavedToken ==
    /\ pc = "nextToken" /\ savedTokens # <<>>
    /\ Return(Head(savedTokens), Tail(savedTokens))
    /\ Still /\ UNCHANGED <<in, sb, read>>

BeginScan ==
    /\ pc = "nextToken" /\ savedTokens = <<>>
    /\ GoTo(IF "ignoreWhitespace" \in flags THEN "skipSpaces" ELSE "first")
    /\ TakeNothing /\ Still /\ UNCHANGED in

skipSpaces ==
    /\ pc = "skipSpaces" /\ Still
    /\ IF getChar # EOF /\ isspace(getChar) /\ ~isOperator(<<getChar>>)
       THEN in' = AfterGetChar /\ Skip(getChar) /\ GoTo(pc)
       ELSE PutBack(IF getChar = EOF THEN AfterGetChar
                    ELSE ungetChar(AfterGetChar, getChar),
                    TakeNothing /\ GoTo("first"))

\* The first character of a token.
FirstChar ==
    /\ pc = "first" /\ Still
    /\ in' = AfterGetChar /\ TakeNothing
    /\ GoWith(IF getChar = "/" /\ "ignoreComments" \in flags THEN "slash"
              ELSE "dispatch", getChar, prev)

\* After a slash: a comment, or the slash is a token's first character.
Slash ==
    /\ pc = "slash" /\ Still
    /\ \/ /\ getChar \in {"/", "*"}
          /\ in' = AfterGetChar
          /\ read' = read \o <<"/", getChar>> /\ UNCHANGED sb
          /\ GoWith(IF getChar = "/" THEN "lineComment" ELSE "blockComment", ch, EOF)
       \/ /\ getChar \notin {"/", "*"}
          /\ PutBack(ungetChar(AfterGetChar, getChar),
                     TakeNothing /\ GoTo("dispatch"))

\* Mutant: the end of the input does not end a comment.
CommentNeedsItsEnd ==
    /\ pc \in {"lineComment", "blockComment"} /\ Still
    /\ in' = AfterGetChar
    /\ IF getChar = EOF THEN TakeNothing ELSE Skip(getChar)
    /\ GoWith(IF IF pc = "lineComment" THEN getChar \in {"\n", "\r"}
                 ELSE prev = "*" /\ getChar = "/"
              THEN "nextToken" ELSE pc, ch, getChar)

Comment ==
    /\ pc \in {"lineComment", "blockComment"} /\ Still
    /\ in' = AfterGetChar
    /\ IF getChar = EOF THEN TakeNothing ELSE Skip(getChar)
    /\ GoWith(IF \/ getChar = EOF
                 \/ pc = "lineComment" /\ getChar \in {"\n", "\r"}
                 \/ pc = "blockComment" /\ prev = "*" /\ getChar = "/"
              THEN "nextToken" ELSE pc, ch, getChar)

\* What kind of token the character ch begins; all but an operator put it back.
Dispatch ==
    /\ pc = "dispatch" /\ Still
    /\ LET kind == CASE ch \in Quotes /\ "scanStrings" \in flags -> "scanString"
                     [] isdigit(ch) /\ "scanNumbers" \in flags   -> "INITIAL_STATE"
                     [] isWordCharacter(ch)                      -> "scanWord"
                     [] OTHER                                    -> "operator"
       IN CASE ch = EOF -> Deliver(EmptyToken) /\ UNCHANGED in
            [] ch # EOF /\ kind # "operator" ->
                 PutBack(ungetChar(in, ch), TakeNothing /\ GoTo(kind))
            [] OTHER -> Take(ch) /\ GoTo(kind) /\ UNCHANGED in

\* An operator grows while it is the beginning of one ...
GrowOperator ==
    /\ pc = "operator" /\ Still
    /\ IF isOperatorPrefix(sb)
       THEN /\ in' = AfterGetChar
            /\ IF getChar = EOF THEN TakeNothing /\ GoWith("backOff", EOF, prev)
               ELSE Take(getChar) /\ GoWith(pc, getChar, prev)
       ELSE TakeNothing /\ GoTo("backOff") /\ UNCHANGED in

\* ... and gives characters back until it is one: the last character read, each
\* time.
BackOff ==
    /\ pc = "backOff" /\ Still
    /\ CASE Len(sb) = 1 \/ isOperator(sb) -> Deliver(sb) /\ UNCHANGED in
         [] OTHER -> PutBack(ungetChar(in, ch),
                             sb' = ButLast(sb) /\ UNCHANGED read /\ GoTo(pc))

\* Mutant: the character after the word is not put back.
WordEatsNext ==
    /\ pc = "scanWord" /\ Still
    /\ in' = AfterGetChar
    /\ IF getChar # EOF /\ isWordCharacter(getChar)
       THEN Take(getChar) /\ GoTo(pc)
       ELSE Deliver(sb)

scanWord ==
    /\ pc = "scanWord" /\ Still
    /\ CASE getChar = EOF -> in' = AfterGetChar /\ Deliver(sb)
         [] getChar # EOF /\ isWordCharacter(getChar) ->
              in' = AfterGetChar /\ Take(getChar) /\ GoTo(pc)
         [] OTHER -> PutBack(ungetChar(AfterGetChar, getChar), Deliver(sb))

-----------------------------------------------------------------------------
NumberState == {"INITIAL_STATE", "BEFORE_DECIMAL_POINT", "AFTER_DECIMAL_POINT",
                "STARTING_EXPONENT", "FOUND_EXPONENT_SIGN", "SCANNING_EXPONENT"}

\* Mutant: an exponent may begin with a decimal point.
NumberStateAfterWrong(state, c) ==
    CASE isdigit(c) -> IF state = "INITIAL_STATE" THEN "BEFORE_DECIMAL_POINT" ELSE state
      [] c = "." /\ state # "INITIAL_STATE"        -> "AFTER_DECIMAL_POINT"
      [] OTHER -> "FINAL_STATE"

\* The state that scanNumber's switch goes to on the character c.
NumberStateAfter(state, c) ==
    CASE isdigit(c) ->
           IF state = "INITIAL_STATE" THEN "BEFORE_DECIMAL_POINT"
           ELSE IF state \in {"STARTING_EXPONENT", "FOUND_EXPONENT_SIGN"}
           THEN "SCANNING_EXPONENT" ELSE state
      [] c = "." /\ state = "BEFORE_DECIMAL_POINT" -> "AFTER_DECIMAL_POINT"
      [] c \in {"e", "E"}
         /\ state \in {"BEFORE_DECIMAL_POINT", "AFTER_DECIMAL_POINT"} ->
           "STARTING_EXPONENT"
      [] c \in {"+", "-"} /\ state = "STARTING_EXPONENT" -> "FOUND_EXPONENT_SIGN"
      [] OTHER -> "FINAL_STATE"

\* The character that ends a number goes back, and once or twice more if the
\* exponent is not complete: there the pointer of a string goes on back, a file
\* gets the same character again.
PutBackAfter(state, i, c) ==
    LET one == IF c = EOF THEN i ELSE ungetChar(i, c)
    IN CASE state = "STARTING_EXPONENT"   -> ungetChar(one, c)
         [] state = "FOUND_EXPONENT_SIGN" -> ungetChar(ungetChar(one, c), c)
         [] OTHER                         -> one

scanNumber ==
    /\ pc \in NumberState /\ Still
    /\ LET to == NumberStateAfter(pc, getChar)
       IN CASE to # "FINAL_STATE" ->
                 in' = AfterGetChar /\ Take(getChar) /\ GoTo(to)
            [] to = "FINAL_STATE" /\ pc = "INITIAL_STATE" ->
                 in' = AfterGetChar /\ ThrowError
            [] OTHER ->
                 PutBack(PutBackAfter(pc, AfterGetChar, getChar), Deliver(sb))

\* The delimiter first; a character after an escape does not end the string.
scanString ==
    /\ pc = "scanString" /\ Still
    /\ in' = AfterGetChar
    /\ LET escape == sb # <<>> /\ prev = "\\"
           escapes == sb # <<>> /\ getChar = "\\" /\ ~escape
       IN CASE sb # <<>> /\ getChar = EOF -> ThrowError
            [] sb # <<>> /\ getChar = sb[1] /\ ~escape -> Deliver(Append(sb, sb[1]))
            [] OTHER -> /\ Take(getChar)
                        /\ GoWith(pc, ch, IF escapes THEN "\\" ELSE EOF)

-----------------------------------------------------------------------------
\* Bound: the first text is as long as the setup says, those after it are short.
TextLength == IF inputs = 0 THEN Wanted.length ELSE 1

Step == \/ TakeSavedToken \/ BeginScan \/ skipSpaces \/ FirstChar \/ Slash
        \/ Comment \/ Dispatch \/ GrowOperator \/ BackOff \/ scanWord
        \/ scanNumber \/ scanString

Next ==
    \/ \E f \in Flag : SetFlag(f)
    \/ \E op \in Wanted.operators : addOperator(op)
    \/ \E c \in Wanted.wordChars : addWordCharacters(c)
    \/ \E n \in 0..TextLength : \E str \in [1..n -> Wanted.alphabet] :
           setInputString(str) \/ setInputFile(str)
    \/ nextToken \/ hasMoreTokens \/ saveToken
    \/ \E op \in Wanted.operators : verifyToken(op)
    \/ Step

\* A call is run by its thread: its steps are fair, the client's are not.
Spec == newTokenScanner /\ [][Next]_vars /\ WF_vars(Step)

-----------------------------------------------------------------------------
(* Properties *)

\* Every variable has its type: tokens and texts are sequences of characters,
\* never more than two tokens are put back, and the pointer into the text
\* stays inside it whatever ungetChar does (tokenscanner.c:305).
TypeOK ==
    /\ setup \in 1..Len(Setups)
    /\ flags \subseteq Flag /\ operators \subseteq Wanted.operators
    /\ wordChars \subseteq Wanted.wordChars
    /\ in \in [infile: BOOLEAN, buffer: Text, cp: Nat, ungot: Text,
               charIsSaved: BOOLEAN, savedChars: Text]
    /\ in.cp <= Len(in.buffer)
    /\ savedTokens \in Seq(Text) /\ taken \in Seq(Text)
    /\ Len(savedTokens) + Len(taken) <= 2
    /\ sb \in Text /\ read \in Text
    /\ ch \in Character /\ prev \in Character
    /\ pc \in {"idle", "nextToken", "skipSpaces", "first", "slash", "lineComment",
              "blockComment", "dispatch", "operator", "backOff", "scanWord",
              "scanString"} \cup NumberState
    /\ call.op \in {"none", "nextToken", "hasMoreTokens", "verifyToken"}
    /\ failed \in BOOLEAN /\ inputs \in 0..MaxInputs

\* Nothing of the text is lost, duplicated or moved: what has been passed over,
\* the character in hand, the token so far and what is still to be read are
\* the text the client gave.
Held == IF pc \in {"slash", "dispatch"} /\ (ch # EOF \/ Rest # <<>>)
        THEN <<ch>> ELSE <<>>
Intact == read \o Held \o sb \o Rest = in.buffer

\* The four ways in which the code does lose or repeat characters: an exponent
\* that is not complete stays in the token and is read again (492, 502), a slash
\* at the end of a string is read for ever (173, 305), an operator that gives
\* back more than one character to a file gives back the last one each time
\* (199), and characters put back to a file come before the next text (118).
IncompleteExponent ==
    pc \in {"STARTING_EXPONENT", "FOUND_EXPONENT_SIGN"} /\ pc' = "idle"
SlashAtEnd == pc = "slash" /\ ~in.infile /\ getChar = EOF
GivesBackAnother == pc = "backOff" /\ in.infile /\ LastOf(sb) # ch
LeftFromBefore == inputs' # inputs /\ in.savedChars # <<>>

\* The characters of the text go to tokens, white space and comments, each once
\* and in order, through every path of the scanner, but for those four: a step
\* that breaks this is one of them.
CharactersLostOnlyByPushBack ==
    [][(Intact /\ ~Intact') => \/ IncompleteExponent \/ SlashAtEnd
                             \/ GivesBackAnother \/ LeftFromBefore]_vars

-----------------------------------------------------------------------------
\* getTokenType
getTokenType(token) ==
    CASE token = EmptyToken                         -> "EOF"
      [] token # EmptyToken /\ isspace(token[1])    -> "SEPARATOR"
      [] Len(token) > 1 /\ token[1] \in Quotes      -> "STRING"
      [] token # EmptyToken /\ isdigit(token[1])    -> "NUMBER"
      [] token # EmptyToken /\ token[1] \notin Quotes
                          /\ ~isspace(token[1]) /\ ~isdigit(token[1])
                          /\ isWordCharacter(token[1]) -> "WORD"
      [] OTHER                                      -> "OPERATOR"

\* The reference: what each kind of token is, as a set of texts.
Digits(s, i, j) == \A k \in i..j : isdigit(s[k])
IsExponent(s, i) ==
    /\ i < Len(s) /\ s[i] \in {"e", "E"} /\ isdigit(LastOf(s))
    /\ Digits(s, IF s[i + 1] \in {"+", "-"} THEN i + 2 ELSE i + 1, Len(s))
IsNumber(s) ==
    \E i \in 1..Len(s), j \in 1..Len(s) :
        /\ Digits(s, 1, i)
        /\ i = j \/ (i < j /\ s[i + 1] = "." /\ Digits(s, i + 2, j))
        /\ j = Len(s) \/ IsExponent(s, j + 1)

Escaped(s, i) ==    \* an odd number of escapes before place i
    \E k \in 1..i - 1 : /\ k % 2 = 1
                       /\ \A j \in i - k..i - 1 : s[j] = "\\"
                       /\ s[i - k - 1] # "\\"
IsString(s) ==
    /\ Len(s) > 1 /\ s[1] \in Quotes /\ LastOf(s) = s[1]
    /\ \A i \in 2..Len(s) : (i = Len(s)) <=> (s[i] = s[1] /\ ~Escaped(s, i))

IsWord(s) == s # <<>> /\ \A i \in 1..Len(s) : isWordCharacter(s[i])
IsOperatorOrChar(s) == Len(s) = 1 \/ isOperator(s)

\* token is the longest beginning of text that is of the kind.
IsLongest(token, text, Kind(_)) ==
    /\ StartsWith(text, token) /\ Kind(token)
    /\ \A n \in Len(token) + 1..Len(text) : ~Kind(SubSeq(text, 1, n))

IsFirstToken(token, text) ==
    CASE getTokenType(token) = "EOF"    -> text = <<>>
      [] getTokenType(token) = "STRING" -> StartsWith(text, token) /\ IsString(token)
      [] getTokenType(token) = "NUMBER" ->
           IF "scanNumbers" \in flags THEN IsLongest(token, text, IsNumber)
           ELSE IsLongest(token, text, IsWord)
      [] getTokenType(token) = "WORD"   -> IsLongest(token, text, IsWord)
      [] OTHER                          -> IsLongest(token, text, IsOperatorOrChar)

\* Every token that a call scans is the one its type promises for the text that
\* begins there: the longest number, word or operator, a string up to its
\* delimiter (tokenscanner.h: scanNumbers, addOperator, scanStrings), except for
\* a number whose exponent is not complete.
TokensAreLongest ==
    [][Intact /\ Intact' /\ pc \notin {"idle", "nextToken"} /\ pc' = "idle"
          /\ ~failed' /\ ~IncompleteExponent =>
       IsFirstToken(SubSeq(read', Len(read) + 1, Len(read')),
                    SubSeq(in.buffer, Len(read) + 1, Len(in.buffer)))]_vars

\* Mutant: the token put back is not allowed for.
PositionOfReader == in.cp - Len(in.ungot)

\* getPosition; ftell allows for the character given to ungetc.
getPosition ==
    IF Len(savedTokens) > 1 THEN -1
    ELSE in.cp - Len(in.ungot)
         - (IF savedTokens = <<>> THEN 0 ELSE Len(savedTokens[1]))

\* Between two calls, however the client looked ahead and put back, the position
\* is where the next token to be taken, or the text not yet read, begins
\* (tokenscanner.h, getPosition), as long as no character was lost and none is
\* in the scanner's own stack, which a file's position does not count.
PositionIsNextToken ==
    pc = "idle" /\ Intact /\ in.savedChars = <<>> /\ Len(savedTokens) <= 1 =>
        /\ getPosition = Len(read)
                - (IF savedTokens = <<>> THEN 0 ELSE Len(savedTokens[1]))
        /\ savedTokens # <<>> =>
               StartsWith(SubSeq(in.buffer, getPosition + 1, Len(in.buffer)),
                          savedTokens[1])

\* Every call returns: no text, ended where it may be, keeps the scanner busy.
CallsReturn == pc # "idle" ~> pc = "idle"
=============================================================================
