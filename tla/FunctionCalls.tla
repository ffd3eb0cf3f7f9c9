------------------------------ MODULE FunctionCalls ------------------------------
(***************************************************************************)
(* Calls on the functions of strlib.c, filelib.c, options.c, simpio.c and  *)
(* cmdscan.c that work on text, with what each is expected to undo: a text *)
(* to quote, a pattern by its parts, a command line by its arguments, an   *)
(* input by its lines.  Calls on the generic functions, a value that a set *)
(* or a ref keeps, where graphical objects are, and an event that is sent  *)
(* to a program.  And the unit tests.  The last call and its answer are    *)
(* kept as in Files.                                                       *)
(***************************************************************************)
EXTENDS Files, CommandLine, Geometry, Generic, TypedValues, Events

CONSTANTS
    Texts,          \* to quote and to trim
    Extensions,     \* for defaultExtension
    Filenames, PatternParts,    \* names, and sequences of parts of patterns
    ArgumentLists,  \* sequences of arguments, each a sequence of pieces
    OptionSpec,     \* the options of a program: texts
    OptionUses,     \* sequences of arguments and uses of options; a use says what
                    \* its value is then, Failed if the option does not take it
    Inputs,         \* sequences of lines: the text, its end, its first word, and
                    \* the integer and the real it is, if it is one
    Integers32, Reals, Colors,    \* numbers, and texts for a color
    RandMax, Ranges,    \* RAND_MAX, and ranges to draw from
    IntOptions, CumulativeOptions,  \* places in OptionSpec
    Commands,       \* names defined by defineCommand; the one that quits
    Quit,
    GenericCalls,   \* pairs of a generic function and the type of its argument
    KeptValues,     \* a type, a value that is kept, and one it is compared with
    Shapes, Points, Rectangles,     \* graphical objects, points, structs
    UnitTestsOf,    \* by module, pairs of what a call returns and what is expected
    Happenings, EventMasks          \* what a user does, what a program waits for

VARIABLES
    stdin,          \* what is still to be read
    typed,          \* history: the lines it consists of
    quit            \* the flag of the command scanner

inputVars == <<stdin, typed, quit>>
textVars == <<inputVars, ask, answer>>

------------------------------------------------------------------------------
(* How the texts that are taken apart are put together. *)

\* A part of a pattern: a character, ?, *, or a set of ranges.
RangeText(range) ==
    IF range[1] = range[2] THEN <<range[1]>> ELSE <<range[1], HyphenCh, range[2]>>
PartText(part) ==
    CASE part.kind = "char" -> <<part.ch>>
      [] part.kind = "any" -> <<QuestionCh>>
      [] part.kind = "star" -> <<StarCh>>
      [] part.kind = "set" ->
            <<OpenBracket>> \o (IF part.invert THEN <<CaretCh>> ELSE <<>>)
            \o FlattenSeq([i \in DOMAIN part.ranges |-> RangeText(part.ranges[i])])
            \o <<CloseBracket>>
PatternText(parts) == FlattenSeq([i \in DOMAIN parts |-> PartText(parts[i])])

\* A piece of an argument: plain, in quotes, or a character after a backslash.
PieceText(piece) ==
    CASE piece.quote = "none" -> piece.text
      [] piece.quote = "backslash" -> <<BackslashCh>> \o piece.text
      [] piece.quote = "single" -> <<Apostrophe>> \o piece.text \o <<Apostrophe>>
      [] piece.quote = "double" -> <<QuoteCh>> \o piece.text \o <<QuoteCh>>
ArgumentText(arg) == FlattenSeq([i \in DOMAIN arg |-> PieceText(arg[i])])
ShellLine(args) ==
    FlattenSeq([i \in DOMAIN args |-> <<SpaceCh>> \o ArgumentText(args[i])])

\* An argument that is no option, or an option as typed with its values.
UseArgs(use) ==
    IF use.option = 0 THEN <<use.text>>
    ELSE <<use.text>> \o FlattenSeq([i \in DOMAIN use.values |->
             IF i = 1 THEN <<use.values[i]>> ELSE <<<<PlusCh>>, use.values[i]>>])
ArgsOf(uses) == FlattenSeq([i \in DOMAIN uses |-> UseArgs(uses[i])])

LineText(line) ==
    line.text \o CASE line.end = "newline" -> <<NewlineCh>>
                   [] line.end = "return" -> <<ReturnCh>>
                   [] line.end = "both" -> <<ReturnCh, NewlineCh>>
                   [] line.end = "file" -> <<>>
InputText(lines) == FlattenSeq([i \in DOMAIN lines |-> LineText(lines[i])])

------------------------------------------------------------------------------
(* The calls. *)
CallQuote(text) ==
    /\ Call("quoteString", <<text>>,
            quoteString(text) @@ [sent |-> quotedString(text),
                                  value |-> getStringValue(quoteString(text).text),
                                  sentValue |-> getStringValue(quotedString(text))])
    /\ UNCHANGED inputVars
CallQuoteHTML(text) ==
    Call("quoteHTML", <<text>>, quoteHTML(text)) /\ UNCHANGED inputVars
CallTrim(text) == Call("trim", <<text>>, trim(text)) /\ UNCHANGED inputVars
CallName(name, ext) ==
    /\ Call("names", <<name, ext>>,
            [root |-> getRoot(name), extension |-> getExtension(name),
             head |-> getHead(name), tail |-> getTail(name),
             default |-> defaultExtension(name, ext)])
    /\ UNCHANGED inputVars
CallMatch(name, parts) ==
    /\ Call("matchFilenamePattern", <<name, parts>>, matchFilenamePattern(name, PatternText(parts)))
    /\ UNCHANGED inputVars
CallParseShellArgs(args) ==
    Call("parseShellArgs", <<args>>, parseShellArgs(ShellLine(args))) /\ UNCHANGED inputVars
\* A program parses its arguments and asks for every option it knows.
OptionName(spec) == CutAt(spec, {SpaceCh})[1]
Defaults == [text |-> <<DotCh>>, int |-> <<7>>, char |-> DotCh, bool |-> FALSE]
Asked(options, key) ==
    [text |-> getOption(options, key, Defaults.text), int |-> getIntOption(options, key, 7),
     char |-> getCharOption(options, key, Defaults.char),
     bool |-> getBoolOption(options, key, Defaults.bool)]
AnswerOf(parsed, args) ==
    IF parsed.failed THEN [failed |-> args[parsed.next]]
    ELSE [values |-> [i \in DOMAIN OptionSpec |-> Asked(parsed.options, OptionName(OptionSpec[i]))],
          args |-> getArgList(parsed)]
CallParseOptions(uses) ==
    /\ Call("parseOptions", <<uses>>, AnswerOf(parseOptions(ArgsOf(uses), OptionSpec), ArgsOf(uses)))
    /\ UNCHANGED inputVars

\* A number is written and read again, by the C libraries there are.
CallInteger(n) ==
    /\ Call("integer", <<n>>, stringToInteger(integerToString(n)))
    /\ UNCHANGED inputVars
CallReal(d) ==
    /\ Call("real", <<d>>, [text |-> {realToString(d, pad) : pad \in {2, 3}},
                           value |-> stringToReal(realToString(d, 3))])
    /\ UNCHANGED inputVars
CallColor(text) ==
    LET key == Text("-color")
        Args == [color |-> text, hash |-> Hash \o text, prefix |-> HexPrefix \o text,
                 upper |-> toUpperCase(text)]
    IN /\ Call("color", <<text>>,
               [arg \in DOMAIN Args |-> getColorOption(key :> Args[arg], key, Defaults.text)])
       /\ UNCHANGED inputVars

\* random.c: what is made of a number that rand() draws from 0..RandMax.  Reals are
\* counted in units of 1 / (RandMax + 1).
randomInteger(rand, low, high) == low + (rand * (high - low + 1)) \div (RandMax + 1)
randomReal(rand, low, high) == low * (RandMax + 1) + rand * (high - low)
randomChance(rand, p) == randomReal(rand, 0, 1) < p
CallRandom(low, high) ==
    /\ Call("random", <<low, high>>,
            [integers |-> [rand \in 0..RandMax |-> randomInteger(rand, low, high)],
             reals |-> {randomReal(rand, low, high) : rand \in 0..RandMax}])
    /\ UNCHANGED inputVars
CallChance(p) ==
    /\ Call("chance", <<p>>, {rand \in 0..RandMax : randomChance(rand, p)})
    /\ UNCHANGED inputVars

\* A unit test.
CallTest(module) == Call("test", <<module>>, UnitTestsOf[module]) /\ UNCHANGED inputVars

\* A generic function is given a block or a struct.
CallGeneric(op, type) == Call("generic", <<op, type>>, Receiver(op, type)) /\ UNCHANGED inputVars

\* A value is passed to a set, which keeps it, compares it with another it keeps,
\* and stores it in a variable again.
CallKeep(type, v, w) ==
    LET Fetched(x) == FetchFn(getFetchFnForType(type), Argument(type, x))
    IN /\ Call("keep", <<type, v, w>>,
               [sign |-> CmpFn(getCompareFnForType(type), Fetched(v), NodeKey(type, Fetched(w))),
                stored |-> StoreFn(getStoreFnForType(type), NodeKey(type, Fetched(v)), Fresh("variable")),
                text |-> ToStringFn(getToStringFn(type), NodeKey(type, Fetched(v)))])
       /\ UNCHANGED inputVars

\* A value is kept by a ref, whose user takes it for one of a type.
CallRef(type, v, points, wanted, rp) ==
    /\ Call("ref", <<type, v, points, wanted>>,
            refTo(wanted, IF points = "ref" THEN newRef(type, v) ELSE NotRef(points), rp))
    /\ UNCHANGED inputVars

\* Something happens while a program waits for events.
CallEvent(h, mask) ==
    LET scan == ScanArguments(h.kind, printEvent(h))
        e == EventOf(h.kind, scan.args)
    IN /\ Call("event", <<h, mask>>,
               IF ~Sends(h, mask) THEN [line |-> FALSE, parsed |-> FALSE]
               ELSE IF ~scan.ok THEN [line |-> TRUE, parsed |-> FALSE]
               ELSE [line |-> TRUE, parsed |-> TRUE, event |-> e, class |-> getEventClass(e),
                     got |-> GotFrom(e), freed |-> freeEvent(e)])
       /\ UNCHANGED inputVars

\* The mouse is somewhere; where is an object?
CallShape(o, pt) ==
    /\ Call("shape", <<o, pt>>, [contains |-> containsGObject(o, pt.x, pt.y),
                                 bounds |-> getBounds(o),
                                 start |-> getStartPoint(o), end |-> getEndPoint(o)])
    /\ UNCHANGED inputVars
CallRectangle(r) ==
    /\ Call("rectangle", <<r>>, [empty |-> isEmptyGRectangle(r),
                                 inside |-> {pt \in Points : containsGRectangle(r, pt)}])
    /\ UNCHANGED inputVars

\* getLine; and getInteger and getReal, which ask again until they get one.
CallGetLine ==
    /\ stdin' = readLine(stdin).rest
    /\ typed' = SubSeq(typed, 2, Len(typed))
    /\ Call("getLine", <<>>, readLine(stdin)) /\ UNCHANGED quit
Behind(next) == IF next = 0 THEN <<>> ELSE SubSeq(typed, next + 1, Len(typed))
FirstInteger == SelectInSeq(typed, LAMBDA line : line.number # <<>>)
FirstReal == SelectInSeq(typed, LAMBDA line : line.real # <<>>)
CallGetInteger ==
    /\ stdin' = getInteger(stdin).rest /\ typed' = Behind(FirstInteger)
    /\ Call("getInteger", <<>>, getInteger(stdin).value) /\ UNCHANGED quit
CallGetReal ==
    /\ stdin' = getReal(stdin).rest /\ typed' = Behind(FirstReal)
    /\ Call("getReal", <<>>, getReal(stdin).value) /\ UNCHANGED quit

\* One round of commandLoop.  The scanner is set to ignore spaces; an error, that
\* there is no line too, is caught.
FirstToken(line) ==
    LET start == FirstOf({i \in Places(line) : ~isspace(At(line, i))})
        end == Min({i \in start..Len(line) : ~(isalpha(At(line, i)) \/ isdigit(At(line, i)))})
    IN IF start = NoPlace THEN <<>> ELSE substring(line, start, Max({start, end - 1}))
CommandLoop ==
    LET read == readLine(stdin)
        cmdName == FirstToken(read.line)
    IN /\ ~quit
       /\ stdin' = read.rest
       /\ typed' = SubSeq(typed, 2, Len(typed))
       /\ quit' = (read.line # Failed /\ cmdName = Quit)
       /\ Call("executeCommand", <<>>,
               CASE read.line = Failed -> Failed
                 [] read.line # Failed /\ cmdName \in Commands \cup {Quit} -> cmdName
                 [] OTHER -> <<>>)

TextInit ==
    /\ typed \in Inputs /\ stdin = InputText(typed) /\ quit = FALSE
    /\ NoCallYet
InputNext == CallGetLine \/ CallGetInteger \/ CallGetReal \/ CommandLoop
FunctionsNext ==
    \/ \E text \in Texts : CallQuote(text) \/ CallQuoteHTML(text) \/ CallTrim(text)
    \/ \E name \in Filenames :
          \/ \E ext \in Extensions : CallName(name, ext)
          \/ \E parts \in PatternParts : CallMatch(name, parts)
    \/ \E args \in ArgumentLists : CallParseShellArgs(args)
    \/ \E uses \in OptionUses : CallParseOptions(uses)
    \/ \E n \in Integers32 : CallInteger(n)
    \/ \E d \in Reals : CallReal(d)
    \/ \E text \in Colors : CallColor(text)
    \/ \E range \in Ranges : CallRandom(range[1], range[2])
    \/ \E p \in 0..RandMax + 1 : CallChance(p)
    \/ \E module \in DOMAIN UnitTestsOf : CallTest(module)
    \/ \E call \in GenericCalls : CallGeneric(call[1], call[2])
    \/ \E kept \in KeptValues : CallKeep(kept[1], kept[2], kept[3])
    \/ \E kept \in KeptValues, points \in {"ref", "other", "NULL"}, wanted \in RefTypes :
          /\ kept[1] \in RefTypes /\ kept[2] = kept[3]
          /\ \E rp \in {"NULL", "other"} : CallRef(kept[1], kept[2], points, wanted, rp)
    \/ \E h \in Happenings, mask \in EventMasks : CallEvent(h, mask)
    \/ \E o \in Shapes, pt \in Points : CallShape(o, pt)
    \/ \E r \in Rectangles : CallRectangle(r)

------------------------------------------------------------------------------
(* Properties *)

\* What a C compiler reads in a string literal, character by character.
ReadLiteral(s, ch) ==
    CASE s.mode = "plain" /\ ch = BackslashCh -> [s EXCEPT !.mode = "escape"]
      [] s.mode = "escape" /\ ch \in 48..55 -> [s EXCEPT !.mode = "octal", !.code = <<ch - 48>>]
      [] s.mode = "escape" /\ ch \notin 48..55 ->
            [s EXCEPT !.mode = "plain",
                      !.text = Append(@, CHOOSE c \in DOMAIN Escapes : Escapes[c] = ch)]
      [] s.mode = "octal" ->
            IF Len(s.code) = 1 THEN [s EXCEPT !.code = Append(@, ch - 48)]
            ELSE [s EXCEPT !.mode = "plain",
                           !.text = Append(@, 64 * s.code[1] + 8 * s.code[2] + ch - 48)]
      [] OTHER -> [s EXCEPT !.text = Append(@, ch)]
Literal(text) == FoldLeft(ReadLiteral, [mode |-> "plain", code |-> <<>>, text |-> <<>>], text)

\* A text quoted is a literal of that text, without a quote before its end, and
\* is written within the room counted for it, unless a character is negative; what
\* the back end is sent is a literal of the bytes.  The token scanner reads the text
\* from both, but reads on after an octal number if a digit follows.
Quoted(text) ==
    LET Inside(literal) == SubSeq(literal, 2, Len(literal) - 1)
        quoted == Literal(Inside(answer'.text))
        sent == Literal(Inside(answer'.sent))
        positive == \A i \in DOMAIN text : text[i] >= 0
        NoDigitAfter(S) == \A i \in DOMAIN text \ {1} : text[i - 1] \in S => text[i] \notin 48..55
        octal == {ch \in Range(text) : IsOctal(ch)}
    IN /\ positive => /\ quoted.text = text /\ quoted.mode = "plain"
                      /\ answer'.written <= answer'.room
                      /\ NoDigitAfter(octal) => answer'.value = text
       /\ sent.text = [i \in DOMAIN text |-> text[i] % 256] /\ sent.mode = "plain"
       /\ NoDigitAfter(octal \cup {QuoteCh}) => answer'.sentValue = text

\* What a browser reads, character by character: an entity is one.
ReadHTML(s, ch) ==
    IF s.entity = <<>>
    THEN IF ch = 38 THEN [s EXCEPT !.entity = <<ch>>] ELSE [s EXCEPT !.text = Append(@, ch)]
    ELSE IF ch # SemicolonCh THEN [s EXCEPT !.entity = Append(@, ch)]
    ELSE [entity |-> <<>>,
          text |-> Append(s.text, CHOOSE c \in {38, 60, 62} : HTMLChar(c) = Append(s.entity, ch))]

\* Text quoted for HTML has no tags, and reads as the text.
QuotedForHTML(text) ==
    /\ \A i \in DOMAIN answer' : answer'[i] \notin {60, 62}
    /\ FoldLeft(ReadHTML, [entity |-> <<>>, text |-> <<>>], answer')
       = [entity |-> <<>>, text |-> text]

\* Only spaces are trimmed, and all at the ends.
Trimmed(text) ==
    /\ answer' # <<>> => ~isspace(answer'[1]) /\ ~isspace(Last(answer'))
    /\ \E i \in 0..Len(text) :
          /\ SubSeq(text, i + 1, i + Len(answer')) = answer'
          /\ \A j \in (1..i) \cup (i + Len(answer') + 1..Len(text)) : isspace(text[j])

\* A name is its root and its extension; and its head and its tail, with a
\* separator between them, of which the root directory keeps its own.
TakenApart(name, ext) ==
    LET forced == At(ext, 0) = StarCh
        n == answer'
    IN /\ n.root \o n.extension = name
       /\ n.extension # <<>> => n.extension[1] = DotCh
       /\ \A i \in DOMAIN n.extension : n.extension[i] \notin Separators
       /\ \A i \in DOMAIN n.tail : n.tail[i] \notin Separators
       /\ \/ n.head = <<>> /\ n.tail = name
          \/ n.head \in {<<ch>> : ch \in Separators} /\ n.head \o n.tail = name
          \/ \E ch \in Separators : n.head \o <<ch>> \o n.tail = name
       /\ n.default = n.root \o (IF forced THEN Tail(ext)
                                 ELSE IF n.extension = <<>> THEN ext ELSE n.extension)

\* A name matches a pattern if it can be cut into pieces that fit its parts.
Fits(piece, part) ==
    CASE part.kind = "star" -> TRUE
      [] part.kind = "any" -> Len(piece) = 1
      [] part.kind = "char" -> piece = <<part.ch>>
      [] part.kind = "set" ->
            /\ Len(piece) = 1
            /\ part.invert # \E i \in DOMAIN part.ranges :
                                piece[1] \in part.ranges[i][1]..part.ranges[i][2]
Matched(name, parts) ==
    answer' = IF \E cut \in [0..Len(parts) -> 0..Len(name)] :
                    /\ cut[0] = 0 /\ cut[Len(parts)] = Len(name)
                    /\ \A i \in DOMAIN parts :
                          /\ cut[i - 1] <= cut[i]
                          /\ Fits(SubSeq(name, cut[i - 1] + 1, cut[i]), parts[i])
              THEN "yes" ELSE "no"

\* A command line is cut into the arguments it was put together from, those that
\* are empty but quoted included.
CutIntoArguments(args) ==
    answer' = [i \in DOMAIN args |-> FlattenSeq([j \in DOMAIN args[i] |-> args[i][j].text])]

\* Every option has the value of its last use, or all of its values if they
\* cumulate, and its default if it is not used; what is no option is kept in order.
\* Parsing fails at the first use that is not one option or has a wrong value.  An
\* option that cumulates and is abbreviated forgets its values (options.c:81).
Parsed(uses) ==
    LET Meant(use) == {i \in DOMAIN OptionSpec : IsPrefix(use.text, OptionSpec[i])}
        Wrong(use) == use.option # 0 /\ (Meant(use) # {use.option} \/ use.value = Failed)
        OfOption(i) == SelectSeq(uses, LAMBDA use : use.option = i)
        AllValues(i) == FoldLeft(LAMBDA s, use : s \o <<PlusCh>> \o use.value,
                                 Head(OfOption(i)).value, Tail(OfOption(i)))
        InFull(i) == \A n \in DOMAIN OfOption(i) : OfOption(i)[n].text = OptionName(OptionSpec[i])
        HasValue(v, i) ==
            IF OfOption(i) = <<>> THEN v = Defaults
            ELSE IF i \notin CumulativeOptions THEN v.text = Last(OfOption(i)).value
            ELSE InFull(i) => v.text = AllValues(i)
    IN IF \E n \in DOMAIN uses : Wrong(uses[n])
       THEN answer' = [failed |-> uses[SelectInSeq(uses, Wrong)].text]
       ELSE /\ \A i \in DOMAIN OptionSpec :
                  /\ HasValue(answer'.values[i], i)
                  /\ answer'.values[i].char = answer'.values[i].text[1]
                  /\ answer'.values[i].bool = (answer'.values[i].text = True)
            /\ answer'.args = [n \in DOMAIN OfOption(0) |-> OfOption(0)[n].text]

\* What is accepted as the value of an option that takes an integer is read as
\* one, unless it is hexadecimal (stringToInteger has %d where the check has %i).
IntegerTaken ==
    "values" \in DOMAIN answer' =>
        \A i \in IntOptions :
            LET v == answer'.values[i]
            IN (\E n \in DOMAIN v.text : tolower(v.text[n]) = 120) \/ v.int # <<>>

\* A call that reads lines takes the line, or the lines up to the first that
\* is a number, however they end, and leaves what follows; the buffer grows with
\* the line.  An empty line that ends with a return at the end of the file is
\* taken for the end of the file.
LastEmpty == Len(typed) = 1 /\ Head(typed).text = <<>> /\ Head(typed).end = "return"
LineGiven ==
    /\ IF typed = <<>> THEN answer'.line = Failed
       ELSE LastEmpty \/ answer'.line = Head(typed).text
    /\ answer'.line # Failed => Len(answer'.line) <= answer'.size
NumberGiven ==
    answer' = IF FirstInteger = 0 THEN Failed ELSE typed[FirstInteger].number
RealGiven == answer' = IF FirstReal = 0 THEN Failed ELSE typed[FirstReal].real

\* A number that is written is read again, and written alike by every C library.
NumberKept(n) == answer' = <<n>>
RealKept(d) == answer'.value = <<d>> /\ Cardinality(answer'.text) = 1

\* A color is known in capitals too; a hexadecimal number
\* may have either prefix.
ColorTaken(text) ==
    /\ ~endsWith(text, Percent) => answer'.hash = answer'.prefix
    /\ (\E i \in DOMAIN text : isalpha(text[i])) => answer'.upper = answer'.color
    /\ answer'.color # Failed => \/ stringEqualIgnoreCase(answer'.color, text)
                                 \/ isdigit(text[1])

\* An integer is from its range and as likely as any other, as far as the numbers
\* that are drawn can be shared out; a real is below the end of its range.
DrawnFrom(low, high) ==
    LET Often(n) == Cardinality({rand \in 0..RandMax : answer'.integers[rand] = n})
    IN /\ Range(answer'.integers) \subseteq low..high
       /\ \A n, m \in low..high : Often(n) <= Often(m) + 1
       /\ \A d \in answer'.reals : low * (RandMax + 1) <= d
       /\ low < high => \A d \in answer'.reals : d < high * (RandMax + 1)

\* Every call returns what the unit test expects.
Passed == \A n \in DOMAIN answer' : answer'[n][1] = answer'[n][2]

\* The command executed is the first word of the next line; it stops the loop if
\* it is the one that quits.
CommandGiven ==
    IF typed = <<>> THEN answer' = Failed
    ELSE /\ LastEmpty \/ answer' = IF Head(typed).word \in Commands \cup {Quit}
                                   THEN Head(typed).word ELSE <<>>
         /\ quit' <=> answer' = Quit

\* A generic function hands what it is given to its own type, if a header says
\* that it takes the type, and else is an error, or undefined for a struct.  But
\* add and remove do not know compounds, whose blocks are GObjects (gobjects.c:161),
\* and remove passes an uninitialized variable to removeGWindow (generic.c:398).
Documented(op) ==
    CASE op \in {"getX", "getY"} -> {"GPoint", "GRectangle", "GEvent", "GObject"}
      [] op \in {"getWidth", "getHeight"} -> {"GDimension", "GRectangle", "GWindow", "GObject"}
      [] op = "toString" -> {"GPoint", "GRectangle", "StringBuffer"}
      [] op \in {"setVisible", "isVisible", "setColor"} -> {"GObject", "GWindow"}
      [] op = "getActionCommand" -> {"GObject", "GEvent"}
      [] op = "contains" -> {"GRectangle", "CharSet", "Set", "GObject"}
      [] op = "isEmpty" -> {"GRectangle", "Vector", "Stack", "Queue", "PriorityQueue", "CharSet",
                            "Set", "HashMap", "Map", "StringBuffer"}
      [] op = "add" -> {"Vector", "CharSet", "Set", "GWindow", "GObject"}
      [] op = "remove" -> {"Vector", "CharSet", "Set", "HashMap", "Map", "GWindow", "GObject"}
Received(op, type) ==
    IF type \notin Documented(op)
    THEN \/ answer' \in {"error", "undefined"}
         \/ type \in DOMAIN StructSize /\ StructSize[answer'] = StructSize[type]
    ELSE answer' = CASE op \in {"add", "remove"} /\ type = "GObject" -> "error"
                     [] op = "remove" /\ type = "GWindow" -> "undefined"
                     [] OTHER -> type

\* A value of any type comes back from a set as it was, in the bytes of its type
\* and no others; values are in order, characters as if they had no sign, texts by
\* their first difference; the text of a value is its numeral, with an L if it is
\* long.
LexBefore(s, t) ==
    \E n \in 0..Len(s) :
        /\ n < Len(t) /\ SubSeq(s, 1, n) = SubSeq(t, 1, n)
        /\ n < Len(s) => s[n + 1] < t[n + 1]
Kept(type, v, w) ==
    LET pointer == type \notin BaseTypes \cup {"bool"}
        text == type \in {"string", "char *"}
        Weight(x) == IF type = "char" THEN x % Byte ELSE x
        before == IF text THEN LexBefore(TextAt[v], TextAt[w]) ELSE Weight(v) < Weight(w)
        after == IF text THEN LexBefore(TextAt[w], TextAt[v]) ELSE Weight(w) < Weight(v)
    IN /\ Read(IF pointer THEN "pointer" ELSE type, answer'.stored) = v
       /\ \A i \in sizeof(type) + 1..8 : answer'.stored[i] = Fresh("variable")[i]
       /\ answer'.sign = IF before THEN -1 ELSE IF after THEN 1 ELSE 0
       /\ answer'.text =
            CASE text -> TextAt[v]
              [] pointer /\ ~text -> v
              [] type \in {"char", "unsigned char"} -> <<v>>
              [] type \in {"long", "unsigned long"} -> ToString(v) \o "L"
              [] type = "bool" -> IF v = 1 THEN "true" ELSE "false"
              [] OTHER -> ToString(v)

\* The user of a ref gets the value it keeps, if he takes it for what it is; never a
\* value of another type, or from a block that is no ref.  A NULL pointer is not
\* noticed (ref.c:260), and any call may end in the error for one.
Referred(type, v, points, wanted) ==
    IF points = "ref" /\ type = wanted THEN answer' \in {<<"value", v>>, <<"error">>}
    ELSE answer' \in {<<"error">>} \cup (IF points = "NULL" THEN {<<"crash">>} ELSE {})

\* A program is told of what it waits for by a class or a type of events: of the
\* whole class then, but of keys only if it waits for nothing else
\* (JavaBackEnd.java:427), and of an interactor only if it has a command; and it is
\* told that a window is closed.  The event says what happened, in the coordinates
\* and the modifier bits of gevents.h; other functions are errors.  A key is cut to
\* a char; an action command arrives if it has no quote, backslash or end of line,
\* since the back end prints it as it is (JavaBackEnd.java:413); with a quote that
\* no backslash stands before, the program ends with an error.  The command is
\* never freed (gevents.c:101).
Told(h, mask) ==
    LET a == answer'
        class == CASE h.kind \in {"windowClosed", "windowResized"} -> WINDOW_EVENT
                   [] h.kind = "actionPerformed" -> ACTION_EVENT
                   [] h.kind = "timerTicked" -> TIMER_EVENT
                   [] h.kind \in {"keyPressed", "keyReleased", "keyTyped"} -> KEY_EVENT
                   [] OTHER -> MOUSE_EVENT
        awaited == class \subseteq mask \/ (h.kind = "mouseClicked" /\ CLICK_EVENT \subseteq mask)
        command == IF class = ACTION_EVENT THEN Range(h.command) ELSE {}
        raw == command \cap {QuoteCh, BackslashCh, NewlineCh}
        Bit(n, i) == (n \div 2 ^ i) % 2 = 1
    IN /\ class \subseteq KEY_EVENT =>
              (a.line <=> mask \in {class, EventTypes[h.kind]})
       /\ class \cap KEY_EVENT = {} =>
              (a.line <=> \/ h.kind = "windowClosed"
                          \/ awaited /\ (class = ACTION_EVENT => command # {}))
       /\ a.line /\ raw = {} => a.parsed
       /\ QuoteCh \in raw /\ BackslashCh \notin raw => ~a.parsed
       /\ a.parsed =>
            /\ a.class = class /\ a.event.eventType = EventTypes[h.kind]
            /\ a.event.eventTime = h.time
            /\ DOMAIN a.got = CASE class = MOUSE_EVENT -> {"getGWindow", "getX", "getY"}
                                [] class = KEY_EVENT -> {"getGWindow", "getKeyChar", "getKeyCode"}
                                [] class = WINDOW_EVENT -> {"getGWindow"}
                                [] class = ACTION_EVENT -> {"getSource", "getActionCommand"}
                                [] class = TIMER_EVENT -> {"getGTimer"}
            /\ \A getter \in DOMAIN a.got \cap {"getGWindow", "getSource", "getGTimer"} :
                  a.got[getter] = h.source
            /\ class \in {MOUSE_EVENT, KEY_EVENT} =>
                  \A m \in DOMAIN ModifierCodes :
                      Bit(a.event.modifiers, ModifierCodes[m]) <=> m \in h.down
            /\ class = MOUSE_EVENT => a.got.getX = h.x /\ a.got.getY = h.y
            /\ class = KEY_EVENT =>
                  /\ a.got.getKeyCode = h.keyCode
                  /\ h.keyChar < 128 => a.got.getKeyChar = h.keyChar
                  /\ (a.got.getKeyChar - h.keyChar) % 256 = 0 /\ a.got.getKeyChar \in -128..127
            /\ class = ACTION_EVENT /\ raw = {} => a.got.getActionCommand = h.command
            /\ a.freed = {"event"}

\* Points an object contains.  A circle has those no farther from its centre than
\* its radius.  An arc of a circle those at one of its angles, on the circle up to
\* the tolerance, or in it if it is filled; the centre counts as at the angle 0, and
\* an arc that ends at 360 degrees does not have that angle (gobjects.c:622).  A
\* polygon has those from which a ray upwards crosses its edges an odd number of
\* times, whatever its location says, and perhaps those on an edge.  A line has
\* those between its ends, but none if it runs to the left or up, and a label
\* those below its baseline.
Within(rect, x, y) ==
    /\ rect.x <= x /\ x <= rect.x + rect.width
    /\ rect.y <= y /\ y <= rect.y + rect.height
Sq(a) == a * a
OnEdge(edge, pt) ==
    /\ (edge[2].x - edge[1].x) * (pt.y - edge[1].y) = (edge[2].y - edge[1].y) * (pt.x - edge[1].x)
    /\ Within([x |-> fmin(edge[1].x, edge[2].x), y |-> fmin(edge[1].y, edge[2].y),
               width |-> fabs(edge[1].x - edge[2].x), height |-> fabs(edge[1].y - edge[2].y)],
              pt.x, pt.y)
Above(edge, pt) ==
    LET w == edge[2].x - edge[1].x
        rise == (edge[1].y - pt.y) * w + (edge[2].y - edge[1].y) * (pt.x - edge[1].x)
    IN (edge[1].x > pt.x) # (edge[2].x > pt.x) /\ (IF w > 0 THEN rise < 0 ELSE rise > 0)
Angles(arc, step) ==
    {a \in {arc.start + step * k : k \in -16..16} :
        fmin(arc.start, arc.start + arc.sweep) <= a /\ a <= fmax(arc.start, arc.start + arc.sweep)}
Contained(o, pt) ==
    LET distance == Sq(2 * pt.x - 2 * o.x - o.width) + Sq(2 * pt.y - 2 * o.y - o.height)
        angle == DegreesOf(2 * pt.x - 2 * o.x - o.width, 2 * pt.y - 2 * o.y - o.height)
        last == fmax(o.start, o.start + o.sweep)
        turned == \E a \in Angles(o, 45) :
                      /\ (a - angle) % 360 = 0
                      /\ a = last /\ a % 360 = 0 => fabs(o.sweep) >= 360
        circle == o.width = o.height /\ o.width > 0
    IN CASE o.type = "GOval" -> circle => (answer'.contains <=> distance <= Sq(o.width))
         [] o.type = "GArc" /\ o.filled ->
                circle /\ o.sweep # 0 => (answer'.contains <=> distance <= Sq(o.width) /\ turned)
         [] o.type = "GArc" /\ ~o.filled ->
                circle /\ o.sweep # 0 =>
                    /\ answer'.contains =>
                          /\ turned /\ distance <= Sq(o.width + 2 * ArcTolerance)
                          /\ o.width > 2 * ArcTolerance =>
                                distance >= Sq(o.width - 2 * ArcTolerance)
                    /\ turned /\ distance = Sq(o.width) => answer'.contains
         [] o.type = "GPolygon" ->
                LET vertices == o.vertices
                    edges == {<<vertices[i], vertices[i + 1]>> : i \in 1..Len(vertices) - 1}
                             \cup (IF vertices = <<>> THEN {}
                                   ELSE {<<vertices[Len(vertices)], vertices[1]>>})
                IN \/ answer'.contains <=> Cardinality({e \in edges : Above(e, pt)}) % 2 = 1
                   \/ \E e \in edges : OnEdge(e, pt)
         [] o.type = "GLine" -> answer'.contains <=>
                o.width >= 0 /\ o.height >= 0 /\ Within(o, pt.x, pt.y)
         [] OTHER -> answer'.contains <=> Within(o, pt.x, pt.y)

\* Bounds are the least rectangle around an object: around the vertices of a
\* polygon; around the end points of an arc, the points between them where it turns
\* back, and the centre if it is filled.  A line's are as far down as it is to the
\* right (gobjects.c:488), and its end points are refused (gobjects.c:473).
Around(rect, points) ==
    /\ \A p \in points : Within(rect, p.x, p.y)
    /\ \E p \in points : p.x = rect.x
    /\ \E p \in points : p.x = rect.x + rect.width
    /\ \E p \in points : p.y = rect.y
    /\ \E p \in points : p.y = rect.y + rect.height
Bounded(o, pt) ==
    LET b == answer'.bounds
    IN CASE o.type = "GPolygon" -> o.vertices # <<>> => Around(b, Range(o.vertices))
         [] o.type = "GArc" ->
                Around(b, {createGPoint(ArcX(o, a), ArcY(o, a)) : a \in Angles(o, 90)}
                          \cup (IF o.filled THEN {createGPoint(2 * o.x + o.width, 2 * o.y + o.height)}
                                ELSE {}))
         [] o.type = "GLine" ->
                /\ Around([b EXCEPT !.y = fmin(o.y, o.y + o.height)],
                          {createGPoint(o.x, o.y), createGPoint(o.x + o.width, o.y + o.height)})
                /\ b.y = b.x /\ answer'.start = "error" /\ answer'.end = "error"
         [] o.type = "GLabel" -> answer'.contains => Within([b EXCEPT !.y = o.y], pt.x, pt.y)
         [] OTHER -> answer'.contains => Within(b, pt.x, pt.y)

\* A rectangle of whole numbers has as many points as its area, and none if it is
\* empty.
RightlyEmpty(r) ==
    /\ Cardinality(answer'.inside) = IF answer'.empty THEN 0 ELSE r.width * r.height
    /\ answer'.empty <=> answer'.inside = {}

\* Each function undoes what its caller did, lines are read in order, a value, a
\* block and a point get where they belong, and the unit tests pass.
FunctionsAsPromised ==
    [][/\ stdin' = InputText(typed')
       /\ CASE ask'[1] = "quoteString" -> Quoted(ask'[2])
            [] ask'[1] = "quoteHTML" -> QuotedForHTML(ask'[2])
            [] ask'[1] = "trim" -> Trimmed(ask'[2])
            [] ask'[1] = "names" -> TakenApart(ask'[2], ask'[3])
            [] ask'[1] = "matchFilenamePattern" -> Matched(ask'[2], ask'[3])
            [] ask'[1] = "parseShellArgs" -> CutIntoArguments(ask'[2])
            [] ask'[1] = "parseOptions" -> Parsed(ask'[2]) /\ IntegerTaken
            [] ask'[1] = "getLine" -> LineGiven
            [] ask'[1] = "getInteger" -> NumberGiven
            [] ask'[1] = "getReal" -> RealGiven
            [] ask'[1] = "executeCommand" -> CommandGiven
            [] ask'[1] = "integer" -> NumberKept(ask'[2])
            [] ask'[1] = "real" -> RealKept(ask'[2])
            [] ask'[1] = "color" -> ColorTaken(ask'[2])
            [] ask'[1] = "random" -> DrawnFrom(ask'[2], ask'[3])
            [] ask'[1] = "chance" -> Cardinality(answer') = ask'[2]
            [] ask'[1] = "test" -> Passed
            [] ask'[1] = "generic" -> Received(ask'[2], ask'[3])
            [] ask'[1] = "keep" -> Kept(ask'[2], ask'[3], ask'[4])
            [] ask'[1] = "ref" -> Referred(ask'[2], ask'[3], ask'[4], ask'[5])
            [] ask'[1] = "event" -> Told(ask'[2], ask'[3])
            [] ask'[1] = "shape" -> Contained(ask'[2], ask'[3]) /\ Bounded(ask'[2], ask'[3])
            [] ask'[1] = "rectangle" -> RightlyEmpty(ask'[2])
            [] OTHER -> TRUE]_textVars
==============================================================================
