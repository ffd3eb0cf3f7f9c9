----------------------------- MODULE CommandLine -----------------------------
(***************************************************************************)
(* options.c: a line is cut into arguments, the arguments are parsed by a  *)
(* list of option specifications into a table.                             *)
(* simpio.c: reading lines and numbers from a stream of characters, of     *)
(* which a state is the text still to be read.                             *)
(***************************************************************************)
EXTENDS Strings

\* Mutant: a quote does not start an argument.
ShellStepUnstarted(s, ch) ==
    LET more == [s EXCEPT !.arg = Append(@, ch)]
    IN IF s.quote = BackslashCh THEN [more EXCEPT !.quote = SpaceCh]
       ELSE IF s.quote # SpaceCh
       THEN IF ch = s.quote THEN [s EXCEPT !.quote = SpaceCh] ELSE more
       ELSE IF ch \in {BackslashCh, QuoteCh, Apostrophe} THEN [s EXCEPT !.quote = ch]
       ELSE IF isspace(ch)
       THEN [s EXCEPT !.args = IF s.started THEN Append(@, s.arg) ELSE @,
                      !.arg = <<>>, !.started = FALSE]
       ELSE [more EXCEPT !.started = TRUE]

\* One pass of the loop of parseShellArgs.
ShellStep(s, ch) ==
    LET more == [s EXCEPT !.arg = Append(@, ch)]
    IN CASE s.quote = BackslashCh -> [more EXCEPT !.quote = SpaceCh]
         [] s.quote \in {QuoteCh, Apostrophe} ->
                IF ch = s.quote THEN [s EXCEPT !.quote = SpaceCh] ELSE more
         [] s.quote = SpaceCh /\ ch \in {BackslashCh, QuoteCh, Apostrophe} ->
                [s EXCEPT !.quote = ch, !.started = TRUE]
         [] s.quote = SpaceCh /\ isspace(ch) ->
                [s EXCEPT !.args = IF s.started THEN Append(@, s.arg) ELSE @,
                          !.arg = <<>>, !.started = FALSE]
         [] OTHER -> [more EXCEPT !.started = TRUE]

parseShellArgs(line) ==
    FoldLeft(ShellStep, [args |-> <<>>, arg |-> <<>>, quote |-> SpaceCh, started |-> FALSE],
             Append(line, SpaceCh)).args

------------------------------------------------------------------------------
\* A specification is its text; what follows the space is the pattern.
OnlyPlace(places) == IF Cardinality(places) = 1 THEN Min(places) ELSE NoPlace
findOptionSpec(arg, optionSpec) ==
    OnlyPlace({i \in DOMAIN optionSpec : startsWith(optionSpec[i], arg)})

CharPattern == Text("<char>")
IntPattern == Text("<int>")
DoublePattern == Text("<double>")
BoolPattern == Text("<bool>")
CumulativePattern == Text("<cumulative>")
KnownPatterns == {CharPattern, IntPattern, DoublePattern, BoolPattern, CumulativePattern}
True == Text("true")
False == Text("false")

DollarCh == 36
\* Where %i stops reading, which goes by the digits of the base.
DigitsUpTo(s, from, digits) == Min({i \in from..Len(s) : At(s, i) \notin digits})
IntegerEnd(s, from) ==
    IF At(s, from) # 48 THEN DigitsUpTo(s, from, 48..57)
    ELSE IF tolower(At(s, from + 1)) # 120 THEN DigitsUpTo(s, from, 48..55)
    ELSE DigitsUpTo(s, from + 2, 48..57 \cup 65..70 \cup 97..102)

\* The value, or Failed.  The mark behind a number is looked at.
TakenIf(arg, taken) == IF taken THEN arg ELSE Failed
MarkedAt(arg, end) == At(Append(arg, DollarCh), end) = DollarCh
IntegerValue(arg, scan) == TakenIf(arg, scan.count > 0 /\ MarkedAt(arg, IntegerEnd(arg, scan.from)))
RealValue(arg, scan) == TakenIf(arg, scan.count > 0 /\ MarkedAt(arg, scan.end))
BoolValue(arg) ==
    IF startsWith(True, arg) THEN True ELSE IF startsWith(False, arg) THEN False ELSE Failed
Barred(s) == <<BarCh>> \o s \o <<BarCh>>
scanOptionPattern(options, key, arg, pattern) ==
    CASE pattern = CharPattern -> TakenIf(arg, Len(arg) = 1)
      [] pattern = IntPattern -> IntegerValue(arg, ScanInteger(arg))
      [] pattern = DoublePattern -> RealValue(arg, ScanReal(arg))
      [] pattern = BoolPattern -> BoolValue(toLowerCase(arg))
      [] pattern = CumulativePattern ->
            IF key \notin DOMAIN options THEN arg ELSE options[key] \o <<PlusCh>> \o arg
      [] startsWith(pattern, <<60>>) /\ endsWith(pattern, <<62>>)
         /\ pattern \notin KnownPatterns -> arg
      [] OTHER -> TakenIf(arg, findString(Barred(arg), Barred(pattern), 0) # NoPlace)

\* The values joined by + from place i on, up to the place of the last one.
RECURSIVE LastJoined(_, _)
LastJoined(args, i) ==
    IF i < Len(args) /\ args[i + 1] = <<PlusCh>> THEN LastJoined(args, i + 2) ELSE i
Joined(args, i, last) == FlattenSeq([n \in 1..(last - i) \div 2 + 1 |-> args[i + 2 * n - 2]])
IsOption(arg) == At(arg, 0) = HyphenCh /\ Len(arg) > 1

\* The argument that parseOptions is at, and the values behind it; a state says which
\* argument is next, and whether error is called for it.  The key a pattern is
\* scanned for is the argument as it was typed.
Stored(s, key, value, last) ==
    IF value = Failed THEN [s EXCEPT !.failed = TRUE]
    ELSE [s EXCEPT !.options = (key :> value) @@ @, !.next = last + 1]
WithValues(s, args, spec, space, last) ==
    IF last > Len(args) THEN [s EXCEPT !.failed = TRUE]
    ELSE Stored(s, substring(spec, 0, space - 1),
                scanOptionPattern(s.options, args[s.next], Joined(args, s.next + 1, last),
                                  substring(spec, space + 1, Len(spec))), last)
WithSpec(s, args, spec, space) ==
    IF space = NoPlace THEN Stored(s, spec, True, s.next)
    ELSE WithValues(s, args, spec, space, LastJoined(args, s.next + 1))
ParseOne(s, args, arg, optionSpec, index) ==
    CASE ~IsOption(arg) -> [s EXCEPT !.args = Append(@, arg), !.next = @ + 1]
      [] IsOption(arg) /\ index = NoPlace -> [s EXCEPT !.failed = TRUE]
      [] IsOption(arg) /\ index # NoPlace ->
            WithSpec(s, args, optionSpec[index], findChar(SpaceCh, optionSpec[index], 0))
ParseNext(s, args, optionSpec) ==
    IF s.failed \/ s.next > Len(args) THEN s
    ELSE ParseOne(s, args, args[s.next], optionSpec, findOptionSpec(args[s.next], optionSpec))
parseOptions(args, optionSpec) ==
    FoldLeft(LAMBDA s, n : ParseNext(s, args, optionSpec),
             [options |-> <<>>, args |-> <<>>, next |-> 1, failed |-> FALSE], args)

getOption(options, key, def) == IF key \in DOMAIN options THEN options[key] ELSE def
getIntOption(options, key, def) ==
    IF key \in DOMAIN options THEN stringToInteger(options[key]) ELSE <<def>>
getDoubleOption(options, key, def) ==
    IF key \in DOMAIN options THEN stringToReal(options[key]) ELSE <<def>>
getCharOption(options, key, def) ==
    IF key \in DOMAIN options THEN At(options[key], 0) ELSE def
getBoolOption(options, key, def) ==
    IF key \in DOMAIN options THEN options[key] = True ELSE def
\* The arguments that are no options are kept under a key of their own.
getArgList(parsed) == parsed.args

\* A color as PostScript sets it, or its name as the library spells it.
ColorNames ==
    {Text("black"), Text("darkGray"), Text("gray"), Text("lightGray"), Text("white"), Text("red"),
     Text("green"), Text("blue"), Text("yellow"), Text("magenta"), Text("cyan"), Text("pink"),
     Text("orange")}
NameFor(names) == IF names = {} THEN Failed ELSE CHOOSE name \in names : TRUE
Percent == Text("%")
Hash == Text("#")
HexPrefix == Text("0x")
Base16 == Text("16")
SetHexColor == Text(" sethexcolor")
SetGray == Text(" setgray")
Div100 == Text(" 100 div colorscreen")
HexColor(digits) == Base16 \o Hash \o digits \o SetHexColor
ColorOf(arg) ==
    CASE endsWith(arg, Percent) -> substring(arg, 0, Len(arg) - 2) \o Div100
      [] ~endsWith(arg, Percent) /\ startsWith(arg, Hash) -> HexColor(substring(arg, 1, Len(arg) - 1))
      [] ~endsWith(arg, Percent) /\ startsWith(arg, HexPrefix) -> HexColor(substring(arg, 2, Len(arg) - 1))
      [] ~endsWith(arg, Percent) /\ ~startsWith(arg, HexPrefix) /\ isdigit(At(arg, 0)) -> arg \o SetGray
      [] OTHER -> NameFor({name \in ColorNames : toLowerCase(name) = toLowerCase(arg)})
getColorOption(options, key, def) ==
    IF key \in DOMAIN options THEN ColorOf(options[key]) ELSE def

\* A length in points, as a fraction: a real and a whole number it is divided by.
\* Where no number is found, the units are compared before they are read.
Length(num, den) == [num |-> num, den |-> den]
Unread == Length(Failed, 0)
PointUnits == {Text("pt"), Text("px")}
InchUnits == {Text("i"), Text("in")}
CentimeterUnits == {Text("cm")}
UnitsFrom(arg, from) ==
    substring(arg, from, Min({i \in from..Len(arg) : isspace(At(arg, i)) \/ i \in {from + 2, Len(arg)}}) - 1)
UnitsAt(arg, place) == UnitsFrom(arg, FirstOf({i \in place..Len(arg) - 1 : ~isspace(At(arg, i))}))
InUnits(scan, units) ==
    CASE scan.count = 1 \/ units \in PointUnits -> Length(scan.value, 1)
      [] scan.count = 2 /\ units \in InchUnits -> Length(Times(scan.value, 72), 1)
      [] scan.count = 2 /\ units \in CentimeterUnits -> Length(Times(scan.value, 7200), 254)
      [] OTHER -> Length(Failed, 1)
LengthOf(arg, scan) ==
    IF scan.count = 0 THEN Unread
    ELSE InUnits(scan, IF scan.count = 1 THEN <<>> ELSE UnitsAt(arg, scan.end))
getUnitsOption(options, key, def) ==
    IF key \in DOMAIN options THEN LengthOf(options[key], ScanReal(options[key])) ELSE Length(def, 1)

------------------------------------------------------------------------------
(* simpio.c *)
CONSTANT InitialBufferSize  \* INITIAL_BUFFER_SIZE
ASSUME InitialBufferSizeAssumption == InitialBufferSize \in Nat \ {0}

\* readLine: the loop, with the line so far and the size of its buffer.  At the
\* end of the file the last character read is EOF, also if it follows a return.
RECURSIVE ReadOn(_, _, _)
ReadOn(infile, line, size) ==
    LET ch == infile[1]
        EndAt(rest, eof) ==
            [line |-> IF line = <<>> /\ eof THEN Failed ELSE line, size |-> size, rest |-> rest]
    IN IF infile = <<>> THEN EndAt(<<>>, TRUE)
       ELSE IF ch = NewlineCh THEN EndAt(Tail(infile), FALSE)
       ELSE IF ch = ReturnCh
       THEN IF Len(infile) = 1 THEN EndAt(<<>>, TRUE)
            ELSE EndAt(IF infile[2] = NewlineCh THEN SubSeq(infile, 3, Len(infile))
                       ELSE Tail(infile), FALSE)
       ELSE ReadOn(Tail(infile), Append(line, ch), IF Len(line) = size THEN 2 * size ELSE size)

\* The line, or Failed for NULL; and what is left of the stream.
readLine(infile) == ReadOn(infile, <<>>, InitialBufferSize)

\* Lines are read until NULL.
RECURSIVE readLinesFromStream(_)
readLinesFromStream(infile) ==
    IF readLine(infile).line = Failed THEN <<>>
    ELSE <<readLine(infile).line>> \o readLinesFromStream(readLine(infile).rest)

\* A line that is not a number is asked for again; NULL is an error.
ScanAs(type, s) == IF type = "double" THEN ScanReal(s) ELSE ScanInteger(s)
RECURSIVE AskUntil(_, _)
AskUntil(type, read) ==
    LET scan == ScanAs(type, read.line)
    IN CASE read.line = Failed -> [value |-> Failed, rest |-> read.rest]
         [] read.line # Failed /\ scan.count = 1 -> [value |-> <<scan.value>>, rest |-> read.rest]
         [] OTHER -> AskUntil(type, readLine(read.rest))
getInteger(stdin) == AskUntil("int", readLine(stdin))
getReal(stdin) == AskUntil("double", readLine(stdin))
\* As getInteger but for the width of the number, which is left out.
getLong(stdin) == AskUntil("long", readLine(stdin))
==============================================================================
