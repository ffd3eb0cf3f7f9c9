------------------------------- MODULE MCLibrary -------------------------------
(* A program works with files, fills iterators of its own, reads its input,  *)
(* or calls the functions on text.                                           *)
EXTENDS Files, FunctionCalls, UnitTests, CollectionTests
VARIABLE using      \* "files", "iterators", "input" or "functions"

LibraryInit ==
    /\ FilesInit /\ TextInit
    /\ using \in {"files", "iterators", "input", "functions"}
    /\ using # "input" => typed = <<>>
LibraryNext ==
    /\ \/ using = "files" /\ FilesNext /\ UNCHANGED inputVars
       \/ using = "iterators" /\ IteratorNext /\ UNCHANGED inputVars
       \/ using = "input" /\ InputNext /\ UNCHANGED <<tree, iteration>>
       \/ using = "functions" /\ FunctionsNext /\ UNCHANGED <<tree, iteration>>
    /\ UNCHANGED using
Library == LibraryInit /\ [][LibraryNext]_<<filesVars, textVars, using>>
\* No action reads the last call.
MCView == <<using, tree, iteration, inputVars>>

------------------------------------------------------------------------------
(* Characters: a, b, c, i, k, q, s, t, u, v, x, B, 0, 1, 2, 8 and the others. *)
a == 97  b == 98  c == 99  i == 105  k == 107  q == 113  s == 115  t == 116
u == 117  v == 118  x == 120
n0 == 48  n1 == 49  n2 == 50  n8 == 56
sl == SlashCh  dot == DotCh  hy == HyphenCh

\* Slashes before, between and behind names, which have one letter or two.
MCPaths ==
    {<<a>>, <<b>>, <<sl, a>>, <<a, sl, b>>, <<sl, a, sl, b>>, <<a, b, sl, c, sl>>,
     <<a, b, sl, c, sl, a>>, <<sl>>, <<dot>>}
\* The first entry that has the file, empty entries, no path, absolute names.
MCSearchPaths ==
    {<<<<a, ColonCh, b>>, <<b>>>>, <<<<a, b, ColonCh, ColonCh, a>>, <<b>>>>,
     <<<<b, SemicolonCh, SemicolonCh, a>>, <<b>>>>, <<<<>>, <<TildeCh, sl, b>>>>,
     <<<<a, b, SemicolonCh, a>>, <<sl, a>>>>, <<<<TildeCh, u, ColonCh, a>>, <<b>>>>}
MCHome == (<<>> :> <<sl, a>>)
MCElements == {<<a>>, <<a, b>>, <<b>>}

\* All texts of up to three of these characters.
MCCharacters == {-1, 1, 10, 34, 38, 48, 60, 92, 127, a, SpaceCh}
MCTexts == UNION {[1..n -> MCCharacters] : n \in 0..3}
MCExtensions == {<<dot, b>>, <<StarCh, dot, b>>}
MCNames ==
    {<<>>, <<a>>, <<dot>>, <<a, dot>>, <<dot, a>>, <<a, dot, b>>, <<a, sl, b>>,
     <<sl, a>>, <<sl>>, <<a, dot, b, sl, c>>, <<a, BackslashCh, b, dot, c>>,
     <<a, dot, b, dot, c>>, <<b, a, b>>, <<c, c>>}
MCParts ==
    {[kind |-> "char", ch |-> a], [kind |-> "char", ch |-> b],
     [kind |-> "any"], [kind |-> "star"],
     [kind |-> "set", invert |-> FALSE, ranges |-> <<<<a, b>>>>],
     [kind |-> "set", invert |-> FALSE, ranges |-> <<<<dot, dot>>, <<b, c>>>>],
     [kind |-> "set", invert |-> TRUE, ranges |-> <<<<a, a>>>>]}
MCPatternParts == UNION {[1..n -> MCParts] : n \in 0..3}

\* Arguments of one or two pieces.
MCPieces ==
    {[quote |-> "none", text |-> <<a>>], [quote |-> "single", text |-> <<>>],
     [quote |-> "single", text |-> <<SpaceCh, QuoteCh>>],
     [quote |-> "double", text |-> <<Apostrophe, BackslashCh>>],
     [quote |-> "backslash", text |-> <<SpaceCh>>],
     [quote |-> "backslash", text |-> <<QuoteCh>>]}
MCArguments == UNION {[1..n -> MCPieces] : n \in 1..2}
MCArgumentLists == UNION {[1..n -> MCArguments] : n \in 0..2}

\* -i <int>, -ski <cumulative>, -st a|b, -v, -c <char>, -b <bool>
MCOptionSpec ==
    <<<<hy, i, SpaceCh>> \o IntPattern, <<hy, s, k, i, SpaceCh>> \o CumulativePattern,
      <<hy, s, t, SpaceCh, a, BarCh, b>>, <<hy, v>>,
      <<hy, c, SpaceCh>> \o CharPattern, <<hy, b, SpaceCh>> \o BoolPattern>>
MCIntOptions == {1}
MCCumulativeOptions == {2}
Use(option, text, values, value) ==
    [option |-> option, text |-> text, values |-> values, value |-> value]
MCCumulated == {Use(2, text, <<value>>, value) :
                    text \in {<<hy, s, k, i>>, <<hy, s, k>>}, value \in {<<a>>, <<b>>}}
MCUses ==
    {Use(0, <<a>>, <<>>, <<>>), Use(0, <<hy>>, <<>>, <<>>), Use(0, <<>>, <<>>, <<>>),
     Use(1, <<hy, i>>, <<<<n1>>>>, <<n1>>), Use(1, <<hy, i>>, <<<<n1>>, <<n2>>>>, <<n1, n2>>),
     Use(1, <<hy, i>>, <<<<SpaceCh, hy, n8>>>>, <<SpaceCh, hy, n8>>),
     Use(1, <<hy, i>>, <<<<n1, SpaceCh>>>>, Failed), Use(1, <<hy, i>>, <<<<x>>>>, Failed),
     Use(1, <<hy, i>>, <<<<n0, n8>>>>, Failed),
     Use(1, <<hy, i>>, <<<<n0, x, n1>>>>, <<n0, x, n1>>),
     Use(3, <<hy, s, t>>, <<<<a>>>>, <<a>>), Use(3, <<hy, s, t>>, <<<<c>>>>, Failed),
     Use(3, <<hy, s>>, <<<<a>>>>, <<a>>), Use(4, <<hy, v>>, <<>>, True),
     Use(4, <<hy, x>>, <<>>, True), Use(5, <<hy, c>>, <<<<hy>>>>, <<hy>>),
     Use(5, <<hy, c>>, <<<<a, b>>>>, Failed), Use(6, <<hy, b>>, <<<<t>>>>, True),
     Use(6, <<hy, b>>, <<<<x>>>>, Failed)} \cup MCCumulated
MCOptionUses ==
    UNION {[1..n -> MCUses] : n \in 0..2} \cup [1..3 -> MCCumulated]
    \cup {<<use, Use(1, <<hy, i>>, <<>>, Failed)>> : use \in MCUses}

\* Lines longer than the first buffer, empty ones, numbers and commands; a return
\* before an empty line would be its end.
Line(text, word, number) ==
    {[text |-> text, word |-> word, number |-> number, end |-> end,
      real |-> IF number = <<>> THEN <<>> ELSE <<Real(number[1], 0)>>] :
        end \in {"newline", "return", "both", "file"}}
MCRealLine == [text |-> Text("1.5"), word |-> <<n1>>, number |-> <<>>, end |-> "newline",
               real |-> <<Real(15, -1)>>]
MCLines ==
    Line(<<>>, <<>>, <<>>) \cup Line(<<a>>, <<a>>, <<>>)
    \cup Line(<<SpaceCh, n1, n2>>, <<n1, n2>>, <<12>>) \cup Line(<<hy, n8>>, <<hy>>, <<-8>>)
    \cup Line(<<n1, x>>, <<n1, x>>, <<>>) \cup Line(<<SpaceCh, q, SpaceCh, a>>, <<q>>, <<>>)
    \cup {MCRealLine}
MCInputs ==
    {lines \in UNION {[1..n -> MCLines] : n \in 0..3} :
        \A n \in DOMAIN lines :
            /\ lines[n].end = "file" => n = Len(lines) /\ lines[n].text # <<>>
            /\ n < Len(lines) /\ lines[n].end = "return" =>
                  ~(lines[n + 1].text = <<>> /\ lines[n + 1].end = "newline")}

\* Every number of digits %G may print, whole numbers, fractions and exponents.
MCIntegers == {-2147483647, -10, -1, 0, 7, 10, 120, 2147483647}
MCReals == {Real(num, exp) : num \in {-120305, -8, 0, 3, 10, 175, 999999}, exp \in -16..16}
MCColors == {Text("white"), Text("DarkGray"), Text("50%"), Text("0.5"), Text("ff8000"), Text("brown"), <<>>}
MCUnitTests ==
    [strlib |-> testStrlibModule, names |-> testNames, patterns |-> testMatchFilenamePattern,
     options |-> testOptionsModule, gtypes |-> testGTypesModule, bst |-> testBSTModule,
     set |-> testSetModule, charset |-> testCharSetModule, hashmap |-> testHashMapModule,
     map |-> testMapModule, vector |-> testVectorModule, stack |-> testStackModule,
     queue |-> testQueueModule, strbuf |-> testStrbufModule]
MCRanges == {<<0, 0>>, <<0, 9>>, <<-1, 1>>, <<-5, 4>>, <<7, 30>>}

\* Every generic function that is not only for collections, on every type.
MCStructOps == {"getX", "getY", "getWidth", "getHeight", "toString", "isEmpty", "contains"}
MCGenericCalls ==
    (MCStructOps \X (Types \cup DOMAIN StructSize))
    \cup ({"setVisible", "isVisible", "setColor", "getActionCommand", "add", "remove"} \X Types)

\* With two bits in a byte, the least and the greatest value of every type.
MCTextAt == (0 :> <<>>) @@ (8 :> <<a>>) @@ (16 :> <<a, b>>) @@ (24 :> <<a>>) @@ (32 :> <<b>>)
MCValuesOf(type) ==
    CASE type = "char" -> -2..1
      [] type = "short" -> {-8, -1, 0, 1, 7}
      [] type = "int" -> {-128, -8, -1, 0, 1, 127}
      [] type = "long" -> {-32768, -1, 0, 255, 256, 32767}
      [] type = "unsigned char" -> 0..3
      [] type = "unsigned short" -> {0, 1, 7, 8, 15}
      [] type = "unsigned" -> {0, 1, 127, 128, 255}
      [] type = "unsigned long" -> {0, 255, 256, 65535}
      [] type = "bool" -> {0, 1}
      [] type \in {"float", "double"} -> {-3, 0, 2}
      [] type \in {"string", "char *", "Arc"} -> {8, 16, 24, 32}
MCKeptValues ==
    UNION {{<<type, one, two>> : one \in MCValuesOf(type), two \in MCValuesOf(type)} :
        type \in SignedTypes \cup UnsignedTypes \cup FloatTypes \cup {"string", "char *", "Arc"}}

\* Objects on a small board; arcs from any quarter through up to two turns.
Shape(type, left, top, width, height) ==
    [type |-> type, x |-> left, y |-> top, width |-> width, height |-> height]
MCPoints == [x : -1..7, y : -1..7]
MCArcs ==
    {[type |-> "GArc", x |-> 1, y |-> 0, width |-> size[1], height |-> size[2],
      start |-> 90 * start, sweep |-> 90 * sweep, filled |-> filled] :
        size \in {<<6, 6>>, <<4, 6>>}, start \in -4..4, sweep \in -4..4, filled \in BOOLEAN}
MCVertices == {createGPoint(xy[1], xy[2]) : xy \in {<<0, 0>>, <<6, 0>>, <<5, 4>>, <<1, 6>>, <<2, 2>>}}
MCPolygons ==
    {Shape("GPolygon", 1, 2, 0, 0) @@ [vertices |-> vertices] :
        vertices \in UNION {[1..n -> MCVertices] : n \in 0..3}
                    \cup {corners \in [1..4 -> MCVertices] : corners[1] = createGPoint(0, 0)}}
MCShapes ==
    MCArcs \cup MCPolygons
    \cup {Shape("GOval", 0, 1, size[1], size[2]) : size \in {<<6, 6>>, <<4, 2>>, <<3, 0>>}}
    \cup {Shape("GRect", 1, 0, 3, 4)}
    \cup {Shape("GLine", 3, 4, w, h) : w \in {-3, 0, 2}, h \in {-2, 0, 3}}
    \cup {Shape("GLabel", 1, 3, 4, 3) @@ [ascent |-> 2]}
MCRectangles == [x : 0..2, y : 1..2, width : -1..3, height : -1..3]

\* Every kind of event; a mouse off the window; modifiers alone and together; a
\* character of one byte, a letter beyond, and the code for none; commands with what
\* a string cannot have as it is.
Happens(kind, more) == [kind |-> kind, source |-> <<n0, x>>, time |-> 5] @@ more
MCDown == {{}, {"SHIFT_DOWN"}, {"ALT_GRAPH_DOWN"}, {"BUTTON3_DOWN", "CTRL_DOWN"},
           DOMAIN ModifierCodes}
MCActionCommands == UNION {[1..n -> {a, n1, QuoteCh, Apostrophe, BackslashCh, NewlineCh}] : n \in 0..3}
MCHappenings ==
    {Happens(kind, [down |-> down, x |-> left, y |-> 3]) :
        kind \in KindsOf(MOUSE_EVENT), down \in MCDown, left \in {-2, 0, 4}}
    \cup {Happens(kind, [down |-> down, keyChar |-> char, keyCode |-> 9]) :
        kind \in KindsOf(KEY_EVENT), down \in MCDown, char \in {a, 228, 8364, 65535}}
    \cup {Happens("actionPerformed", [command |-> text]) : text \in MCActionCommands}
    \cup {Happens(kind, <<>>) : kind \in {"timerTicked", "windowClosed", "windowResized"}}
MCEventMasks ==
    {EventTypes[kind] : kind \in DOMAIN EventTypes}
    \cup {ANY_EVENT, CLICK_EVENT, WINDOW_EVENT, ACTION_EVENT, KEY_EVENT, TIMER_EVENT,
          KEY_EVENT \cup MOUSE_EVENT, TIMER_EVENT \cup CLICK_EVENT}
MCCommands == {<<a>>, <<n1, x>>}
MCQuit == <<q>>
===============================================================================
