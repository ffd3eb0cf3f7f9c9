------------------------------- MODULE UnitTests ------------------------------
(***************************************************************************)
(* What the unit tests of the repository ask of the functions on text,     *)
(* names, options and points: strlib.c, filelib.c, options.c, gtypes.c.    *)
(*                                                                         *)
(* A test is a pair: what a call returns, and what the test expects.       *)
(* testError expects Failed.  Left out are the tests that look at files.   *)
(***************************************************************************)
EXTENDS FileNames, CommandLine, Geometry

\* A test on texts: an operator with one or two texts, and the text expected.
Each(Op(_), table) == [n \in DOMAIN table |-> <<Op(Text(table[n][1])), Text(table[n][2])>>]
Tests2(Op(_, _), table) ==
    [n \in DOMAIN table |-> <<Op(Text(table[n][1]), Text(table[n][2])), table[n][3]>>]
AsText(table) == [n \in DOMAIN table |-> [table[n] EXCEPT ![3] = Text(@)]]

------------------------------------------------------------------------------
(* strlib.c *)
abcde == Text("abcde")
testBasicOperations ==
    Tests2(concat, AsText(<<<<"hello", "world", "helloworld">>, <<"hello", "", "hello">>,
                            <<"", "world", "world">>>>))
    \o <<<<charAt(abcde, 0), CodeOf("a")>>, <<charAt(abcde, 4), CodeOf("e")>>, <<charAt(abcde, 5), 0>>,
         <<charAt(abcde, 6), Failed>>,
         <<substring(abcde, 0, 1), Text("ab")>>, <<substring(abcde, 0, 4), abcde>>,
         <<substring(abcde, -1, 5), abcde>>, <<substring(abcde, 3, 2), <<>>>>,
         <<charToString(CodeOf("x")), Text("x")>>,
         <<stringLength(abcde), 5>>, <<stringLength(<<>>), 0>>, <<copyString(abcde), abcde>>>>

testComparison ==
    Tests2(stringEqual, <<<<"cat", "dog", FALSE>>, <<"abcde", "abcde", TRUE>>, <<"ABCDE", "abcde", FALSE>>,
                          <<"abc", "abcde", FALSE>>, <<"abcde", "abc", FALSE>>, <<"", "", TRUE>>>>)
    \o Tests2(stringEqualIgnoreCase,
              <<<<"cat", "dog", FALSE>>, <<"abcde", "abcde", TRUE>>, <<"ABCDE", "abcde", TRUE>>,
                <<"abc", "abcde", FALSE>>, <<"abcde", "abc", FALSE>>, <<"", "", TRUE>>>>)
    \o Tests2(stringCompare, <<<<"cat", "cat", 0>>, <<"cat", "dog", -1>>, <<"dog", "cat", 1>>,
                               <<"", "xxx", -1>>, <<"xxx", "", 1>>>>)
    \o Tests2(startsWith, <<<<"start", "", TRUE>>, <<"start", "star", TRUE>>, <<"start", "start", TRUE>>,
                            <<"start", "startx", FALSE>>>>)
    \o Tests2(endsWith, <<<<"start", "", TRUE>>, <<"start", "tart", TRUE>>, <<"start", "start", TRUE>>,
                          <<"start", "xstart", FALSE>>>>)

primaryColors == <<Text("red"), Text("green"), Text("blue")>>
testSearch ==
    LET abc == Text("abcabc")
        abra == Text("abracadabra")
        Found(name) == searchStringArray(Text(name), primaryColors)
    IN <<<<findChar(CodeOf("c"), abc, 0), 2>>, <<findChar(CodeOf("c"), abc, 3), 5>>,
         <<findChar(CodeOf("a"), abc, 5), -1>>,
         <<findString(Text("cad"), abra, 0), 4>>, <<findString(Text("cad"), abra, 6), -1>>,
         <<findString(Text("abr"), abra, 6), 7>>,
         <<findLastChar(CodeOf("c"), abc), 5>>, <<findLastChar(CodeOf("d"), abc), -1>>,
         <<findLastString(Text("abr"), abra), 7>>, <<findLastString(Text("xxx"), abra), -1>>,
         <<stringArrayLength(primaryColors), 3>>,
         <<Found("red"), 0>>, <<Found("green"), 1>>, <<Found("blue"), 2>>, <<Found("yellow"), -1>>>>

testConversion ==
    Each(toLowerCase, <<<<"ABC", "abc">>, <<"#A1", "#a1">>>>)
    \o Each(toUpperCase, <<<<"abc", "ABC">>, <<"#a1", "#A1">>>>)
    \o <<<<integerToString(0), Text("0")>>, <<integerToString(1234567), Text("1234567")>>,
         <<integerToString(-17), Text("-17")>>,
         <<stringToInteger(Text("1234")), <<1234>>>>, <<stringToInteger(Text("-42")), <<-42>>>>,
         <<stringToInteger(Text("X")), <<>>>>,
         <<realToString(Real(0, 0), 2), Text("0")>>, <<realToString(Real(31416, -4), 2), Text("3.1416")>>,
         <<realToString(Real(-23, -1), 2), Text("-2.3")>>,
         <<realToString(Real(175, 13), 2), Text("1.75E+15")>>,
         <<stringToReal(Text("1234")), <<Real(1234, 0)>>>>, <<stringToReal(Text("-4.2")), <<Real(-42, -1)>>>>,
         <<stringToReal(Text("1.28E-15")), <<Real(128, -17)>>>>, <<stringToReal(Text("X")), <<>>>>>>

\* "ab\t\"\5cd" has a tab and the character 5.
testQuoting ==
    LET Quote(str) == quoteString(str).text
    IN <<<<Quote(abcde), Text("\"abcde\"")>>,
         <<Quote(Text("ab") \o <<9>> \o Text("\"") \o <<5>> \o Text("cd")), Text("\"ab\\t\\\"\\005cd\"")>>>>
       \o Each(quoteHTML, <<<<"a < 4 && b > 0", "a &lt; 4 &amp;&amp; b &gt; 0">>>>)
       \o Each(trim, <<<<"abcde", "abcde">>, <<"    abcde", "abcde">>, <<"abcde    ", "abcde">>, <<"", "">>>>)
       \o <<<<trim(<<9>> \o Text("abcde  ")), abcde>>>>

testStrlibModule ==
    testBasicOperations \o testComparison \o testSearch \o testConversion \o testQuoting

------------------------------------------------------------------------------
(* filelib.c *)
testNames ==
    Each(getRoot, <<<<"filename.ext", "filename">>, <<"abc.def.ghi", "abc.def">>,
                    <<"/a/b/c/filename.ext", "/a/b/c/filename">>,
                    <<"A:a\\b\\c\\filename.ext", "A:a\\b\\c\\filename">>>>)
    \o Each(getExtension, <<<<"filename.ext", ".ext">>, <<"abc.def.ghi", ".ghi">>,
                            <<"/a/b/c/filename.ext", ".ext">>, <<"A:a\\b\\c\\filename.ext", ".ext">>>>)
    \o Each(getHead, <<<<"/a/b/c/filename.ext", "/a/b/c">>, <<"A:a\\b\\c\\filename.ext", "A:a\\b\\c">>,
                       <<"a/b", "a">>, <<"a", "">>, <<"/a", "/">>, <<"/", "/">>>>)
    \o Each(getTail, <<<<"/a/b/c/filename.ext", "filename.ext">>,
                       <<"A:a\\b\\c\\filename.ext", "filename.ext">>,
                       <<"a/b", "b">>, <<"a", "a">>, <<"/a", "a">>, <<"/", "">>>>)
    \o Tests2(defaultExtension, AsText(<<<<"filename", ".ext", "filename.ext">>,
                  <<"filename.old", ".new", "filename.old">>, <<"filename.old", "*.new", "filename.new">>,
                  <<"a.b.c", "*.x", "a.b.x">>>>))
    \o Each(expandPathname, <<<<"a/b", "a/b">>, <<"a\\b", "a/b">>>>)

testMatchFilenamePattern ==
    Tests2(matchFilenamePattern,
        <<<<"abc", "abc", "yes">>, <<"xxx", "abc", "no">>, <<"ab", "abc", "no">>, <<"abcd", "abc", "no">>,
          <<"axc", "a?c", "yes">>, <<"ac", "a?c", "no">>, <<"axxc", "a?c", "no">>, <<"axxc", "a??c", "yes">>,
          <<"axc", "a*c", "yes">>, <<"ac", "a*c", "yes">>, <<"axxc", "a*c", "yes">>,
          <<"axxcd", "a*c", "no">>, <<"axxbyyc", "a*b*c", "yes">>,
          <<"abc", "[abc]bc", "yes">>, <<"bbc", "[abc]bc", "yes">>, <<"xbc", "[abc]bc", "no">>,
          <<"abc", "[^abc]bc", "no">>, <<"bbc", "[^abc]bc", "no">>, <<"xbc", "[^abc]bc", "yes">>,
          <<"abc", "[a-c]bc", "yes">>, <<"bbc", "[a-c]bc", "yes">>, <<"xbc", "[a-c]bc", "no">>,
          <<"abc", "[^a-c]bc", "no">>, <<"bbc", "[^a-c]bc", "no">>, <<"xbc", "[^a-c]bc", "yes">>>>)

------------------------------------------------------------------------------
(* options.c *)
OPTIONS ==
    <<Text("-count <int>"), Text("-size <double>"), Text("-letter <char>"), Text("-title <string>"),
      Text("-units <units>"), Text("-color <color>"), Text("-trace on|off"), Text("-skip <cumulative>"),
      Text("-verbose")>>

\* A line is cut into arguments, which are parsed; a test asks for an option then.
ParsedLine(line) == parseOptions(parseShellArgs(Text(line)), OPTIONS)
AskedFor(parsed, how, key) ==
    CASE how = "refused" -> parsed.failed
      [] how = "text" -> getOption(parsed.options, key, Text("none"))
      [] how = "int" -> getIntOption(parsed.options, key, 0)
      [] how = "real" -> getDoubleOption(parsed.options, key, Real(0, 0))
      [] how = "bool" -> getBoolOption(parsed.options, key, FALSE)
      [] how = "points" -> getUnitsOption(parsed.options, key, Real(0, 0))
      [] how = "args" -> getArgList(parsed)
Everything == "-count 3 -size 1.5 -trace on -v a0 a1"
OptionTests ==
    <<<<Everything, "int", "-count", <<3>>>>, <<Everything, "real", "-size", <<Real(15, -1)>>>>,
      <<Everything, "text", "-title", Text("none")>>, <<Everything, "text", "-trace", Text("on")>>,
      <<Everything, "bool", "-verbose", TRUE>>, <<Everything, "args", "", <<Text("a0"), Text("a1")>>>>,
      <<"-letter x", "text", "-letter", Text("x")>>,
      <<"-size", "refused", "", TRUE>>, <<"-size x", "refused", "", TRUE>>,
      <<"-trace true", "refused", "", TRUE>>, <<"-let xyz", "refused", "", TRUE>>,
      <<"-title 'Harry Potter'", "text", "-title", Text("Harry Potter")>>,
      <<"-units 1", "points", "-units", Length(Real(1, 0), 1)>>,
      <<"-units 1in", "points", "-units", Length(Real(72, 0), 1)>>,
      <<"-skip a -skip b -skip c", "text", "-skip", Text("a+b+c")>>>>
testOptionsModule ==
    [n \in DOMAIN OptionTests |->
        <<AskedFor(ParsedLine(OptionTests[n][1]), OptionTests[n][2], Text(OptionTests[n][3])), OptionTests[n][4]>>]

------------------------------------------------------------------------------
(* gtypes.c *)
testGTypesModule ==
    LET origin == createGPoint(0, 0)
        pt == createGPoint(2, 3)
        dim == createGDimension(3, 1)
        r == createGRectangle(1, 2, 3, 4)
    IN <<<<origin.x, 0>>, <<origin.y, 0>>, <<pt.x, 2>>, <<pt.y, 3>>, <<dim.width, 3>>, <<dim.height, 1>>,
         <<r.x, 1>>, <<r.y, 2>>, <<r.width, 3>>, <<r.height, 4>>,
         <<isEmptyGRectangle(r), FALSE>>, <<containsGRectangle(r, origin), FALSE>>,
         <<containsGRectangle(r, pt), TRUE>>>>
==============================================================================
