------------------------------ MODULE FileNames ------------------------------
(***************************************************************************)
(* The functions of filelib.c on the names of files, none of which looks   *)
(* at a file; and expandPathname of unixfile.c.                            *)
(***************************************************************************)
EXTENDS Strings

CONSTANT Home       \* external: the home directory of each user; <<>> is the
                    \* user who runs the program

Separators == {SlashCh, BackslashCh}

\* The loops that look for a dot after the last separator, and for a separator.
dotpos(filename) ==
    LastOf({i \in Places(filename) :
                /\ At(filename, i) = DotCh
                /\ \A j \in i + 1..Len(filename) - 1 : At(filename, j) \notin Separators})
slashpos(pathname) == LastOf({i \in Places(pathname) : At(pathname, i) \in Separators})

getRoot(filename) ==
    IF dotpos(filename) = NoPlace THEN filename
    ELSE substring(filename, 0, dotpos(filename) - 1)

getExtension(filename) ==
    IF dotpos(filename) = NoPlace THEN <<>>
    ELSE SubSeq(filename, dotpos(filename) + 1, Len(filename))

getHead(pathname) ==
    CASE slashpos(pathname) = NoPlace -> <<>>
      [] slashpos(pathname) = 0 -> substring(pathname, 0, 0)
      [] OTHER -> substring(pathname, 0, slashpos(pathname) - 1)

getTail(pathname) == SubSeq(pathname, slashpos(pathname) + 2, Len(pathname))

defaultExtension(filename, ext) ==
    LET star == At(ext, 0) = StarCh
        newext == IF star THEN Tail(ext) ELSE ext
        end == IF dotpos(filename) = NoPlace THEN Len(filename) ELSE dotpos(filename)
    IN IF star \/ dotpos(filename) = NoPlace
       THEN substring(filename, 0, end - 1) \o newext ELSE filename

isAbsolutePath(pathname) ==
    \/ At(pathname, 0) \in {SlashCh, TildeCh}
    \/ Len(pathname) > 1 /\ isalpha(At(pathname, 0)) /\ At(pathname, 1) = ColonCh

\* A user whom the system does not know is an error.
expandPathname(filename) ==
    LET user == Min({i \in 0..Len(filename) : At(filename, i) \in Separators \cup {0}})
        name == substring(filename, 1, user - 1)
        expanded == IF At(filename, 0) # TildeCh THEN filename
                    ELSE Home[name] \o SubSeq(filename, user + 1, Len(filename))
    IN IF At(filename, 0) = TildeCh /\ name \notin DOMAIN Home THEN Failed
       ELSE [i \in DOMAIN expanded |-> IF expanded[i] = BackslashCh THEN SlashCh ELSE expanded[i]]

------------------------------------------------------------------------------
\* The part of a pattern between brackets, from place px: where it ends, and
\* whether it has sch.
RECURSIVE InBrackets(_, _, _, _)
InBrackets(pattern, px, sch, match) ==
    IF px >= Len(pattern) \/ At(pattern, px) = CloseBracket
    THEN [px |-> px, match |-> match]
    ELSE IF px + 2 < Len(pattern) /\ At(pattern, px + 1) = HyphenCh
    THEN InBrackets(pattern, px + 3, sch,
                    match \/ sch \in At(pattern, px)..At(pattern, px + 2))
    ELSE InBrackets(pattern, px + 1, sch, match \/ sch = At(pattern, px))

\* "yes", "no", or "error" for a bracket that is not closed.
RECURSIVE recursiveMatch(_, _, _, _)
recursiveMatch(str, sx, pattern, px) ==
    LET pch == At(pattern, px)
        sch == At(str, sx)
        tails == {i \in sx..Len(str) : recursiveMatch(str, i, pattern, px + 1) # "no"}
        invert == At(pattern, px + 1) = CaretCh
        set == InBrackets(pattern, IF invert THEN px + 2 ELSE px + 1, sch, FALSE)
    IN CASE px = Len(pattern) -> IF sx = Len(str) THEN "yes" ELSE "no"
         [] px < Len(pattern) /\ pch = StarCh ->
                IF tails = {} THEN "no" ELSE recursiveMatch(str, Min(tails), pattern, px + 1)
         [] px < Len(pattern) /\ pch # StarCh /\ sx = Len(str) -> "no"
         [] px < Len(pattern) /\ sx < Len(str) /\ pch = OpenBracket ->
                IF set.px = Len(pattern) THEN "error"
                ELSE IF set.match = invert THEN "no"
                ELSE recursiveMatch(str, sx + 1, pattern, set.px + 1)
         [] OTHER ->
                IF pch \in {QuestionCh, sch} THEN recursiveMatch(str, sx + 1, pattern, px + 1)
                ELSE "no"

matchFilenamePattern(filename, pattern) == recursiveMatch(filename, 0, pattern, 0)

------------------------------------------------------------------------------
\* mapPath: the names it hands to fn, in order.  A path is cut at its colons and
\* semicolons; localpath ends at its first cut by the time its length is asked.
mapPath(path, filename) ==
    LET entries == CutAt(path, {ColonCh, SemicolonCh})
        tried == SelectSeq(entries, LAMBDA e : e # <<>> \/ Len(entries[1]) = 1)
    IN IF path = <<>> \/ isAbsolutePath(filename) THEN <<expandPathname(filename)>>
       ELSE [n \in DOMAIN tried |-> expandPathname(tried[n] \o <<SlashCh>> \o filename)]
==============================================================================
