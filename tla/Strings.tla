------------------------------- MODULE Strings -------------------------------
(***************************************************************************)
(* The functions of strlib.c that files, options and console input use.    *)
(*                                                                         *)
(* A string is a sequence of characters without the NUL at its end; a      *)
(* character is its code, negative beyond 127 as where char is signed.     *)
(* Places in a string are counted from 0, as in C.                         *)
(***************************************************************************)
EXTENDS Integers, SequencesExt

NewlineCh == 10
ReturnCh == 13
SpaceCh == 32
QuoteCh == 34
Apostrophe == 39
StarCh == 42
PlusCh == 43
HyphenCh == 45
DotCh == 46
SlashCh == 47
ColonCh == 58
SemicolonCh == 59
QuestionCh == 63
OpenBracket == 91
BackslashCh == 92
CloseBracket == 93
CaretCh == 94
BarCh == 124
TildeCh == 126

\* A string literal; Ascii are the characters from the space to ~, with a tab for
\* the backquote.
Ascii == " !\"#$%&'()*+,-./0123456789:;<=>?@ABCDEFGHIJKLMNOPQRSTUVWXYZ[\\]^_\tabcdefghijklmnopqrstuvwxyz{|}~"
CodeOf(ch) == 31 + CHOOSE n \in 1..95 : SubSeq(Ascii, n, n) = ch
Text(literal) == [i \in 1..Len(literal) |-> CodeOf(SubSeq(literal, i, i))]

\* error(): the call is left by an exception.  No character has this code.
Failed == <<1000>>
NoPlace == -1

\* s[i], and the NUL after the last character.
At(s, i) == IF i \in 0..Len(s) - 1 THEN s[i + 1] ELSE 0
Places(s) == 0..Len(s) - 1

isspace(ch) == ch \in 9..13 \cup {SpaceCh}
isdigit(ch) == ch \in 48..57
isalpha(ch) == ch \in 65..90 \cup 97..122
tolower(ch) == IF ch \in 65..90 THEN ch + 32 ELSE ch

toupper(ch) == IF ch \in 97..122 THEN ch - 32 ELSE ch

concat(s1, s2) == s1 \o s2
charAt(s, i) == IF i < 0 \/ i > Len(s) THEN Failed ELSE At(s, i)
charToString(ch) == <<ch>>
stringLength(s) == Len(s)
copyString(s) == [i \in DOMAIN s |-> s[i]]
stringEqual(s1, s2) == s1 = s2

substring(s, p1, p2) ==
    LET from == Max({p1, 0})  to == Min({p2, Len(s) - 1})
    IN SubSeq(s, from + 1, to + 1)

\* strcmp compares characters as unsigned.
stringCompare(s1, s2) ==
    LET differ == {i \in 0..Len(s1) : At(s1, i) # At(s2, i)}
    IN IF differ = {} THEN 0
       ELSE IF At(s1, Min(differ)) % 256 < At(s2, Min(differ)) % 256 THEN -1 ELSE 1

stringEqualIgnoreCase(s1, s2) ==
    /\ Len(s1) = Len(s2)
    /\ \A i \in Places(s1) : tolower(At(s1, i)) = tolower(At(s2, i))
toLowerCase(s) == [i \in DOMAIN s |-> tolower(s[i])]
toUpperCase(s) == [i \in DOMAIN s |-> toupper(s[i])]

startsWith(s1, s2) == IsPrefix(s2, s1)
endsWith(s1, s2) == IsSuffix(s2, s1)

\* strstr and the loop of findLastString.
Occurrences(str, text) ==
    {i \in 0..Len(text) - Len(str) : SubSeq(text, i + 1, i + Len(str)) = str}
FirstOf(places) == IF places = {} THEN NoPlace ELSE Min(places)
LastOf(places) == IF places = {} THEN NoPlace ELSE Max(places)
findString(str, text, start) == FirstOf({i \in Occurrences(str, text) : i >= start})
findChar(ch, text, start) == findString(<<ch>>, text, start)
findLastString(str, text) == LastOf(Occurrences(str, text))
findLastChar(ch, text) == findLastString(<<ch>>, text)

\* An array of strings is a sequence, without the NULL at its end.
stringArrayLength(array) == Len(array)
searchStringArray(str, array) ==
    FirstOf({i \in 0..Len(array) - 1 : array[i + 1] = str})

\* The pieces of s between characters of separators.
CutAt(s, separators) ==
    LET cuts == SelectSeq([n \in 1..Len(s) + 1 |-> n - 1],
                          LAMBDA i : At(s, i) \in separators \cup {0})
    IN [n \in DOMAIN cuts |->
            substring(s, IF n = 1 THEN 0 ELSE cuts[n - 1] + 1, cuts[n] - 1)]

trim(str) ==
    LET kept == {i \in Places(str) : ~isspace(At(str, i))}
    IN IF kept = {} THEN <<>> ELSE substring(str, Min(kept), Max(kept))

------------------------------------------------------------------------------
\* What quoteString writes for a character, and the room it counts for it.
Escapes == [ch \in {7, 8, 9, 10, 11, 12, 13, QuoteCh, BackslashCh} |->
    CASE ch = 7 -> 97 [] ch = 8 -> 98 [] ch = 9 -> 116 [] ch = 10 -> 110
      [] ch = 11 -> 118 [] ch = 12 -> 102 [] ch = 13 -> 114 [] OTHER -> ch]
OctalDigits(n) == <<48 + ((n \div 64) % 8), 48 + ((n \div 8) % 8), 48 + (n % 8)>>

\* printf makes an int of 32 bits of a negative character and writes all of its
\* digits, 37777777..., and a NUL; what follows is written over all but three.
Octal(ch) == IF ch < 0 THEN <<51, 55, 55>> ELSE OctalDigits(ch)
IsOctal(ch) == ch \notin DOMAIN Escapes /\ (ch < 32 \/ ch >= 127)
QuotedChar(ch) ==
    IF ch \in DOMAIN Escapes THEN <<BackslashCh, Escapes[ch]>>
    ELSE IF IsOctal(ch) THEN <<BackslashCh>> \o Octal(ch) ELSE <<ch>>
QuotedRoom(ch) == IF ch \in DOMAIN Escapes THEN 2 ELSE IF IsOctal(ch) THEN 4 ELSE 1
Written(ch) == IF ch < 0 THEN 13 ELSE IF IsOctal(ch) THEN 5 ELSE QuotedRoom(ch)

\* The string, the room it was given, and how far it was written, a NUL included.
quoteString(str) ==
    LET Escaped(s) == FlattenSeq([i \in DOMAIN s |-> QuotedChar(s[i])])
        text == <<QuoteCh>> \o Escaped(str) \o <<QuoteCh>>
    IN [text |-> text,
        room |-> FoldLeft(LAMBDA n, ch : n + QuotedRoom(ch), 2, str) + 1,
        written |-> Max({Len(text) + 1} \cup {1 + Len(Escaped(SubSeq(str, 1, i - 1))) + Written(str[i]) :
                                                  i \in DOMAIN str})]

\* quotedString of platform.c writes a quote in octal, and negative characters as
\* the bytes they are.
quotedString(str) ==
    LET Sent(ch) == IF ch = QuoteCh \/ IsOctal(ch) THEN <<BackslashCh>> \o OctalDigits(ch % 256)
                    ELSE QuotedChar(ch)
    IN <<QuoteCh>> \o FlattenSeq([i \in DOMAIN str |-> Sent(str[i])]) \o <<QuoteCh>>

\* (char) n
ToChar(n) == IF n % 256 >= 128 THEN (n % 256) - 256 ELSE n % 256

\* getStringValue of tokenscanner.c, a character at a time: the base of a number
\* after a backslash, and the number.  It has as many digits as there are.
Unescaped(ch) ==
    IF \E c \in DOMAIN Escapes : Escapes[c] = ch /\ c \notin {QuoteCh, BackslashCh}
    THEN CHOOSE c \in DOMAIN Escapes : Escapes[c] = ch /\ c \notin {QuoteCh, BackslashCh}
    ELSE ch
DigitOf(ch) ==
    CASE isdigit(ch) -> ch - 48
      [] isalpha(ch) -> tolower(ch) - 97 + 10
      [] OTHER -> 1000
Begun(s, ch) ==
    IF ch = BackslashCh THEN [s EXCEPT !.mode = "escape"] ELSE [s EXCEPT !.text = Append(@, ch)]
WithNumber(s) == [s EXCEPT !.text = Append(@, ToChar(s.number)), !.mode = "plain"]
ReadValue(s, ch) ==
    LET base == IF s.mode = "hexadecimal" THEN 16 ELSE 8
        Digits(r) == IF DigitOf(ch) < base THEN [r EXCEPT !.number = base * @ + DigitOf(ch)]
                     ELSE Begun(WithNumber(r), ch)
    IN CASE s.mode = "plain" -> Begun(s, ch)
         [] s.mode = "escape" /\ isdigit(ch) -> Digits([s EXCEPT !.mode = "octal", !.number = 0])
         [] s.mode = "escape" /\ ch = 120 -> [s EXCEPT !.mode = "hexadecimal", !.number = 0]
         [] s.mode = "escape" /\ ~isdigit(ch) /\ ch # 120 ->
                [s EXCEPT !.mode = "plain", !.text = Append(@, Unescaped(ch))]
         [] OTHER -> Digits(s)

\* A NUL ends the value.
getStringValue(token) ==
    LET quoted == Len(token) > 1 /\ token[1] \in {QuoteCh, Apostrophe}
        inside == IF quoted THEN SubSeq(token, 2, Len(token) - 1) ELSE token
        s == FoldLeft(ReadValue, [mode |-> "plain", text |-> <<>>, number |-> 0], inside)
        value == IF s.mode \in {"octal", "hexadecimal"} THEN WithNumber(s).text ELSE s.text
    IN SubSeq(value, 1, SelectInSeq(value \o <<0>>, LAMBDA ch : ch = 0) - 1)

\* "&amp;", "&lt;", "&gt;"
HTMLChar(ch) ==
    CASE ch = 38 -> <<38, 97, 109, 112, 59>>
      [] ch = 60 -> <<38, 108, 116, 59>>
      [] ch = 62 -> <<38, 103, 116, 59>>
      [] OTHER -> <<ch>>
quoteHTML(str) == FlattenSeq([i \in DOMAIN str |-> HTMLChar(str[i])])

------------------------------------------------------------------------------
\* sscanf(s, " %d %c", ...): how many conversions succeed, the number, and the
\* place of its first digit.
NumberOf(digits) == FoldLeft(LAMBDA n, ch : 10 * n + ch - 48, 0, digits)
FirstWord(s) == FirstOf({i \in Places(s) : ~isspace(At(s, i))})
IsSign(ch) == ch \in {PlusCh, HyphenCh}
AfterSign(s, i) == IF IsSign(At(s, i)) THEN i + 1 ELSE i
DigitsEnd(s, i) == IF i >= Len(s) THEN i ELSE Min({j \in i..Len(s) : ~isdigit(At(s, j))})
Signed(s, i, n) == IF At(s, i) = HyphenCh THEN -n ELSE n
ConversionCount(s, end) == IF \E i \in end..Len(s) - 1 : ~isspace(At(s, i)) THEN 2 ELSE 1

IntegerIn(s, start, from, end) ==
    IF start = NoPlace \/ end = from THEN [count |-> 0, value |-> 0, from |-> 0]
    ELSE [count |-> ConversionCount(s, end),
          value |-> Signed(s, start, NumberOf(SubSeq(s, from + 1, end))), from |-> from]
IntegerFrom(s, start, from) == IntegerIn(s, start, from, DigitsEnd(s, from))
IntegerAt(s, start) == IntegerFrom(s, start, AfterSign(s, start))
ScanInteger(s) == IntegerAt(s, FirstWord(s))
OnlyOne(scan) == IF scan.count = 1 THEN <<scan.value>> ELSE <<>>
stringToInteger(s) == OnlyOne(ScanInteger(s))

\* sprintf with %d.
Digits(n) ==
    LET digits[m \in Nat] == (IF m < 10 THEN <<>> ELSE digits[m \div 10]) \o <<48 + (m % 10)>>
    IN digits[n]
integerToString(n) == IF n < 0 THEN <<HyphenCh>> \o Digits(-n) ELSE Digits(n)

------------------------------------------------------------------------------
\* A real is a decimal number, num * 10^exp, where num has no zeros at its end.
Real(num, exp) ==
    LET zeros == Max({n \in 0..9 : num % 10^n = 0})
    IN IF num = 0 THEN [num |-> 0, exp |-> 0]
       ELSE [num |-> IF num < 0 THEN -(-num \div 10^zeros) ELSE num \div 10^zeros, exp |-> exp + zeros]
Times(real, n) == Real(n * real.num, real.exp)

\* sscanf(s, " %lf %c", ...): how many conversions succeed, the number, and the
\* place behind it.  Infinities, NaN and hexadecimal numbers are left out.
RealIn(s, start, from, point, mantissa, expFrom, end) ==
    LET fraction == SubSeq(s, point + 2, mantissa)
        digits == SubSeq(s, from + 1, point) \o fraction
        exp == Signed(s, mantissa + 1, NumberOf(SubSeq(s, expFrom + 1, end)))
    IN IF start = NoPlace \/ digits = <<>> \/ (expFrom > mantissa /\ end = expFrom)
       THEN [count |-> 0, value |-> Real(0, 0), end |-> 0]
       ELSE [count |-> ConversionCount(s, end), end |-> end,
             value |-> Real(Signed(s, start, NumberOf(digits)), exp - Len(fraction))]
\* The exponent, if there is one, is behind an E.
RealWith(s, start, from, point, mantissa, expFrom) ==
    RealIn(s, start, from, point, mantissa, expFrom,
           IF expFrom > mantissa THEN DigitsEnd(s, expFrom) ELSE mantissa)
RealScaled(s, start, from, point, mantissa) ==
    RealWith(s, start, from, point, mantissa,
             IF tolower(At(s, mantissa)) = 101 THEN AfterSign(s, mantissa + 1) ELSE mantissa)
RealPointed(s, start, from, point) ==
    RealScaled(s, start, from, point, IF At(s, point) = DotCh THEN DigitsEnd(s, point + 1) ELSE point)
RealFrom(s, start, from) == RealPointed(s, start, from, DigitsEnd(s, from))
RealAt(s, start) == RealFrom(s, start, AfterSign(s, start))
ScanReal(s) == RealAt(s, FirstWord(s))
stringToReal(s) == OnlyOne(ScanReal(s))

\* sprintf with %G, of a real of at most six digits, which it does not round, by a
\* C library that writes exponents with pad digits or more.
PrintedG(d, pad) ==
    LET digits == Digits(IF d.num < 0 THEN -d.num ELSE d.num)
        first == Len(digits) - 1 + d.exp        \* the exponent of the first digit
        Zeros(n) == [i \in 1..n |-> 48]
        exponent == Digits(IF first < 0 THEN -first ELSE first)
        WithPoint(n) == substring(digits, 0, n - 1)
                        \o (IF n < Len(digits) THEN <<DotCh>> \o SubSeq(digits, n + 1, Len(digits))
                            ELSE <<>>)
    IN (IF d.num < 0 THEN <<HyphenCh>> ELSE <<>>)
       \o (IF first < -4 \/ first >= 6
           THEN WithPoint(1) \o <<69, IF first < 0 THEN HyphenCh ELSE PlusCh>>
                \o Zeros(pad - Len(exponent)) \o exponent
           ELSE IF first < 0 THEN <<48, DotCh>> \o Zeros(-first - 1) \o digits
           ELSE WithPoint(first + 1) \o Zeros(d.exp))

\* A third digit of an exponent is dropped if it is zero.
WithoutZero(buffer) ==
    IF Len(buffer) > 5 /\ At(buffer, Len(buffer) - 5) = 69 /\ At(buffer, Len(buffer) - 3) = 48
    THEN RemoveAt(buffer, Len(buffer) - 2) ELSE buffer
realToString(d, pad) == WithoutZero(PrintedG(d, pad))
==============================================================================
