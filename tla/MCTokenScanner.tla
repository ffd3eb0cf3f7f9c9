-------------------------- MODULE MCTokenScanner ----------------------------
(***************************************************************************)
(* Every text of a few characters over the alphabet that matters to one    *)
(* part of the scanner, with the scanner set up for that part: numbers;    *)
(* comments and white space; operators; strings; nothing at all.           *)
(***************************************************************************)
EXTENDS TokenScanner

ScannerSetups == <<
    [flags |-> {"scanNumbers", "scanStrings"}, operators |-> {<<"+">>},
     wordChars |-> {}, alphabet |-> {"1", "e", ".", "+"}, length |-> 4],
    [flags |-> {"ignoreComments", "ignoreWhitespace"}, operators |-> {},
     wordChars |-> {"_"}, alphabet |-> {"/", "*", "\n"}, length |-> 4],
    [flags |-> Flag, operators |-> {<<"+", "=">>, <<"+", "=", "=">>},
     wordChars |-> {"_"}, alphabet |-> {"+", "=", "_"}, length |-> 4],
    [flags |-> {"scanStrings"}, operators |-> {}, wordChars |-> {},
     alphabet |-> {"\"", "\\", "a"}, length |-> 5],
    [flags |-> {"ignoreWhitespace"}, operators |-> {<<" ">>}, wordChars |-> {},
     alphabet |-> {"a", " ", "\n"}, length |-> 3],
    [flags |-> {}, operators |-> {}, wordChars |-> {},
     alphabet |-> {"1", "/", "\"", " "}, length |-> 2]>>

TwoTexts == 2
OneRepeat == 1
=============================================================================
