-------------------------------- MODULE Events --------------------------------
(***************************************************************************)
(* An event on its way from the user to the program: JavaBackEnd prints a  *)
(* line with what it knows of the event, if the program has asked for such *)
(* events; parseEvent of platform.c takes the line apart; and the program  *)
(* asks the event with the functions of gevents.c.  FrontEnd and BackEnd   *)
(* have when this happens, and in which order.                             *)
(*                                                                         *)
(* A number that is used bit by bit is the set of its bits.  A line is the *)
(* sequence of its tokens, except that what a program can put between      *)
(* quotes is a text.                                                       *)
(***************************************************************************)
EXTENDS Strings

ACTION_EVENT == {4}
KEY_EVENT == {5}
TIMER_EVENT == {6}
WINDOW_EVENT == {7}
MOUSE_EVENT == {8}
CLICK_EVENT == {9}
ANY_EVENT == 4..9
EVENT_SUBTYPE_MASK == 0..3

EventTypes == [
    windowClosed |-> WINDOW_EVENT \cup {0}, windowResized |-> WINDOW_EVENT \cup {1},
    actionPerformed |-> ACTION_EVENT \cup {0},
    mouseClicked |-> MOUSE_EVENT \cup {0}, mousePressed |-> MOUSE_EVENT \cup {1},
    mouseReleased |-> MOUSE_EVENT \cup {0, 1}, mouseMoved |-> MOUSE_EVENT \cup {2},
    mouseDragged |-> MOUSE_EVENT \cup {0, 2},
    keyPressed |-> KEY_EVENT \cup {0}, keyReleased |-> KEY_EVENT \cup {1},
    keyTyped |-> KEY_EVENT \cup {0, 1},
    timerTicked |-> TIMER_EVENT \cup {0}]
KindsOf(class) == {kind \in DOMAIN EventTypes : class \subseteq EventTypes[kind]}

ModifierCodes == [
    SHIFT_DOWN |-> 0, CTRL_DOWN |-> 1, META_DOWN |-> 2, ALT_DOWN |-> 3, ALT_GRAPH_DOWN |-> 4,
    BUTTON1_DOWN |-> 5, BUTTON2_DOWN |-> 6, BUTTON3_DOWN |-> 7]

------------------------------------------------------------------------------
(* JavaBackEnd.java.  What happened is a record of its kind, its source, the *)
(* time, and what else there is to tell of it.                               *)

Mark(ch) == [kind |-> "mark", text |-> <<ch>>, value |-> 0]
StringToken(text) == [kind |-> "string", text |-> <<QuoteCh>> \o text \o <<QuoteCh>>, value |-> 0]
Numeral(n) == [kind |-> "number", text |-> <<>>, value |-> n]
EmptyToken == [kind |-> "none", text |-> <<>>, value |-> 0]
Unterminated == [kind |-> "unterminated", text |-> <<>>, value |-> 0]
OpenParen == Mark(40)
Comma == Mark(44)
CloseParen == Mark(41)

Printed(n) == IF n < 0 THEN <<Mark(HyphenCh), Numeral(-n)>> ELSE <<Numeral(n)>>

convertModifiers(down) == MapThenSumSet(LAMBDA m : 2 ^ ModifierCodes[m], down)

\* A text is printed between quotes as it is: the scanner ends it at the first
\* quote that is not escaped, after which no comma comes, or finds no end in the
\* line, which is an error.
InQuotes(text) ==
    LET escaped == FoldLeft(LAMBDA e, ch : Append(e, ch = BackslashCh /\ ~Last(e)), <<FALSE>>, text)
        ends == {i \in DOMAIN text : text[i] = QuoteCh /\ ~escaped[i]}
        broken == {i \in DOMAIN text : text[i] = NewlineCh}
    IN IF broken # {} \/ (ends = {} /\ Last(escaped)) THEN <<Unterminated>>
       ELSE IF ends = {} THEN <<StringToken(text)>>
       ELSE <<StringToken(SubSeq(text, 1, Min(ends) - 1)), Unterminated>>

\* The tests of eventMask; a window is closed whatever the program waits for.
Sends(h, mask) ==
    CASE h.kind = "mouseClicked" -> mask \cap (MOUSE_EVENT \cup CLICK_EVENT) # {}
      [] h.kind \in KindsOf(MOUSE_EVENT) \ {"mouseClicked"} -> mask \cap MOUSE_EVENT # {}
      [] h.kind \in KindsOf(KEY_EVENT) -> mask \in {KEY_EVENT, EventTypes[h.kind]}
      [] h.kind = "timerTicked" -> mask \cap TIMER_EVENT # {}
      [] h.kind = "actionPerformed" -> mask \cap ACTION_EVENT # {} /\ h.command # <<>>
      [] h.kind = "windowResized" -> mask \cap WINDOW_EVENT # {}
      [] h.kind = "windowClosed" -> TRUE

PrintedArguments(h) ==
    LET id == <<StringToken(h.source)>>
        time == Printed(h.time)
    IN CASE h.kind \in KindsOf(MOUSE_EVENT) ->
                <<id, time, Printed(convertModifiers(h.down)), Printed(h.x), Printed(h.y)>>
         [] h.kind \in KindsOf(KEY_EVENT) ->
                <<id, time, Printed(convertModifiers(h.down)), Printed(h.keyChar), Printed(h.keyCode)>>
         [] h.kind = "actionPerformed" -> <<id, InQuotes(h.command), time>>
         [] OTHER -> <<id, time>>

printEvent(h) ==
    LET args == PrintedArguments(h)
    IN FlattenSeq([n \in DOMAIN args |-> <<IF n = 1 THEN OpenParen ELSE Comma>> \o args[n]])
       \o <<CloseParen>>

------------------------------------------------------------------------------
(* platform.c: parseMouseEvent and the others.  s has the tokens left, the   *)
(* arguments so far, and whether no error was thrown.                        *)

NextToken(s) == IF s.rest = <<>> THEN EmptyToken ELSE Head(s.rest)
Past(s) == [s EXCEPT !.rest = IF s.rest = <<>> THEN <<>> ELSE Tail(s.rest)]

verifyToken(s, token) == [Past(s) EXCEPT !.ok = s.ok /\ NextToken(s) = token]
scanString(s) ==
    [Past(s) EXCEPT !.args = Append(@, getStringValue(NextToken(s).text)),
                    !.ok = s.ok /\ NextToken(s) # Unterminated]
\* scanInt and scanDouble
scanNumber(s) ==
    LET negative == NextToken(s) = Mark(HyphenCh)
        t == IF negative THEN Past(s) ELSE s
        number == NextToken(t).value
    IN [Past(t) EXCEPT !.args = Append(@, IF negative THEN -number ELSE number),
                       !.ok = s.ok /\ NextToken(t).kind = "number"]

Arguments(kind) ==
    CASE kind \in KindsOf(MOUSE_EVENT) \cup KindsOf(KEY_EVENT) ->
            <<"string", "number", "number", "number", "number">>
      [] kind = "actionPerformed" -> <<"string", "string", "number">>
      [] OTHER -> <<"string", "number">>

ScanArguments(kind, line) ==
    LET ScanNext(s, i) ==
            LET after == verifyToken(s, IF i = 1 THEN OpenParen ELSE Comma)
            IN IF ~after.ok THEN after
               ELSE IF Arguments(kind)[i] = "string" THEN scanString(after) ELSE scanNumber(after)
    IN verifyToken(FoldLeftDomain(ScanNext, [rest |-> line, args |-> <<>>, ok |-> TRUE],
                                  Arguments(kind)), CloseParen)

\* A block has the fields that are set, others are what the memory held.
newGMouseEvent(type, gw, x, y) == [eventType |-> type, gw |-> gw, x |-> x, y |-> y]
newGKeyEvent(type, gw, keyChar, keyCode) ==
    [eventType |-> type, gw |-> gw, keyChar |-> keyChar, keyCode |-> keyCode]
newGActionEvent(type, source, command) ==
    [eventType |-> type, source |-> source, actionCommand |-> command]
newGWindowEvent(type, gw) == [eventType |-> type, gw |-> gw]
newGTimerEvent(type, timer) == [eventType |-> type, timer |-> timer]

\* The tables have the object of every id (FrontEnd has those that do not).
EventOf(kind, args) ==
    LET type == EventTypes[kind]
        Timed(e, time) == e @@ [eventTime |-> time]
        Modified(e) == Timed(e, args[2]) @@ [modifiers |-> args[3]]
    IN CASE kind \in KindsOf(MOUSE_EVENT) ->
                Modified(newGMouseEvent(type, args[1], args[4], args[5]))
         [] kind \in KindsOf(KEY_EVENT) ->
                Modified(newGKeyEvent(type, args[1], args[4], args[5]))
         [] kind = "actionPerformed" -> Timed(newGActionEvent(type, args[1], args[2]), args[3])
         [] kind = "timerTicked" -> Timed(newGTimerEvent(type, args[1]), args[2])
         [] OTHER -> Timed(newGWindowEvent(type, args[1]), args[2])

------------------------------------------------------------------------------
(* gevents.c *)

getEventClass(e) == e.eventType \ EVENT_SUBTYPE_MASK

\* The classes of events that a function accepts; it is an error for others.
Accepts == [getGWindow |-> WINDOW_EVENT \cup MOUSE_EVENT \cup KEY_EVENT,
            getSource |-> ACTION_EVENT, getActionCommand |-> ACTION_EVENT,
            getX |-> MOUSE_EVENT, getY |-> MOUSE_EVENT,
            getKeyChar |-> KEY_EVENT, getKeyCode |-> KEY_EVENT, getGTimer |-> TIMER_EVENT]

\* getKeyChar returns a char.
Got(e, getter) ==
    CASE getter = "getGWindow" -> e.gw
      [] getter = "getSource" -> e.source
      [] getter = "getActionCommand" -> e.actionCommand
      [] getter = "getX" -> e.x
      [] getter = "getY" -> e.y
      [] getter = "getKeyChar" -> ToChar(e.keyChar)
      [] getter = "getKeyCode" -> e.keyCode
      [] getter = "getGTimer" -> e.timer
GotFrom(e) ==
    [getter \in {g \in DOMAIN Accepts : e.eventType \cap Accepts[g] # {}} |-> Got(e, getter)]

\* The copy of a command is freed if the type is the class, which it never is.
freeEvent(e) ==
    {"event"} \cup (IF e.eventType = ACTION_EVENT THEN {"actionCommand"} ELSE {})
===============================================================================
