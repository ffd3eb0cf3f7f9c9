------------------------------ MODULE FrontEnd ------------------------------
(***************************************************************************)
(* The C side of the protocol, platform.c: the package variables, the      *)
(* operations a program calls, putPipe, and getResult with the parsing of  *)
(* the events it meets on the way to its result.                           *)
(*                                                                         *)
(* The C program is one thread.  Between two calls it does what it likes;  *)
(* inside a call it writes one line (outgoing) and, if the operation has a *)
(* result, reads lines until that arrives (waiting).                       *)
(***************************************************************************)
EXTENDS JBEPipes

CONSTANTS
    Calls,      \* the operations the program uses
    CallMasks,  \* the masks it passes to getNextEvent and waitForEvent
    MaxCalls    \* bound: operations it calls in a behaviour

ASSUME CallsAssumption == /\ Calls \subseteq Fns
                          /\ CallMasks \subseteq Masks
                          /\ MaxCalls \in Nat

VARIABLES
    initialized,    \* initPlatform has been called
    windowTable,    \* the windows the C table maps an id to
    timerTable,     \* the timers the C table maps an id to
    eventQueue,     \* events parsed and not yet returned, NULL ones included
    outgoing,       \* the line putPipe is writing
    waiting,        \* what getResult is called for
    askedMask,      \* the mask argument of the last event operation
    returned,       \* what the last event operation returned
    made,           \* the windows and timers allocated so far
    calls,          \* operations called so far
    masks,          \* history: the masks asked with
    parsed,         \* history: the kinds of the events parsed
    dropped         \* history: the sources initPlatform threw out of a table

frontVars == <<initialized, windowTable, timerTable, eventQueue, outgoing,
               waiting, askedMask, returned, made, calls, masks, parsed, dropped>>
historyVars == <<masks, parsed, dropped>>

NoCommand == Command("none", Nobody, {})
NullEvent == [kind |-> "NULL", src |-> Nobody]
NoEvent == [kind |-> "none", src |-> Nobody]
Events == [kind: InputKinds, src: Sources] \cup {NullEvent}
Waits == {"no", "status", "text", "getNextEvent", "waitForEvent"}

FrontTypeOK ==
    /\ initialized \in BOOLEAN
    /\ windowTable \subseteq Windows
    /\ timerTable \subseteq Timers
    /\ eventQueue \in Seq(Events)
    /\ outgoing \in Commands \cup {NoCommand}
    /\ waiting \in Waits
    /\ askedMask \in Masks
    /\ returned \in Events \cup {NoEvent}
    /\ made \subseteq Windows \cup Timers
    /\ calls \in Nat
    /\ masks \subseteq Masks
    /\ parsed \subseteq InputKinds \cup {"NULL"}
    /\ dropped \subseteq Windows \cup Timers

FrontInit ==
    /\ initialized = FALSE
    /\ windowTable = {}
    /\ timerTable = {}
    /\ eventQueue = <<>>
    /\ outgoing = NoCommand
    /\ waiting = "no"
    /\ askedMask = {}
    /\ returned = NoEvent
    /\ made = {}
    /\ calls = 0
    /\ masks = {}
    /\ parsed = {}
    /\ dropped = {}

-----------------------------------------------------------------------------
\* The program is between two operations and calls fn.
Call(fn) ==
    /\ client = "running"
    /\ waiting = "no"
    /\ outgoing = NoCommand
    /\ fn \in Calls
    /\ calls < MaxCalls
    /\ calls' = calls + 1

\* putPipe is entered with the command; the line leaves in PutPipe.
Send(fn, src, mask) == outgoing' = Command(fn, src, mask)

\* An operation that sends fn and awaits a result of the given sort.
Request(fn, src, sort) ==
    /\ Send(fn, src, {})
    /\ waiting' = sort

\* initPlatform: the tables and the event queue are created anew at each call.
InitPlatform ==
    /\ initialized' = TRUE
    /\ timerTable' = {}
    /\ eventQueue' = <<>>
    /\ dropped' = dropped \cup windowTable \cup timerTable

\* newGWindow, on a block no other window has: newGCompound and createGWindowOp
\* both call initPlatform, and only then is the window entered in the table.
NewGWindow(fn, w) ==
    /\ Call(fn)
    /\ w \notin made
    /\ made' = made \cup {w}
    /\ InitPlatform
    /\ windowTable' = {w}
    /\ Request(fn, w, "status")
    /\ UNCHANGED <<pipeVars, askedMask, returned, masks, parsed>>

\* Creating a GRect, GRoundRect, G3DRect, GOval, GLine or GCompound, which the
\* draw and fill functions of gwindow.c do as well.
NewShape ==
    /\ Call("shape")
    /\ InitPlatform
    /\ windowTable' = {}
    /\ Send("shape", Nobody, {})
    /\ UNCHANGED <<pipeVars, waiting, askedMask, returned, made, masks, parsed>>

\* Every other operation uses tables, queue or string buffer that only
\* initPlatform creates: called first, it follows a NULL pointer.
CallBeforeInit(fn) ==
    /\ Call(fn)
    /\ fn \notin {"create", "createReal", "shape"}
    /\ ~initialized
    /\ client' = "crashed"
    /\ UNCHANGED <<toJBE, fromJBE, jvm, initialized, windowTable, timerTable,
                   eventQueue, outgoing, waiting, askedMask, returned, made,
                   historyVars>>

CloseGWindow(w) ==
    /\ Call("close") /\ initialized
    /\ w \in made
    /\ Send("close", w, {})
    /\ UNCHANGED <<pipeVars, initialized, windowTable, timerTable, eventQueue,
                   waiting, askedMask, returned, made, historyVars>>

NewGTimer(tm) ==
    /\ Call("createTimer") /\ initialized
    /\ tm \notin made
    /\ made' = made \cup {tm}
    /\ timerTable' = timerTable \cup {tm}
    /\ Send("createTimer", tm, {})
    /\ UNCHANGED <<pipeVars, initialized, windowTable, eventQueue, waiting,
                   askedMask, returned, historyVars>>

\* Mutant: the timer is taken out of the table.
ForgetGTimer(tm) ==
    /\ Call("deleteTimer") /\ initialized
    /\ tm \in made
    /\ timerTable' = timerTable \ {tm}
    /\ Send("deleteTimer", tm, {})
    /\ UNCHANGED <<pipeVars, initialized, windowTable, eventQueue, waiting,
                   askedMask, returned, made, historyVars>>

\* deleteTimerOp puts the timer into the table, it does not take it out.
FreeGTimer(tm) ==
    /\ Call("deleteTimer") /\ initialized
    /\ tm \in made
    /\ timerTable' = timerTable \cup {tm}
    /\ Send("deleteTimer", tm, {})
    /\ UNCHANGED <<pipeVars, initialized, windowTable, eventQueue, waiting,
                   askedMask, returned, made, historyVars>>

StartStopTimer(fn, tm) ==
    /\ Call(fn) /\ initialized
    /\ fn \in {"startTimer", "stopTimer"}
    /\ tm \in made
    /\ Send(fn, tm, {})
    /\ UNCHANGED <<pipeVars, initialized, windowTable, timerTable, eventQueue,
                   waiting, askedMask, returned, made, historyVars>>

\* pause: getStatus accepts "ok" only.
Pause ==
    /\ Call("pause") /\ initialized
    /\ Request("pause", Nobody, "status")
    /\ UNCHANGED <<pipeVars, initialized, windowTable, timerTable, eventQueue,
                   askedMask, returned, made, historyVars>>

\* getText, standing for the getters whose reply the back end prints without
\* taking its lock: whatever result comes first is the value.
GetText ==
    /\ Call("getText") /\ initialized
    /\ Request("getText", Nobody, "text")
    /\ UNCHANGED <<pipeVars, initialized, windowTable, timerTable, eventQueue,
                   askedMask, returned, made, historyVars>>

-----------------------------------------------------------------------------
\* Mutant: the latest event is returned first.
ReturnLatest(queue) ==
    /\ returned' = queue[Len(queue)]
    /\ eventQueue' = SubSeq(queue, 1, Len(queue) - 1)

\* dequeue and return: whatever is first in the queue, whatever the mask.
ReturnEvent(queue) ==
    /\ returned' = Head(queue)
    /\ eventQueue' = Tail(queue)

\* getNextEvent and waitForEvent start alike: an event that is queued already is
\* returned at once, else the back end is asked.
AskForEvent(fn, mask) ==
    /\ Call(fn) /\ initialized
    /\ IF eventQueue = <<>>
       THEN /\ Send(fn, Nobody, mask)
            /\ waiting' = fn
            /\ UNCHANGED <<eventQueue, returned>>
       ELSE /\ ReturnEvent(eventQueue)
            /\ UNCHANGED <<outgoing, waiting>>
    /\ askedMask' = mask
    /\ masks' = masks \cup {mask}
    /\ UNCHANGED <<pipeVars, initialized, windowTable, timerTable, made, parsed,
                   dropped>>

\* putPipe gets its line into the pipe; when nobody reads the other end any
\* more, SIGPIPE ends the program.
PutPipe ==
    /\ client = "running"
    /\ outgoing # NoCommand
    /\ \/ /\ jvm = "running"
          /\ Len(toJBE) < ToCap
          /\ toJBE' = Append(toJBE, outgoing)
          /\ client' = client
       \/ /\ jvm = "exited"
          /\ client' = "exited"
          /\ toJBE' = toJBE
    /\ outgoing' = NoCommand
    /\ UNCHANGED <<fromJBE, jvm, initialized, windowTable, timerTable,
                   eventQueue, waiting, askedMask, returned, made, calls,
                   historyVars>>

-----------------------------------------------------------------------------
\* getResult is reading, and its next line has the given tag.
Reads(tag) ==
    /\ client = "running"
    /\ waiting # "no"
    /\ outgoing = NoCommand
    /\ fromJBE # <<>>
    /\ Head(fromJBE).tag = tag
    /\ fromJBE' = Tail(fromJBE)

\* The event operations take any result for their answer: getNextEvent returns
\* NULL if the queue is still empty, waitForEvent asks again.
GotAnswer ==
    /\ waiting \in AskFns
    /\ IF eventQueue # <<>>
       THEN /\ ReturnEvent(eventQueue)
            /\ waiting' = "no"
            /\ UNCHANGED outgoing
       ELSE IF waiting = "getNextEvent"
       THEN /\ returned' = NoEvent
            /\ waiting' = "no"
            /\ UNCHANGED <<eventQueue, outgoing>>
       ELSE /\ Send("waitForEvent", Nobody, askedMask)
            /\ UNCHANGED <<eventQueue, returned, waiting>>
    /\ client' = client

\* getStatus raises an error, which ends the program, on any result but "ok".
GotReply ==
    /\ waiting \in {"status", "text"}
    /\ client' = IF waiting = "status" /\ Head(fromJBE).what # "ok"
                 THEN "failed" ELSE client
    /\ waiting' = "no"
    /\ UNCHANGED <<eventQueue, outgoing, returned>>

ReadResult ==
    /\ Reads("result")
    /\ GotAnswer \/ GotReply
    /\ UNCHANGED <<toJBE, jvm, initialized, windowTable, timerTable, askedMask,
                   made, calls, historyVars>>

\* get(windowTable, id) or get(timerTable, id): NULL for an unknown id.
Lookup(src) == IF src \in windowTable \cup timerTable THEN src ELSE Nobody

\* Mutant: every name is taken for an event's.
ParseAnything(line) == [kind |-> line.what, src |-> Lookup(line.src)]

\* parseEvent: names it does not know give a NULL event, "lastWindow..." among
\* them; the event is enqueued whatever the mask asked for.
ParseEvent(line) ==
    IF line.what \in InputKinds
    THEN [kind |-> line.what, src |-> Lookup(line.src)]
    ELSE NullEvent

\* A windowClosed event is answered with GWindow.close before getResult goes on.
ReadEvent ==
    /\ Reads("event")
    /\ LET e == ParseEvent(Head(fromJBE))
       IN  /\ eventQueue' = Append(eventQueue, e)
           /\ IF e.kind = "windowClosed" THEN Send("close", e.src, {})
                                         ELSE UNCHANGED outgoing
           /\ parsed' = parsed \cup {e.kind}
    /\ UNCHANGED <<toJBE, client, jvm, initialized, windowTable, timerTable,
                   waiting, askedMask, returned, made, calls, masks, dropped>>

\* Where the foreign line fell inside the argument list, the scanner finds
\* another token than the one it must verify and raises an error.
ReadGarbledArguments ==
    /\ Reads("event")
    /\ Head(fromJBE).what = "garbled"
    /\ client' = "failed"
    /\ UNCHANGED <<toJBE, jvm, frontVars>>

\* A line with neither prefix is dropped.
ReadJunk ==
    /\ Reads("junk")
    /\ UNCHANGED <<toJBE, client, jvm, frontVars>>

\* readLine returns NULL at the end of the file: exit(1).
ReadEOF ==
    /\ client = "running"
    /\ waiting # "no"
    /\ outgoing = NoCommand
    /\ jvm = "exited"
    /\ fromJBE = <<>>
    /\ client' = "exited"
    /\ UNCHANGED <<toJBE, fromJBE, jvm, frontVars>>

-----------------------------------------------------------------------------
\* What the program decides to do, and what the library then does for it.
ProgramStep ==
    \/ \E w \in Windows, fn \in {"create", "createReal"} : NewGWindow(fn, w)
    \/ \E w \in Windows : CloseGWindow(w)
    \/ NewShape
    \/ \E fn \in Calls : CallBeforeInit(fn)
    \/ \E tm \in Timers : NewGTimer(tm) \/ FreeGTimer(tm)
    \/ \E tm \in Timers, fn \in {"startTimer", "stopTimer"} : StartStopTimer(fn, tm)
    \/ Pause
    \/ GetText
    \/ \E fn \in AskFns, mask \in CallMasks : AskForEvent(fn, mask)

ReadStep == ReadResult \/ ReadEvent \/ ReadGarbledArguments \/ ReadJunk \/ ReadEOF

LibraryStep == PutPipe \/ ReadStep
=============================================================================
