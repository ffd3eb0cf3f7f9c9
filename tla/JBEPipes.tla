------------------------------ MODULE JBEPipes ------------------------------
(***************************************************************************)
(* The two pipes between a C program that uses the library and the Java    *)
(* back end it forks: what travels on them, how much they hold, and what   *)
(* happens to a writer whose reader has gone.  FrontEnd and BackEnd both   *)
(* extend this module; EventProtocol composes them.                        *)
(*                                                                         *)
(* A line of text is a record.  Its numbers, coordinates and strings are   *)
(* left out; what is kept is what the two sides decide on: whether the     *)
(* line starts with "result:" or "event:", the name that follows, and the  *)
(* identifier of the window or timer it speaks of.                         *)
(***************************************************************************)
EXTENDS Integers, Sequences, FiniteSets

CONSTANTS
    Windows,    \* the GWindow blocks the program may allocate
    Timers,     \* the GTimer blocks the program may allocate
    Nobody,     \* a NULL pointer, "0x0" on the pipe
    ToCap,      \* command lines the pipe to the back end holds
    FromCap     \* lines the pipe from the back end holds

ASSUME SourcesAssumption == Nobody \notin Windows \cup Timers
                            /\ Windows \cap Timers = {}
ASSUME CapAssumption == ToCap \in Nat \ {0} /\ FromCap \in Nat \ {0}

VARIABLES
    toJBE,      \* lines written by putPipe and not yet read by commandLoop
    fromJBE,    \* lines printed by the back end and not yet read by getResult
    client,     \* the C process
    jvm         \* the Java process

pipeVars == <<toJBE, fromJBE, client, jvm>>

Sources == Windows \cup Timers \cup {Nobody}

\* The event classes that can be added together in a mask, and the masks.
Classes == {"MOUSE", "CLICK", "KEY", "TIMER", "WINDOW"}
Masks == SUBSET Classes

\* The kinds of event the user and the timers cause, one for each way a
\* listener of the back end treats its event.
InputKinds == {"mouseMoved", "mouseClicked", "keyPressed",
               "timerTicked", "windowResized", "windowClosed"}

\* The classes of an event kind, as the mask constants of gevents.h group
\* them: a click is both a mouse event and a click event.
ClassesOf(kind) ==
    CASE kind = "mouseMoved"    -> {"MOUSE"}
      [] kind = "mouseClicked"  -> {"MOUSE", "CLICK"}
      [] kind = "keyPressed"    -> {"KEY"}
      [] kind = "timerTicked"   -> {"TIMER"}
      [] OTHER                  -> {"WINDOW"}

\* "lastWindow" is the line the back end prints before it exits; "garbled" is
\* an event line another line was printed into the middle of.
EventLines ==
    [tag: {"event"}, what: InputKinds \cup {"lastWindow", "garbled"}, src: Sources]
ResultLines == [tag: {"result"}, what: {"ok", "text", "ack"}, src: {Nobody}]
JunkLines == [tag: {"junk"}, what: {"rest"}, src: {Nobody}]
Lines == EventLines \cup ResultLines \cup JunkLines

EventLine(kind, src) == [tag |-> "event", what |-> kind, src |-> src]
Result(what) == [tag |-> "result", what |-> what, src |-> Nobody]
Junk == [tag |-> "junk", what |-> "rest", src |-> Nobody]

\* The commands, named after the function of the back end that obeys them.
\* createReal is GWindow.create with a width or height that %g does not write
\* as an integer; shape stands for the commands that create an object and have
\* no reply; the two asking for an event carry the mask.
AskFns == {"getNextEvent", "waitForEvent"}
ReplyFns == {"pause", "getText", "create", "createReal"}
SilentFns == {"close", "shape", "createTimer", "startTimer", "stopTimer",
              "deleteTimer"}
Fns == AskFns \cup ReplyFns \cup SilentFns
SyncFns == AskFns \cup ReplyFns         \* those the C program awaits a line for
Commands == {c \in [fn: Fns, src: Sources, mask: Masks] :
                c.fn \in {"create", "createReal"} => c.src \in Windows}

Command(fn, src, mask) == [fn |-> fn, src |-> src, mask |-> mask]

PipesTypeOK ==
    /\ toJBE \in Seq(Commands)
    /\ fromJBE \in Seq(Lines)
    /\ client \in {"running", "exited", "failed", "crashed"}
    /\ jvm \in {"running", "exited"}

PipesInit ==
    /\ toJBE = <<>>
    /\ fromJBE = <<>>
    /\ client = "running"
    /\ jvm = "running"

\* println and flush on System.out.  The thread blocks while the pipe is full;
\* once the C process has gone the write fails, and a PrintStream keeps quiet
\* about that.
PrintLine(line) ==
    IF client = "running"
    THEN /\ Len(fromJBE) < FromCap
         /\ fromJBE' = Append(fromJBE, line)
    ELSE UNCHANGED fromJBE
=============================================================================
