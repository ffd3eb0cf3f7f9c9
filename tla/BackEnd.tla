------------------------------ MODULE BackEnd -------------------------------
(***************************************************************************)
(* The Java side of the protocol, JavaBackEnd.java and JBECommand.java.    *)
(* Two threads share the state: "cmd" runs commandLoop, "edt" is the event *)
(* dispatch thread of Swing that calls the listeners.  pc says where in a  *)
(* handler a thread is; a step of the model is what a thread does between  *)
(* two points where the other can see or disturb it.                       *)
(*                                                                         *)
(* Window closing is the handler both threads run: the EDT when the user   *)
(* closes a window, the command thread for GWindow.close.                  *)
(***************************************************************************)
EXTENDS JBEPipes

CONSTANTS
    Inputs,     \* the kinds of input the user and the timers produce
    MaxInputs,  \* bound: inputs in a behaviour
    Free        \* the value of eventLock when no thread holds it

Threads == {"cmd", "edt"}

ASSUME InputsAssumption == /\ Inputs \subseteq InputKinds
                           /\ MaxInputs \in Nat
                           /\ Free \notin Threads

VARIABLES
    pc,                 \* where each thread is
    line,               \* the event line each thread reports
    current,            \* the command the command thread obeys
    eventLock,          \* the thread that holds eventLock, or Free
    partial,            \* System.out after the first part of an event line
    eventAcknowledged,
    eventPending,
    selected,           \* eventMask, as the set of classes whose bits are set
    jbeWindows,         \* the keys of the Java windowTable
    shown,              \* the frames on the screen
    activeWindowCount,
    register,           \* activeWindowCount as each thread last loaded it
    jbeTimers,          \* the Swing timers: absent, stopped or running
    inputs,             \* inputs so far
    asked,              \* history: an event has been asked for
    stray,              \* history: an ack was printed before any was asked for
    miscounted          \* history: an update of activeWindowCount was lost, or
                        \* a window that had gone was counted down again

backVars == <<pc, line, current, eventLock, partial, eventAcknowledged,
              eventPending, selected, jbeWindows, shown, activeWindowCount,
              register, jbeTimers, inputs, asked, stray, miscounted>>
protocolVars == <<eventAcknowledged, eventPending, selected, asked, stray>>
windowVars == <<jbeWindows, shown, activeWindowCount, register, miscounted>>

\* The points of the handlers between which the other thread may run.
Points == {"idle", "report", "printing", "ack", "remove", "store", "test", "exit",
           "reply", "ask", "setMask", "count"}

BackTypeOK ==
    /\ pc \in [Threads -> Points]
    /\ line \in [Threads -> EventLines]
    /\ current \in Commands
    /\ eventLock \in Threads \cup {Free}
    /\ partial \in {"none", "open", "broken"}
    /\ eventAcknowledged \in BOOLEAN
    /\ eventPending \in BOOLEAN
    /\ selected \in Masks
    /\ jbeWindows \subseteq Windows
    /\ shown \subseteq Windows
    /\ activeWindowCount \in Int
    /\ register \in [Threads -> Int]
    /\ jbeTimers \in [Timers -> {"absent", "stopped", "running"}]
    /\ inputs \in Nat
    /\ asked \in BOOLEAN
    /\ stray \in BOOLEAN
    /\ miscounted \in BOOLEAN

\* run() gives the flags their first values; line and current are dead values
\* until a thread sets them.
BackInit ==
    /\ pc = [t \in Threads |-> "idle"]
    /\ line = [t \in Threads |-> EventLine("lastWindow", Nobody)]
    /\ current = Command("shape", Nobody, {})
    /\ eventLock = Free
    /\ partial = "none"
    /\ eventAcknowledged = FALSE
    /\ eventPending = FALSE
    /\ selected = {}
    /\ jbeWindows = {}
    /\ shown = {}
    /\ activeWindowCount = 0
    /\ register = [t \in Threads |-> 0]
    /\ jbeTimers = [tm \in Timers |-> "absent"]
    /\ inputs = 0
    /\ asked = FALSE
    /\ stray = FALSE
    /\ miscounted = FALSE

-----------------------------------------------------------------------------
\* Thread t is at one point of its handler and goes on to another.
At(t, from) ==
    /\ jvm = "running"
    /\ pc[t] = from
Goto(t, to) == pc' = [pc EXCEPT ![t] = to]

\* Mutant: an event that comes between two requests is not remembered.
AcknowledgeForgets ==
    IF eventAcknowledged
    THEN UNCHANGED <<fromJBE, eventAcknowledged, eventPending, stray>>
    ELSE /\ PrintLine(Result("ack"))
         /\ eventAcknowledged' = TRUE
         /\ eventPending' = FALSE
         /\ stray' = (stray \/ ~asked)

\* acknowledgeEvent, by a thread that holds eventLock.
AcknowledgeEvent ==
    IF eventAcknowledged
    THEN /\ eventPending' = TRUE
         /\ UNCHANGED <<fromJBE, eventAcknowledged, stray>>
    ELSE /\ PrintLine(Result("ack"))
         /\ eventAcknowledged' = TRUE
         /\ eventPending' = FALSE
         /\ stray' = (stray \/ ~asked)

\* The test each listener makes: the key listeners compare the whole mask with
\* KEY_EVENT, the others test the bits of their classes, windowClosing nothing.
Selects(mask, kind) ==
    CASE kind = "keyPressed"   -> mask = {"KEY"}
      [] kind = "windowClosed" -> TRUE
      [] OTHER                 -> mask \cap ClassesOf(kind) # {}

\* The listeners that test the mask before they take the lock; actionPerformed
\* tests it inside.
TestsOutside(kind) == kind # "timerTicked"

\* The listeners that print and acknowledge without letting go of the lock; the
\* mouse and key listeners let go of it in between.
HoldsLock(kind) == kind \notin {"mouseMoved", "mouseClicked", "keyPressed"}

-----------------------------------------------------------------------------
\* Swing calls a listener: a frame on the screen or a running timer is the
\* source of the event.
Input(kind, src) ==
    /\ At("edt", "idle")
    /\ kind \in Inputs
    /\ inputs < MaxInputs
    /\ inputs' = inputs + 1
    /\ IF kind = "timerTicked" THEN src \in Timers /\ jbeTimers[src] = "running"
                               ELSE src \in shown
    /\ UNCHANGED <<pipeVars, current, eventLock, partial, protocolVars,
                   windowVars, jbeTimers>>

HandleInput(kind, src) ==
    /\ Input(kind, src)
    /\ TestsOutside(kind) => Selects(selected, kind)
    /\ line' = [line EXCEPT !["edt"] = EventLine(kind, src)]
    /\ Goto("edt", "report")

\* The listener returns at once.
IgnoreInput(kind, src) ==
    /\ Input(kind, src)
    /\ TestsOutside(kind) /\ ~Selects(selected, kind)
    /\ UNCHANGED <<pc, line>>

\* The thread gets the lock and prints the first part of its event line, or
\* finds inside that the mask does not want the event.  The last line of all has
\* one part.
BeginLine(t) ==
    /\ At(t, "report")
    /\ eventLock = Free
    /\ IF TestsOutside(line[t].what) \/ Selects(selected, line[t].what)
       THEN /\ eventLock' = t
            /\ partial' = IF line[t].what = "lastWindow" THEN "none" ELSE "open"
            /\ Goto(t, "printing")
       ELSE /\ Goto(t, "idle")
            /\ UNCHANGED <<eventLock, partial>>
    /\ UNCHANGED <<pipeVars, line, current, protocolVars, windowVars, jbeTimers,
                   inputs>>

\* The last part of the line, with its end.
EndLine(t) ==
    /\ At(t, "printing")
    /\ PrintLine(IF partial = "broken" THEN Junk ELSE line[t])
    /\ partial' = "none"
    /\ eventLock' = IF HoldsLock(line[t].what) THEN t ELSE Free
    /\ Goto(t, "ack")
    /\ UNCHANGED <<toJBE, client, jvm, line, current, protocolVars, windowVars,
                   jbeTimers, inputs>>

\* What a handler does after acknowledgeEvent: windowClosing goes on.
AfterAck(kind) ==
    CASE kind = "windowClosed" -> "remove"
      [] kind = "lastWindow"   -> "exit"
      [] OTHER                 -> "idle"

Acknowledge(t) ==
    /\ At(t, "ack")
    /\ eventLock \in {t, Free}
    /\ AcknowledgeEvent
    /\ eventLock' = Free
    /\ Goto(t, AfterAck(line[t].what))
    /\ UNCHANGED <<toJBE, client, jvm, line, current, partial, selected, asked,
                   windowVars, jbeTimers, inputs>>

-----------------------------------------------------------------------------
\* Thread t stores what it makes of the count it loaded; what the other thread
\* has stored since is lost.
StoresCount(t) == miscounted' = (miscounted \/ register[t] # activeWindowCount)

\* The rest of windowClosing, without the lock: the table entry goes, then
\* activeWindowCount-- loads and stores, then the count is tested.
RemoveWindow(t) ==
    /\ At(t, "remove")
    /\ jbeWindows' = jbeWindows \ {line[t].src}
    /\ miscounted' = (miscounted \/ line[t].src \notin jbeWindows)
    /\ register' = [register EXCEPT ![t] = activeWindowCount]
    /\ Goto(t, "store")
    /\ UNCHANGED <<pipeVars, line, current, eventLock, partial, protocolVars,
                   shown, activeWindowCount, jbeTimers, inputs>>

\* Mutant: the frame is disposed of, and windowClosed counts it down again.
StoreCountTwice(t) ==
    /\ At(t, "store")
    /\ activeWindowCount' = register[t] - 2
    /\ StoresCount(t)
    /\ Goto(t, "test")
    /\ UNCHANGED <<pipeVars, line, current, eventLock, partial, protocolVars,
                   jbeWindows, shown, register, jbeTimers, inputs>>

StoreCount(t) ==
    /\ At(t, "store")
    /\ activeWindowCount' = register[t] - 1
    /\ StoresCount(t)
    /\ Goto(t, "test")
    /\ UNCHANGED <<pipeVars, line, current, eventLock, partial, protocolVars,
                   jbeWindows, shown, register, jbeTimers, inputs>>

\* Zero: the last line is reported and the process exits.  Otherwise the frame
\* hides itself, which is what a JFrame does once its listeners have returned.
TestCount(t) ==
    /\ At(t, "test")
    /\ IF activeWindowCount = 0
       THEN /\ line' = [line EXCEPT ![t] = EventLine("lastWindow", Nobody)]
            /\ Goto(t, "report")
            /\ UNCHANGED shown
       ELSE /\ shown' = shown \ {line[t].src}
            /\ Goto(t, "idle")
            /\ UNCHANGED line
    /\ UNCHANGED <<pipeVars, current, eventLock, partial, protocolVars, jbeWindows,
                   activeWindowCount, register, miscounted, jbeTimers, inputs>>

\* System.exit(0): what is printed stays readable, no thread goes on.
ExitJVM(t) ==
    /\ At(t, "exit")
    /\ jvm' = "exited"
    /\ UNCHANGED <<toJBE, fromJBE, client, backVars>>

-----------------------------------------------------------------------------
\* commandLoop reads a line and calls execute on the command it names.
Execute(fn) ==
    /\ At("cmd", "idle")
    /\ toJBE # <<>>
    /\ Head(toJBE).fn = fn
    /\ toJBE' = Tail(toJBE)
    /\ current' = Head(toJBE)
    /\ UNCHANGED <<fromJBE, client, eventLock, partial, protocolVars, shown,
                   activeWindowCount, miscounted, inputs>>

\* GTimer_pause and GTextField_getText compute their reply and then print it.
GTimer_pause ==
    /\ Execute("pause") \/ Execute("getText")
    /\ Goto("cmd", "reply")
    /\ UNCHANGED <<jvm, line, jbeWindows, register, jbeTimers>>

\* createWindow: the table entry, then activeWindowCount++ loads.
GWindow_create ==
    /\ Execute("create")
    /\ jbeWindows' = jbeWindows \cup {Head(toJBE).src}
    /\ register' = [register EXCEPT !["cmd"] = activeWindowCount]
    /\ Goto("cmd", "count")
    /\ UNCHANGED <<jvm, line, jbeTimers>>

\* The count is stored, the frame shows and waitForWindowActive returns.
ShowWindow ==
    /\ At("cmd", "count")
    /\ activeWindowCount' = register["cmd"] + 1
    /\ StoresCount("cmd")
    /\ shown' = shown \cup {current.src}
    /\ Goto("cmd", "reply")
    /\ UNCHANGED <<pipeVars, line, current, eventLock, partial, protocolVars,
                   jbeWindows, register, jbeTimers, inputs>>

\* Integer.parseInt rejects the size: commandLoop swallows the exception, and no
\* reply is printed.  An unknown command or a shape has none to print.
NoReply ==
    /\ Execute("createReal") \/ Execute("shape")
    /\ UNCHANGED <<jvm, pc, line, jbeWindows, register, jbeTimers>>

\* GWindow_close runs windowClosing if the window is in the table.
GWindow_close ==
    /\ Execute("close")
    /\ IF Head(toJBE).src \in jbeWindows
       THEN /\ line' = [line EXCEPT !["cmd"] = EventLine("windowClosed", Head(toJBE).src)]
            /\ Goto("cmd", "report")
       ELSE UNCHANGED <<line, pc>>
    /\ UNCHANGED <<jvm, jbeWindows, register, jbeTimers>>

\* Mutant: the commands of a timer are replied to.
SetTimerReplies(fn, to) ==
    /\ Execute(fn)
    /\ LET tm == Head(toJBE).src
       IN  jbeTimers' = IF fn = "createTimer" \/ jbeTimers[tm] # "absent"
                        THEN [jbeTimers EXCEPT ![tm] = to] ELSE jbeTimers
    /\ Goto("cmd", "reply")
    /\ UNCHANGED <<jvm, line, jbeWindows, register>>

\* The GTimer commands; those on an id that is not in the table do nothing.
SetTimer(fn, to) ==
    /\ Execute(fn)
    /\ LET tm == Head(toJBE).src
       IN  jbeTimers' = IF fn = "createTimer" \/ jbeTimers[tm] # "absent"
                        THEN [jbeTimers EXCEPT ![tm] = to] ELSE jbeTimers
    /\ UNCHANGED <<jvm, pc, line, jbeWindows, register>>

\* println, which takes the lock, or System.out.println, which does not and may
\* fall into the middle of an event line.
Reply ==
    /\ At("cmd", "reply")
    /\ \/ /\ current.fn # "getText"
          /\ eventLock = Free
          /\ PrintLine(Result("ok"))
          /\ partial' = partial
       \/ /\ current.fn = "getText"
          /\ partial # "open"
          /\ PrintLine(Result("text"))
          /\ partial' = partial
       \/ /\ current.fn = "getText"
          /\ partial = "open"
          /\ PrintLine(EventLine("garbled", Nobody))
          /\ partial' = "broken"
    /\ Goto("cmd", "idle")
    /\ UNCHANGED <<toJBE, client, jvm, line, current, eventLock, protocolVars,
                   windowVars, jbeTimers, inputs>>

GEvent_ask ==
    /\ \E fn \in AskFns : Execute(fn)
    /\ Goto("cmd", "ask")
    /\ UNCHANGED <<jvm, line, jbeWindows, register, jbeTimers>>

\* Mutants of AwaitEvent: the operation not told from getNextEvent, or
\* eventPending not tested.
AwaitForBoth ==
    /\ At("cmd", "ask")
    /\ eventLock = Free
    /\ ~eventPending
    /\ eventAcknowledged' = FALSE
    /\ selected' = current.mask
    /\ asked' = TRUE
    /\ Goto("cmd", "idle")
    /\ UNCHANGED <<pipeVars, line, current, eventLock, partial, eventPending, stray,
                   windowVars, jbeTimers, inputs>>
AwaitDespitePending ==
    /\ At("cmd", "ask")
    /\ current.fn = "waitForEvent"
    /\ eventLock = Free
    /\ eventAcknowledged' = FALSE
    /\ selected' = current.mask
    /\ asked' = TRUE
    /\ Goto("cmd", "idle")
    /\ UNCHANGED <<pipeVars, line, current, eventLock, partial, eventPending, stray,
                   windowVars, jbeTimers, inputs>>

\* waitForEvent(mask), no event pending: the acknowledgement is owed to the
\* next event.
AwaitEvent ==
    /\ At("cmd", "ask")
    /\ current.fn = "waitForEvent"
    /\ eventLock = Free
    /\ ~eventPending
    /\ eventAcknowledged' = FALSE
    /\ selected' = current.mask
    /\ asked' = TRUE
    /\ Goto("cmd", "idle")
    /\ UNCHANGED <<pipeVars, line, current, eventLock, partial, eventPending, stray,
                   windowVars, jbeTimers, inputs>>

\* Mutant: the event is still owed an acknowledgement.
AnswerAndOwe ==
    /\ At("cmd", "ask")
    /\ current.fn = "getNextEvent" \/ eventPending
    /\ eventLock = Free
    /\ PrintLine(Result("ack"))
    /\ eventAcknowledged' = FALSE
    /\ eventPending' = FALSE
    /\ asked' = TRUE
    /\ eventLock' = "cmd"
    /\ Goto("cmd", "setMask")
    /\ UNCHANGED <<toJBE, client, jvm, line, current, partial, selected, stray,
                   windowVars, jbeTimers, inputs>>

\* getNextEvent(mask), or waitForEvent(mask) with an event pending: both flags
\* are cleared and acknowledgeEvent prints at once.
AnswerNow ==
    /\ At("cmd", "ask")
    /\ current.fn = "getNextEvent" \/ eventPending
    /\ eventLock = Free
    /\ PrintLine(Result("ack"))
    /\ eventAcknowledged' = TRUE
    /\ eventPending' = FALSE
    /\ asked' = TRUE
    /\ eventLock' = "cmd"
    /\ Goto("cmd", "setMask")
    /\ UNCHANGED <<toJBE, client, jvm, line, current, partial, selected, stray,
                   windowVars, jbeTimers, inputs>>

\* The mask is set after the acknowledgement is out; the lock goes with it.
SetMask ==
    /\ At("cmd", "setMask")
    /\ selected' = current.mask
    /\ eventLock' = Free
    /\ Goto("cmd", "idle")
    /\ UNCHANGED <<pipeVars, line, current, partial, eventAcknowledged,
                   eventPending, asked, stray, windowVars, jbeTimers, inputs>>

-----------------------------------------------------------------------------
UserStep == \E kind \in Inputs, src \in Windows \cup Timers :
                HandleInput(kind, src) \/ IgnoreInput(kind, src)

\* What either thread does on its way through a listener.
ListenerStep(t) ==
    \/ BeginLine(t) \/ EndLine(t) \/ Acknowledge(t)
    \/ RemoveWindow(t) \/ StoreCount(t) \/ TestCount(t) \/ ExitJVM(t)

CommandStep ==
    \/ GTimer_pause \/ GWindow_create \/ ShowWindow \/ NoReply \/ GWindow_close
    \/ SetTimer("createTimer", "stopped") \/ SetTimer("startTimer", "running")
    \/ SetTimer("stopTimer", "stopped") \/ SetTimer("deleteTimer", "absent")
    \/ Reply
    \/ GEvent_ask \/ AwaitEvent \/ AnswerNow \/ SetMask

ThreadStep(t) == ListenerStep(t) \/ (t = "cmd" /\ CommandStep)
=============================================================================
