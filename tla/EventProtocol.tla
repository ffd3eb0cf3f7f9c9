--------------------------- MODULE EventProtocol ----------------------------
(***************************************************************************)
(* A program that uses the library, the library and the back end, composed *)
(* over the two pipes; and what the protocol between them promises.        *)
(***************************************************************************)
EXTENDS FrontEnd, BackEnd

vars == <<pipeVars, frontVars, backVars>>

Init == PipesInit /\ FrontInit /\ BackInit

FrontStep == (ProgramStep \/ LibraryStep) /\ UNCHANGED backVars
BackStep == (UserStep \/ \E t \in Threads : ThreadStep(t)) /\ UNCHANGED frontVars

Next == FrontStep \/ BackStep

\* The library does not stop in the middle of an operation, and the scheduler
\* of the virtual machine runs both threads.  Nothing obliges the program to
\* call, the user to act or a timer to tick.
Fairness ==
    /\ WF_vars(LibraryStep /\ UNCHANGED backVars)
    /\ \A t \in Threads : WF_vars(ThreadStep(t) /\ UNCHANGED frontVars)

Spec == Init /\ [][Next]_vars
FairSpec == Spec /\ Fairness

TypeOK == PipesTypeOK /\ FrontTypeOK /\ BackTypeOK

-----------------------------------------------------------------------------
\* What an operation takes for its result.
Expected(sort) ==
    CASE sort = "status" -> "ok"
      [] sort = "text"   -> "text"
      [] OTHER           -> "ack"

\* The back end is bound to acknowledge the next event.
AckOwed == asked /\ ~eventAcknowledged

\* What getResult waits for after fn is sent.
SortOf(fn) ==
    CASE fn \in {"pause", "create", "createReal"} -> "status"
      [] fn = "getText"                           -> "text"
      [] OTHER                                    -> fn

\* Where the operation in progress can be: its command is being written, is on
\* the pipe or is obeyed, an acknowledgement is owed to it, its reply is back.
Leaving == outgoing.fn \in SyncFns
OnTheWay(i) == toJBE[i].fn \in SyncFns
SomeOnTheWay == \E i \in DOMAIN toJBE : OnTheWay(i)
Obeyed == pc["cmd"] \in {"count", "reply", "ask"}
Replied(i) == fromJBE[i].tag = "result"
SomeReplied == \E i \in DOMAIN fromJBE : Replied(i)

\* What is on a pipe fits an operation that waits for w, and there is one of it.
CommandsFit(w) == \A i \in DOMAIN toJBE : OnTheWay(i) => w = SortOf(toJBE[i].fn)
OneCommand == \A i, j \in DOMAIN toJBE : OnTheWay(i) /\ OnTheWay(j) => i = j
RepliesFit(w) ==
    \A i \in DOMAIN fromJBE : Replied(i) => w # "no" /\ fromJBE[i].what = Expected(w)
OneReply == \A i, j \in DOMAIN fromJBE : Replied(i) /\ Replied(j) => i = j

\* Wherever it is, it is what the program waits for.
ForWaiting ==
    /\ Leaving => waiting = SortOf(outgoing.fn)
    /\ CommandsFit(waiting)
    /\ Obeyed => current.fn \in SyncFns /\ waiting = SortOf(current.fn)
    /\ AckOwed => waiting = "waitForEvent"
    /\ RepliesFit(waiting)

\* It is in one of those places, and there is one of it.
AtMostOne ==
    /\ Leaving => ~SomeOnTheWay /\ ~Obeyed /\ ~AckOwed /\ ~SomeReplied
    /\ SomeOnTheWay => ~Obeyed /\ ~AckOwed /\ ~SomeReplied
    /\ Obeyed => ~AckOwed /\ ~SomeReplied
    /\ AckOwed => ~SomeReplied
    /\ OneCommand
    /\ OneReply

\* The command thread replies to, and acknowledges, only what asks for it.
ObeysCommand ==
    /\ pc["cmd"] = "ask" => current.fn \in AskFns
    /\ pc["cmd"] = "reply" => current.fn \in {"pause", "getText", "create"}
    /\ pc["cmd"] = "count" => current.fn = "create"

\* Replies carry no tag that says what they answer.  At most one is ever
\* outstanding, it is for the operation in progress, and the back end owes an
\* acknowledgement to nobody who does not wait for it: the protocol needs no tags
\* as long as this holds.  (platform.c getResult against println and
\* acknowledgeEvent in JavaBackEnd.java.)  The exception is the acknowledgement
\* windowClosing prints before any event was asked for.
OneOutstanding == ObeysCommand /\ (~stray => ForWaiting /\ AtMostOne)

\* No lost wakeup: if the back end has obeyed waitForEvent and owes the
\* acknowledgement, then an event that is queued or on the pipe is one whose
\* listener is about to acknowledge it, so the program does not sleep on an
\* event it already has.  (waitForEvent, acknowledgeEvent and the listeners
\* that let go of eventLock between the two prints.)
NoLostWakeup ==
    /\ ~stray /\ AckOwed /\ jvm = "running"
    /\ waiting = "waitForEvent" /\ outgoing.fn # "waitForEvent"
    /\ \A i \in DOMAIN toJBE : toJBE[i].fn # "waitForEvent"
    /\ pc["cmd"] # "ask"
    /\ eventQueue # <<>> \/ \E i \in DOMAIN fromJBE : fromJBE[i].tag = "event"
    => \E t \in Threads : pc[t] = "ack"

\* An event names a window or a timer of the program: the C tables know the source
\* of an event line when it is printed, while it is on its way and when the event is
\* parsed, also of a window closed or a timer freed meanwhile, unless initPlatform,
\* which every new window and shape calls, has made the tables anew since.
\* (deleteTimerOp, parseTimerEvent, parseMouseEvent, initPlatform.)
Unknown(e) == e.kind \in InputKinds /\ e.src = Nobody
EventsHaveSources ==
    /\ \A i \in DOMAIN fromJBE : fromJBE[i].what \in InputKinds =>
           fromJBE[i].src \in windowTable \cup timerTable \cup dropped
    /\ Unknown(returned) \/ (\E i \in DOMAIN eventQueue : Unknown(eventQueue[i]))
           => dropped # {}

\* The back end decides to exit when its last window is closed, and not before: its
\* table is empty then, or holds one window whose createWindow the command thread has
\* begun meanwhile.  (windowClosing and createWindow.)  Their updates of
\* activeWindowCount are not synchronised, and a window that both the user and the
\* program close is counted down twice: once either has happened nothing is claimed.
ExitsWithLastWindow ==
    ~miscounted => \A t \in Threads :
        pc[t] = "test" /\ activeWindowCount = 0 =>
            Cardinality(jbeWindows) <= (IF pc["cmd"] = "count" THEN 1 ELSE 0)

-----------------------------------------------------------------------------
\* Thread t waits for the lock or for room in the pipe to the program.
PipeFull == Len(fromJBE) = FromCap
NeedsLock(t) ==
    \/ pc[t] \in {"report", "ask"}
    \/ pc[t] = "reply" /\ current.fn # "getText"
NeedsRoom(t) ==
    \/ pc[t] \in {"printing", "reply"}
    \/ pc[t] = "ack" /\ ~eventAcknowledged
    \/ pc[t] = "ask" /\ (current.fn = "getNextEvent" \/ eventPending)
Blocked(t) ==
    \/ NeedsLock(t) /\ eventLock # Free
    \/ pc[t] = "ack" /\ eventLock \notin {t, Free}
    \/ NeedsRoom(t) /\ PipeFull

\* The program waits to write to a command thread that waits on the program: for
\* room in the other pipe, or for a lock whose holder waits for that room.
CircularWait ==
    /\ client = "running" /\ jvm = "running"
    /\ outgoing # NoCommand /\ Len(toJBE) = ToCap
    /\ Blocked("cmd")
    /\ pc["edt"] = "idle" \/ Blocked("edt")

\* getResult answers a windowClosed event while it waits for its result.
AnswersClosing == outgoing.fn = "close" /\ waiting # "no"

\* The two pipes fill up on one another only over the closing of a window, in the
\* command thread or in the answer of getResult to a windowClosed event: nothing
\* else makes one process print when the other is not there to read.  (putPipe and
\* getResult against commandLoop.)
CircularWaitOnlyInClosing ==
    CircularWait /\ ~stray =>
        pc["cmd"] \in {"report", "printing", "ack"} \/ AnswersClosing

-----------------------------------------------------------------------------
\* Every operation with a reply returns, or the program ends.
OperationReturns ==
    waiting \in {"status", "text", "getNextEvent"}
        ~> waiting = "no" \/ client # "running"

\* waitForEvent returns once getResult has an event.
WaitServed ==
    waiting = "waitForEvent" /\ eventQueue # <<>>
        ~> waiting # "waitForEvent" \/ client # "running"

-----------------------------------------------------------------------------
\* The events of the service are those parsed and those still on the pipe; the
\* operation in progress saw no event if its answer is on the pipe before any.
EventsIn(lines) ==
    LET kinds[i \in 0 .. Len(lines)] ==
            IF i = 0 THEN <<>>
            ELSE IF lines[i].what \in InputKinds
                 THEN Append(kinds[i - 1], lines[i].what)
                 ELSE kinds[i - 1]
    IN  kinds[Len(lines)]
KindsOf(queue) == [i \in DOMAIN queue |-> queue[i].kind]
PendingEvents == KindsOf(eventQueue) \o EventsIn(fromJBE)
AnswerComesFirst ==
    \E i \in DOMAIN fromJBE :
        /\ fromJBE[i].tag = "result"
        /\ \A j \in 1 .. i - 1 : fromJBE[j].what \notin InputKinds

\* The program asks with one mask throughout.
OneMask == \A m, n \in masks : m = n

\* The service ends with the program, and where the code leaves the header: with
\* the first acknowledgement nobody asked for, from which on an answer may be older
\* than its question; when the program asks with a second mask, as what was queued
\* under the first is returned all the same; when getResult queues a NULL event; and
\* when it queues a windowClosed event, which is reported whatever the mask, for a
\* program that does not ask for window events.
Serving ==
    /\ client = "running"
    /\ ~stray
    /\ OneMask
    /\ "NULL" \notin parsed
    /\ "windowClosed" \in parsed => \A m \in masks : "WINDOW" \in m

Service == INSTANCE EventService WITH
    Kinds    <- InputKinds,
    Classes  <- Classes,
    classes  <- [kind \in InputKinds |-> ClassesOf(kind)],
    None     <- "none",
    pending  <- IF Serving THEN PendingEvents ELSE <<>>,
    asking   <- IF ~Serving THEN "ended"
                ELSE IF waiting \in AskFns THEN waiting ELSE "no",
    mask     <- IF Serving THEN askedMask ELSE {},
    sawEmpty <- /\ Serving /\ waiting = "getNextEvent"
                /\ eventQueue = <<>> /\ AnswerComesFirst,
    result   <- IF Serving THEN returned.kind ELSE "none"

\* The protocol gives the program the event service gevents.h describes, as long as
\* none of the exceptions Serving names has come.
ImplementsService == Service!Spec

\* An event operation returns an event of a class its mask asks for.  (gevents.h on
\* waitForEvent and getNextEvent.)
ReturnsWhatWasAskedFor ==
    waiting = "no" /\ returned.kind \in InputKinds =>
        ClassesOf(returned.kind) \cap askedMask # {}
=============================================================================
