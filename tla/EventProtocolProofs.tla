------------------------ MODULE EventProtocolProofs -------------------------
(***************************************************************************)
(* What TLAPS proves of EventProtocol, for every value of the constants.   *)
(***************************************************************************)
EXTENDS EventProtocol, FiniteSetTheorems, TLAPS

\* The sorts of data on the pipes and in the queue.
LEMMA EventLineType ==
    ASSUME NEW kind \in InputKinds \cup {"lastWindow", "garbled"}, NEW src \in Sources
    PROVE  EventLine(kind, src) \in EventLines
BY DEF EventLine, EventLines

LEMMA ResultType ==
    ASSUME NEW what \in {"ok", "text", "ack"}
    PROVE  Result(what) \in Lines
BY DEF Result, ResultLines, Lines

\* Returning an event that is queued leaves a queue of events.
LEMMA ReturnEventType ==
    ASSUME eventQueue \in Seq(Events), eventQueue # <<>>,
           ReturnEvent(eventQueue)
    PROVE  /\ eventQueue' \in Seq(Events)
           /\ returned' \in Events \cup {NoEvent}
<1>1. Head(eventQueue) \in Events /\ Tail(eventQueue) \in Seq(Events)
  OBVIOUS
<1> QED
  BY <1>1 DEF ReturnEvent

\* System.out takes a line of the right sort.
LEMMA PrintLineType ==
    ASSUME PipesTypeOK, NEW l \in Lines, PrintLine(l)
    PROVE  fromJBE' \in Seq(Lines)
BY DEF PipesTypeOK, PrintLine

\* The steps of the program keep the types.
LEMMA ProgramStepType ==
    ASSUME TypeOK, ProgramStep, UNCHANGED backVars
    PROVE  TypeOK'
<1> USE DEF TypeOK, PipesTypeOK, FrontTypeOK, Call, Send, Request, Command, Commands,
            Sources, Fns, AskFns, ReplyFns, SilentFns, SyncFns, Waits, pipeVars,
            historyVars
<1>0. BackTypeOK'
  BY DEF BackTypeOK, backVars
<1>1. CASE \E w \in Windows, fn \in {"create", "createReal"} : NewGWindow(fn, w)
  BY <1>0, <1>1 DEF NewGWindow, InitPlatform, Masks
<1>2. CASE \E w \in Windows : CloseGWindow(w)
  BY <1>0, <1>2 DEF CloseGWindow, Masks
<1>3. CASE NewShape
  BY <1>0, <1>3 DEF NewShape, InitPlatform, Masks
<1>4. CASE \E fn \in Calls : CallBeforeInit(fn)
  BY <1>0, <1>4 DEF CallBeforeInit
<1>5. CASE \E tm \in Timers : NewGTimer(tm) \/ FreeGTimer(tm)
  BY <1>0, <1>5 DEF NewGTimer, FreeGTimer, Masks
<1>6. CASE \E tm \in Timers, fn \in {"startTimer", "stopTimer"} : StartStopTimer(fn, tm)
  BY <1>0, <1>6 DEF StartStopTimer, Masks
<1>7. CASE Pause
  BY <1>0, <1>7 DEF Pause, Masks
<1>8. CASE GetText
  BY <1>0, <1>8 DEF GetText, Masks
<1>9. CASE \E fn \in AskFns, mask \in CallMasks : AskForEvent(fn, mask)
  <2> PICK fn \in AskFns, mask \in CallMasks : AskForEvent(fn, mask)
    BY <1>9
  <2>1. mask \in Masks
    BY CallsAssumption
  <2>2. CASE eventQueue = <<>>
    BY <1>0, <2>1, <2>2 DEF AskForEvent
  <2>3. CASE eventQueue # <<>>
    <3>1. ReturnEvent(eventQueue)
      BY <2>3 DEF AskForEvent
    <3> QED
      BY <1>0, <2>1, <2>3, <3>1, ReturnEventType DEF AskForEvent
  <2> QED
    BY <2>2, <2>3
<1> HIDE DEF TypeOK, Call, Send, Request
<1> QED
  BY <1>1, <1>2, <1>3, <1>4, <1>5, <1>6, <1>7, <1>8, <1>9 DEF ProgramStep

\* The steps of the library keep the types.
LEMMA LibraryStepType ==
    ASSUME TypeOK, LibraryStep, UNCHANGED backVars
    PROVE  TypeOK'
<1>0. BackTypeOK'
  BY DEF TypeOK, BackTypeOK, backVars
<1>1. CASE PutPipe
  <2>1. outgoing \in Commands
    BY <1>1 DEF PutPipe, TypeOK, FrontTypeOK
  <2>2. toJBE' \in Seq(Commands)
    BY <1>1, <2>1 DEF PutPipe, TypeOK, PipesTypeOK
  <2>3. PipesTypeOK'
    BY <1>1, <2>2 DEF PutPipe, TypeOK, PipesTypeOK
  <2>4. FrontTypeOK'
    BY <1>1 DEF PutPipe, historyVars, TypeOK, FrontTypeOK
  <2> QED
    BY <1>0, <2>3, <2>4 DEF TypeOK
<1>2. ASSUME NEW tag, Reads(tag)
      PROVE  /\ fromJBE' \in Seq(Lines)
             /\ Head(fromJBE) \in Lines
  BY <1>2 DEF Reads, TypeOK, PipesTypeOK
<1>3. CASE ReadResult
  <2>1. fromJBE' \in Seq(Lines)
    BY <1>2, <1>3 DEF ReadResult
  <2>2. PipesTypeOK'
    BY <1>3, <2>1 DEF ReadResult, GotAnswer, GotReply, TypeOK, PipesTypeOK
  <2>3. CASE GotReply
    BY <1>0, <1>3, <2>2, <2>3
       DEF ReadResult, GotReply, historyVars, TypeOK, FrontTypeOK, Waits
  <2>4. CASE GotAnswer /\ eventQueue # <<>>
    <3>1. ReturnEvent(eventQueue) /\ waiting' = "no" /\ UNCHANGED outgoing
      BY <2>4 DEF GotAnswer
    <3>2. /\ eventQueue' \in Seq(Events)
          /\ returned' \in Events \cup {NoEvent}
      BY <2>4, <3>1, ReturnEventType DEF TypeOK, FrontTypeOK
    <3> QED
      BY <1>0, <1>3, <2>2, <3>1, <3>2 DEF ReadResult, historyVars, TypeOK, FrontTypeOK, Waits
  <2>5. CASE GotAnswer /\ eventQueue = <<>>
    <3>1. outgoing' \in Commands \cup {NoCommand}
      BY <2>5 DEF GotAnswer, Send, Command, Commands, Fns, AskFns, Sources,
                  TypeOK, FrontTypeOK
    <3>2. returned' \in Events \cup {NoEvent}
      BY <2>5 DEF GotAnswer, TypeOK, FrontTypeOK
    <3>3. waiting' \in Waits /\ eventQueue' = eventQueue
      BY <2>5 DEF GotAnswer, TypeOK, FrontTypeOK, Waits
    <3> QED
      BY <1>0, <1>3, <2>2, <3>1, <3>2, <3>3
         DEF ReadResult, historyVars, TypeOK, FrontTypeOK
  <2> QED
    BY <1>3, <2>3, <2>4, <2>5 DEF ReadResult
<1>4. CASE ReadEvent
  <2> DEFINE e == ParseEvent(Head(fromJBE))
  <2>1. fromJBE' \in Seq(Lines)
    BY <1>2, <1>4 DEF ReadEvent
  <2>2. e \in Events /\ e.src \in Sources /\ e.kind \in InputKinds \cup {"NULL"}
    BY DEF ParseEvent, Lookup, Events, NullEvent, Sources, TypeOK, FrontTypeOK
  <2>3. outgoing' \in Commands \cup {NoCommand}
    BY <1>4, <2>2 DEF ReadEvent, Send, Command, Commands, Fns, SilentFns, Masks,
                      TypeOK, FrontTypeOK
  <2>4. eventQueue' \in Seq(Events)
    BY <1>4, <2>2 DEF ReadEvent, TypeOK, FrontTypeOK
  <2>5. parsed' \subseteq InputKinds \cup {"NULL"}
    BY <1>4, <2>2 DEF ReadEvent, TypeOK, FrontTypeOK
  <2> QED
    BY <1>0, <1>4, <2>1, <2>3, <2>4, <2>5
       DEF ReadEvent, TypeOK, PipesTypeOK, FrontTypeOK
<1>5. CASE ReadGarbledArguments \/ ReadJunk
  BY <1>0, <1>2, <1>5 DEF ReadGarbledArguments, ReadJunk, frontVars,
                          TypeOK, PipesTypeOK, FrontTypeOK
<1>6. CASE ReadEOF
  BY <1>0, <1>6 DEF ReadEOF, frontVars, TypeOK, PipesTypeOK, FrontTypeOK
<1> QED
  BY <1>1, <1>3, <1>4, <1>5, <1>6 DEF LibraryStep, ReadStep

\* What acknowledging and moving on to another point of a handler leave typed.
LEMMA AcknowledgeType ==
    ASSUME TypeOK, AcknowledgeEvent
    PROVE  /\ fromJBE' \in Seq(Lines)
           /\ eventAcknowledged' \in BOOLEAN
           /\ eventPending' \in BOOLEAN
           /\ stray' \in BOOLEAN
<1>1. CASE eventAcknowledged
  BY <1>1 DEF AcknowledgeEvent, TypeOK, PipesTypeOK, BackTypeOK
<1>2. CASE ~eventAcknowledged
  <2>1. fromJBE' \in Seq(Lines)
    BY <1>2, ResultType, PrintLineType DEF AcknowledgeEvent, TypeOK
  <2> QED
    BY <1>2, <2>1 DEF AcknowledgeEvent, TypeOK, BackTypeOK
<1> QED
  BY <1>1, <1>2

\* A thread moves within its handler, and reports another line.
LEMMA GotoType ==
    ASSUME BackTypeOK, NEW t \in Threads, NEW to \in Points, Goto(t, to)
    PROVE  pc' \in [Threads -> Points]
BY DEF BackTypeOK, Goto

LEMMA ReportType ==
    ASSUME BackTypeOK, NEW t \in Threads, NEW l \in EventLines,
           line' = [line EXCEPT ![t] = l]
    PROVE  line' \in [Threads -> EventLines]
BY DEF BackTypeOK

\* An input and the steps of a listener keep the types.
LEMMA UserStepType ==
    ASSUME TypeOK, UserStep, UNCHANGED frontVars
    PROVE  TypeOK'
<1>0. FrontTypeOK'
  BY DEF TypeOK, FrontTypeOK, frontVars
<1>1. PICK kind \in Inputs, src \in Windows \cup Timers :
          HandleInput(kind, src) \/ IgnoreInput(kind, src)
  BY DEF UserStep
<1>2. EventLine(kind, src) \in EventLines
  BY EventLineType, InputsAssumption DEF Sources
<1>3. CASE HandleInput(kind, src)
  <2>1. pc' \in [Threads -> Points] /\ line' \in [Threads -> EventLines]
    BY <1>2, <1>3, GotoType, ReportType DEF HandleInput, Threads, Points, TypeOK
  <2> QED
    BY <1>0, <1>3, <2>1 DEF HandleInput, Input, pipeVars, protocolVars, windowVars,
                            TypeOK, PipesTypeOK, BackTypeOK
<1>4. CASE IgnoreInput(kind, src)
  BY <1>0, <1>4 DEF IgnoreInput, Input, pipeVars, protocolVars, windowVars,
                    TypeOK, PipesTypeOK, BackTypeOK
<1> QED
  BY <1>1, <1>3, <1>4

LEMMA ListenerStepType ==
    ASSUME TypeOK, NEW t \in Threads, ListenerStep(t), UNCHANGED frontVars
    PROVE  TypeOK'
<1>0. FrontTypeOK'
  BY DEF TypeOK, FrontTypeOK, frontVars
<1>1. CASE BeginLine(t)
  <2>1. PipesTypeOK'
    BY <1>1 DEF BeginLine, pipeVars, TypeOK, PipesTypeOK
  <2>2. /\ pc' \in [Threads -> Points]
        /\ eventLock' \in Threads \cup {Free}
        /\ partial' \in {"none", "open", "broken"}
    BY <1>1, GotoType DEF BeginLine, Points, TypeOK, BackTypeOK
  <2> QED
    BY <1>0, <1>1, <2>1, <2>2 DEF BeginLine, protocolVars, windowVars, TypeOK, BackTypeOK
<1>2. CASE EndLine(t)
  <2>1. (IF partial = "broken" THEN Junk ELSE line[t]) \in Lines
    BY DEF Junk, JunkLines, Lines, TypeOK, BackTypeOK
  <2>2. fromJBE' \in Seq(Lines)
    BY <1>2, <2>1, PrintLineType DEF EndLine, TypeOK
  <2>3. /\ pc' \in [Threads -> Points]
        /\ eventLock' \in Threads \cup {Free}
        /\ partial' \in {"none", "open", "broken"}
    BY <1>2, GotoType DEF EndLine, Points, TypeOK
  <2> QED
    BY <1>0, <1>2, <2>2, <2>3 DEF EndLine, protocolVars, windowVars,
                                  TypeOK, PipesTypeOK, BackTypeOK
<1>3. CASE Acknowledge(t)
  <2>1. pc' \in [Threads -> Points]
    BY <1>3, GotoType DEF Acknowledge, AfterAck, Points, TypeOK
  <2>2. /\ fromJBE' \in Seq(Lines)
        /\ eventAcknowledged' \in BOOLEAN
        /\ eventPending' \in BOOLEAN
        /\ stray' \in BOOLEAN
    BY <1>3, AcknowledgeType DEF Acknowledge
  <2> QED
    BY <1>0, <1>3, <2>1, <2>2 DEF Acknowledge, windowVars, TypeOK, PipesTypeOK, BackTypeOK
<1>4. CASE RemoveWindow(t)
  <2>1. pc' \in [Threads -> Points]
    BY <1>4, GotoType DEF RemoveWindow, Points, TypeOK
  <2>2. /\ register' \in [Threads -> Int] /\ jbeWindows' \subseteq Windows
        /\ miscounted' \in BOOLEAN
    BY <1>4 DEF RemoveWindow, TypeOK, BackTypeOK
  <2> QED
    BY <1>0, <1>4, <2>1, <2>2 DEF RemoveWindow, pipeVars, protocolVars,
                                  TypeOK, PipesTypeOK, BackTypeOK
<1>5. CASE StoreCount(t)
  <2>1. pc' \in [Threads -> Points]
    BY <1>5, GotoType DEF StoreCount, Points, TypeOK
  <2>2. activeWindowCount' \in Int /\ miscounted' \in BOOLEAN
    BY <1>5 DEF StoreCount, StoresCount, TypeOK, BackTypeOK
  <2> QED
    BY <1>0, <1>5, <2>1, <2>2 DEF StoreCount, pipeVars, protocolVars,
                                  TypeOK, PipesTypeOK, BackTypeOK
<1>6. CASE TestCount(t)
  <2>1. pc' \in [Threads -> Points] /\ shown' \subseteq Windows
    BY <1>6, GotoType DEF TestCount, Points, TypeOK, BackTypeOK
  <2>2. line' \in [Threads -> EventLines]
    BY <1>6, EventLineType, ReportType DEF TestCount, Sources, TypeOK, BackTypeOK
  <2> QED
    BY <1>0, <1>6, <2>1, <2>2 DEF TestCount, pipeVars, protocolVars,
                                  TypeOK, PipesTypeOK, BackTypeOK
<1>7. CASE ExitJVM(t)
  BY <1>0, <1>7 DEF ExitJVM, backVars, TypeOK, PipesTypeOK, BackTypeOK
<1> QED
  BY <1>1, <1>2, <1>3, <1>4, <1>5, <1>6, <1>7 DEF ListenerStep

\* A command is taken off the pipe, and nothing else of the pipes changes.
LEMMA ExecuteType ==
    ASSUME TypeOK, NEW fn, Execute(fn)
    PROVE  /\ toJBE' \in Seq(Commands)
           /\ Head(toJBE) \in Commands
           /\ current' \in Commands
BY DEF Execute, TypeOK, PipesTypeOK

\* The command thread starts a command and goes on to another point.
LEMMA ExecuteStepType ==
    ASSUME TypeOK, NEW fn, Execute(fn), UNCHANGED jvm,
           pc' \in [Threads -> Points], line' \in [Threads -> EventLines],
           jbeWindows' \subseteq Windows, register' \in [Threads -> Int],
           jbeTimers' \in [Timers -> {"absent", "stopped", "running"}]
    PROVE  PipesTypeOK' /\ BackTypeOK'
<1>1. PipesTypeOK'
  BY ExecuteType DEF Execute, TypeOK, PipesTypeOK
<1>2. BackTypeOK'
  BY ExecuteType DEF Execute, protocolVars, TypeOK, BackTypeOK
<1> QED
  BY <1>1, <1>2

\* The window a creation is about to show is one.
CreatesWindow == pc["cmd"] = "count" => current.src \in Windows

\* The steps of the command thread keep the types.
LEMMA CommandStepType ==
    ASSUME TypeOK, CreatesWindow, CommandStep, UNCHANGED frontVars
    PROVE  TypeOK'
<1>0. FrontTypeOK'
  BY DEF TypeOK, FrontTypeOK, frontVars
<1> USE DEF TypeOK
<1>a. /\ pc \in [Threads -> Points] /\ line \in [Threads -> EventLines]
      /\ jbeWindows \subseteq Windows /\ register \in [Threads -> Int]
      /\ jbeTimers \in [Timers -> {"absent", "stopped", "running"}]
  BY DEF BackTypeOK
<1>b. "cmd" \in Threads
  BY DEF Threads
<1>1. CASE GTimer_pause
  <2>1. pc' \in [Threads -> Points]
    BY <1>1, <1>b, GotoType DEF GTimer_pause, Points
  <2> QED
    BY <1>0, <1>a, <1>1, <2>1, ExecuteStepType DEF GTimer_pause
<1>2. CASE GWindow_create
  <2>1. pc' \in [Threads -> Points]
    BY <1>2, <1>b, GotoType DEF GWindow_create, Points
  <2>2. register' \in [Threads -> Int]
    BY <1>2 DEF GWindow_create, BackTypeOK
  <2>3. jbeWindows' \subseteq Windows
    BY <1>a, <1>2, ExecuteType DEF GWindow_create, Execute, Commands
  <2> QED
    BY <1>0, <1>a, <1>2, <2>1, <2>2, <2>3, ExecuteStepType DEF GWindow_create
<1>3. CASE ShowWindow
  <2>1. pc' \in [Threads -> Points]
    BY <1>3, <1>b, GotoType DEF ShowWindow, Points
  <2>2. activeWindowCount' \in Int /\ shown' \subseteq Windows /\ miscounted' \in BOOLEAN
    BY <1>3 DEF ShowWindow, StoresCount, At, CreatesWindow, BackTypeOK, Threads
  <2> QED
    BY <1>0, <1>3, <2>1, <2>2 DEF ShowWindow, pipeVars, protocolVars,
                                  PipesTypeOK, BackTypeOK
<1>4. CASE NoReply
  BY <1>0, <1>a, <1>4, ExecuteStepType DEF NoReply
<1>5. CASE GWindow_close
  <2>1. pc' \in [Threads -> Points]
    BY <1>a, <1>5, <1>b, GotoType DEF GWindow_close, Points
  <2>2. EventLine("windowClosed", Head(toJBE).src) \in EventLines
    BY <1>5, ExecuteType, EventLineType DEF GWindow_close, Commands, InputKinds
  <2>3. line' \in [Threads -> EventLines]
    BY <1>a, <1>5, <1>b, <2>2, ReportType DEF GWindow_close
  <2> QED
    BY <1>0, <1>a, <1>5, <2>1, <2>3, ExecuteStepType DEF GWindow_close
<1>6. CASE Reply
  <2>1. fromJBE' \in Seq(Lines)
    BY <1>6, ResultType, EventLineType, PrintLineType DEF Reply, Lines, Sources
  <2>2. pc' \in [Threads -> Points] /\ partial' \in {"none", "open", "broken"}
    BY <1>6, <1>b, GotoType DEF Reply, Points, BackTypeOK
  <2> QED
    BY <1>0, <1>6, <2>1, <2>2 DEF Reply, protocolVars, windowVars,
                                  PipesTypeOK, BackTypeOK
<1>7. CASE GEvent_ask
  <2>1. pc' \in [Threads -> Points]
    BY <1>7, <1>b, GotoType DEF GEvent_ask, Points
  <2> QED
    BY <1>0, <1>a, <1>7, <2>1, ExecuteStepType DEF GEvent_ask
<1>8. CASE AwaitEvent \/ SetMask
  <2>1. pc' \in [Threads -> Points]
    BY <1>8, <1>b, GotoType DEF AwaitEvent, SetMask, Points
  <2>2. selected' \in Masks
    BY <1>8 DEF AwaitEvent, SetMask, Commands, BackTypeOK
  <2> QED
    BY <1>0, <1>8, <2>1, <2>2 DEF AwaitEvent, SetMask, pipeVars, windowVars,
                                  PipesTypeOK, BackTypeOK
<1>9. CASE AnswerNow
  <2>1. fromJBE' \in Seq(Lines)
    BY <1>9, ResultType, PrintLineType DEF AnswerNow
  <2>2. pc' \in [Threads -> Points] /\ eventLock' \in Threads
    BY <1>9, <1>b, GotoType DEF AnswerNow, Points
  <2> QED
    BY <1>0, <1>9, <2>1, <2>2 DEF AnswerNow, windowVars, PipesTypeOK, BackTypeOK
<1>10. ASSUME NEW fn, NEW to \in {"absent", "stopped", "running"}, SetTimer(fn, to)
       PROVE  TypeOK'
  <2>1. jbeTimers' \in [Timers -> {"absent", "stopped", "running"}]
    BY <1>a, <1>10 DEF SetTimer
  <2> QED
    BY <1>0, <1>a, <1>10, <2>1, ExecuteStepType DEF SetTimer
<1> HIDE DEF TypeOK
<1> QED
  BY <1>1, <1>2, <1>3, <1>4, <1>5, <1>6, <1>7, <1>8, <1>9, <1>10 DEF CommandStep

\* The command thread stays between counting and showing until it shows.
LEMMA CreatesWindowStep ==
    ASSUME TypeOK, CreatesWindow, [Next]_vars
    PROVE  CreatesWindow'
<1> USE DEF CreatesWindow
<1>1. CASE UNCHANGED vars \/ FrontStep
  BY <1>1 DEF vars, backVars, FrontStep
<1>2. CASE BackStep
  <2>1. CASE UserStep
    BY <2>1 DEF UserStep, HandleInput, IgnoreInput, Input, Goto, Threads, TypeOK, BackTypeOK
  <2>2. ASSUME NEW t \in Threads, ListenerStep(t) PROVE CreatesWindow'
    BY <2>2 DEF ListenerStep, BeginLine, EndLine, Acknowledge, AfterAck, RemoveWindow,
                StoreCount, TestCount, ExitJVM, backVars, Goto, Threads,
                TypeOK, BackTypeOK
  <2>3. CASE CommandStep
    <3>1. CASE GWindow_create
      BY <3>1, ExecuteType DEF GWindow_create, Execute, Commands
    <3>2. ASSUME NEW fn, Execute(fn), pc' = pc PROVE CreatesWindow'
      BY <3>2 DEF Execute, At
    <3>3. ASSUME NEW to \in Points \ {"count"}, Goto("cmd", to) PROVE CreatesWindow'
      BY <3>3 DEF Goto, Threads, TypeOK, BackTypeOK
    <3> QED
      BY <2>3, <3>1, <3>2, <3>3
         DEF CommandStep, GTimer_pause, ShowWindow, NoReply, GWindow_close, SetTimer,
             Reply, GEvent_ask, AwaitEvent, AnswerNow, SetMask, Points
  <2> QED
    BY <1>2, <2>1, <2>2, <2>3 DEF BackStep, ThreadStep
<1> QED
  BY <1>1, <1>2 DEF Next

\* The two processes start in typed states, and CreatesWindow is true of the
\* commands they start with.
LEMMA InitTypes == Init => TypeOK /\ CreatesWindow
<1> SUFFICES ASSUME Init PROVE TypeOK /\ CreatesWindow
  OBVIOUS
<1>1. PipesTypeOK
  BY DEF Init, PipesInit, PipesTypeOK
<1>2. FrontTypeOK
  <2>1. returned \in Events \cup {NoEvent}
    BY DEF Init, FrontInit, Masks
  <2>2. askedMask \in Masks /\ eventQueue \in Seq(Events)
    BY DEF Init, FrontInit, Masks
  <2>3. /\ initialized \in BOOLEAN /\ waiting \in Waits /\ calls \in Nat
        /\ windowTable = {} /\ timerTable = {} /\ made = {} /\ outgoing = NoCommand
        /\ masks = {} /\ parsed = {} /\ dropped = {}
    BY DEF Init, FrontInit, Waits
  <2> QED
    BY <2>1, <2>2, <2>3 DEF FrontTypeOK
<1>3. BackTypeOK
  <2>1. current \in Commands /\ selected \in Masks
    BY DEF Init, BackInit, Masks, Command, Commands, Fns, SilentFns, Sources
  <2>2. line \in [Threads -> EventLines]
    BY EventLineType DEF Init, BackInit, Sources
  <2>3. /\ pc \in [Threads -> Points] /\ register \in [Threads -> Int]
        /\ jbeTimers \in [Timers -> {"absent", "stopped", "running"}]
    BY DEF Init, BackInit, Points
  <2>4. /\ eventAcknowledged \in BOOLEAN /\ eventPending \in BOOLEAN
        /\ asked \in BOOLEAN /\ stray \in BOOLEAN /\ miscounted \in BOOLEAN
    BY DEF Init, BackInit
  <2>5. /\ eventLock \in Threads \cup {Free} /\ partial \in {"none", "open", "broken"}
        /\ jbeWindows \subseteq Windows /\ shown \subseteq Windows
        /\ activeWindowCount \in Int /\ inputs \in Nat
    BY DEF Init, BackInit
  <2> QED
    BY <2>1, <2>2, <2>3, <2>4, <2>5 DEF BackTypeOK
<1>4. CreatesWindow
  BY DEF Init, BackInit, CreatesWindow, Threads
<1> QED
  BY <1>1, <1>2, <1>3, <1>4 DEF TypeOK

\* Every step of either process leaves a typed state.
LEMMA NextTypes ==
  ASSUME TypeOK, CreatesWindow, [Next]_vars
  PROVE  TypeOK'
<1>1. CASE UNCHANGED vars
  BY <1>1 DEF vars, pipeVars, frontVars, backVars,
              TypeOK, PipesTypeOK, FrontTypeOK, BackTypeOK
<1>2. CASE FrontStep
  BY <1>2, ProgramStepType, LibraryStepType DEF FrontStep
<1>3. CASE BackStep
  BY <1>3, UserStepType, ListenerStepType, CommandStepType DEF BackStep, ThreadStep
<1> QED
  BY <1>1, <1>2, <1>3 DEF Next

\* Every state of the composed system is well typed, whatever operations the
\* program calls and whatever the user does: the tables hold windows and timers
\* of the program, the count an integer, each pipe lines of its own sort.
THEOREM TypeCorrect == Spec => []TypeOK
<1>1. TypeOK /\ CreatesWindow /\ [Next]_vars => TypeOK' /\ CreatesWindow'
  BY NextTypes, CreatesWindowStep
<1> QED
  BY <1>1, InitTypes, PTL DEF Spec

-----------------------------------------------------------------------------
(* How long windows and timers live on the two sides: why the count of the *)
(* windows is right until an update is lost, and why an event finds its    *)
(* source until the tables are made anew.                                  *)

\* The table is ahead of the count from the time a window is in it to the time the
\* count is stored, and behind while a window that has gone is still counted.
ToCount == IF pc["cmd"] = "count" THEN 1 ELSE 0
ToDiscount(t) == IF pc[t] = "store" THEN 1 ELSE 0

WindowsInv ==
    /\ IsFiniteSet(jbeWindows)
    /\ ~miscounted =>
           Cardinality(jbeWindows) + ToDiscount("cmd") + ToDiscount("edt")
               <= activeWindowCount + ToCount

\* The back end speaks of the windows and timers the program made, and of no others.
MakingFns == {"create", "createTimer", "startTimer", "stopTimer", "deleteTimer"}
OfMade(c) == c.fn \in MakingFns => c.src \in made
Tells(l) == l.what \in InputKinds => l.src \in made

BackKnows ==
    /\ jbeWindows \subseteq made
    /\ shown \subseteq made
    /\ \A tm \in Timers : jbeTimers[tm] # "absent" => tm \in made
    /\ pc["cmd"] = "count" => current.src \in made
    /\ \A t \in Threads : Tells(line[t])

\* What is queued or returned without a source.
SomeUnknown == Unknown(returned) \/ \E i \in DOMAIN eventQueue : Unknown(eventQueue[i])

SourcesInv ==
    /\ made \subseteq windowTable \cup timerTable \cup dropped
    /\ OfMade(outgoing)
    /\ \A i \in DOMAIN toJBE : OfMade(toJBE[i])
    /\ BackKnows
    /\ \A i \in DOMAIN fromJBE : Tells(fromJBE[i])
    /\ SomeUnknown => dropped # {}

-----------------------------------------------------------------------------
\* Where a thread is after it went somewhere, and what it reports.
LEMMA Went ==
    ASSUME TypeOK, NEW t \in Threads, NEW to, Goto(t, to)
    PROVE  pc'[t] = to /\ \A u \in Threads \ {t} : pc'[u] = pc[u]
BY DEF Goto, TypeOK, BackTypeOK

LEMMA Reports ==
    ASSUME TypeOK, NEW t \in Threads, NEW l, line' = [line EXCEPT ![t] = l]
    PROVE  line'[t] = l /\ \A u \in Threads \ {t} : line'[u] = line[u]
BY DEF TypeOK, BackTypeOK

\* A step that leaves the table and the count alone, of a thread that neither was
\* about to store the count nor will be.
LEMMA CountUntouched ==
    ASSUME WindowsInv, UNCHANGED <<jbeWindows, activeWindowCount, miscounted>>,
           ToCount' = ToCount, \A t \in Threads : ToDiscount(t)' = ToDiscount(t)
    PROVE  WindowsInv'
BY DEF WindowsInv, Threads

LEMMA GoesElsewhere ==
    ASSUME TypeOK, WindowsInv, NEW t \in Threads, NEW to, Goto(t, to),
           pc[t] \notin {"count", "store"}, to \notin {"count", "store"},
           UNCHANGED <<jbeWindows, activeWindowCount, miscounted>>
    PROVE  WindowsInv'
<1>1. pc'[t] = to /\ \A u \in Threads \ {t} : pc'[u] = pc[u]
  BY Went
<1>2. ToCount' = ToCount /\ \A u \in Threads : ToDiscount(u)' = ToDiscount(u)
  BY <1>1 DEF ToCount, ToDiscount, Threads
<1> QED
  BY <1>2, CountUntouched

LEMMA StandsStill ==
    ASSUME WindowsInv, UNCHANGED <<pc, jbeWindows, activeWindowCount, miscounted>>
    PROVE  WindowsInv'
BY DEF WindowsInv, ToCount, ToDiscount

\* A listener closes a window: the table loses it, the count follows.
LEMMA ListenerWindows ==
    ASSUME TypeOK, WindowsInv, NEW t \in Threads, ListenerStep(t)
    PROVE  WindowsInv'
<1>t. activeWindowCount \in Int /\ register \in [Threads -> Int] /\ miscounted \in BOOLEAN
  BY DEF TypeOK, BackTypeOK
<1>c. IsFiniteSet(jbeWindows) /\ Cardinality(jbeWindows) \in Nat
  BY FS_CardinalityType DEF WindowsInv
<1>1. CASE BeginLine(t) \/ EndLine(t) \/ Acknowledge(t)
  <2>1. UNCHANGED <<jbeWindows, activeWindowCount, miscounted>>
    BY <1>1 DEF BeginLine, EndLine, Acknowledge, windowVars
  <2>2. \E to : Goto(t, to) /\ to \notin {"count", "store"}
    BY <1>1 DEF BeginLine, EndLine, Acknowledge, AfterAck
  <2>3. pc[t] \notin {"count", "store"}
    BY <1>1 DEF BeginLine, EndLine, Acknowledge, At
  <2> QED
    BY <2>1, <2>2, <2>3, GoesElsewhere
<1>2. CASE RemoveWindow(t)
  <2>1. /\ pc[t] = "remove" /\ UNCHANGED activeWindowCount
        /\ jbeWindows' = jbeWindows \ {line[t].src}
        /\ miscounted' = (miscounted \/ line[t].src \notin jbeWindows)
    BY <1>2 DEF RemoveWindow, At
  <2>2. pc'[t] = "store" /\ \A u \in Threads \ {t} : pc'[u] = pc[u]
    BY <1>2, Went DEF RemoveWindow
  <2>3. IsFiniteSet(jbeWindows')
    BY <1>c, <2>1, FS_Subset
  <2>4. ASSUME ~miscounted'
        PROVE  Cardinality(jbeWindows') = Cardinality(jbeWindows) - 1
    BY <1>c, <2>1, <2>4, FS_RemoveElement
  <2>5. Cardinality(jbeWindows') \in Nat
    BY <2>3, FS_CardinalityType
  <2>6. ToCount' = ToCount
    BY <2>1, <2>2 DEF ToCount, Threads
  <2>7. ToDiscount("cmd")' + ToDiscount("edt")' = ToDiscount("cmd") + ToDiscount("edt") + 1
    BY <2>1, <2>2 DEF ToDiscount, Threads
  <2>8. ToDiscount("cmd") \in Int /\ ToDiscount("edt") \in Int /\ ToCount \in Int
    BY DEF ToDiscount, ToCount
  <2>9. ToDiscount("cmd")' \in Int /\ ToDiscount("edt")' \in Int
    BY DEF ToDiscount
  <2> HIDE DEF ToDiscount, ToCount
  <2> QED
    BY <1>c, <1>t, <2>1, <2>3, <2>4, <2>5, <2>6, <2>7, <2>8, <2>9 DEF WindowsInv
<1>3. CASE StoreCount(t)
  <2>1. /\ pc[t] = "store" /\ UNCHANGED jbeWindows
        /\ activeWindowCount' = register[t] - 1
        /\ miscounted' = (miscounted \/ register[t] # activeWindowCount)
    BY <1>3 DEF StoreCount, StoresCount, At
  <2>2. pc'[t] = "test" /\ \A u \in Threads \ {t} : pc'[u] = pc[u]
    BY <1>3, Went DEF StoreCount
  <2>3. ToCount' = ToCount
    BY <2>1, <2>2 DEF ToCount, Threads
  <2>4. ToDiscount("cmd")' + ToDiscount("edt")' = ToDiscount("cmd") + ToDiscount("edt") - 1
    BY <2>1, <2>2 DEF ToDiscount, Threads
  <2>5. ToDiscount("cmd") \in Int /\ ToDiscount("edt") \in Int /\ ToCount \in Int
    BY DEF ToDiscount, ToCount
  <2>6. ToDiscount("cmd")' \in Int /\ ToDiscount("edt")' \in Int
    BY DEF ToDiscount
  <2>7. IsFiniteSet(jbeWindows') /\ Cardinality(jbeWindows') = Cardinality(jbeWindows)
    BY <1>c, <2>1
  <2>8. ASSUME ~miscounted'
        PROVE  ~miscounted /\ activeWindowCount' = activeWindowCount - 1
    BY <1>t, <2>1, <2>8
  <2> QED
    BY <1>c, <1>t, <2>3, <2>4, <2>5, <2>6, <2>7, <2>8 DEF WindowsInv
<1>4. CASE TestCount(t)
  <2>1. UNCHANGED <<jbeWindows, activeWindowCount, miscounted>>
    BY <1>4 DEF TestCount
  <2>2. \E to : Goto(t, to) /\ to \notin {"count", "store"}
    BY <1>4 DEF TestCount
  <2>3. pc[t] \notin {"count", "store"}
    BY <1>4 DEF TestCount, At
  <2> QED
    BY <2>1, <2>2, <2>3, GoesElsewhere
<1>5. CASE ExitJVM(t)
  BY <1>5, StandsStill DEF ExitJVM, backVars
<1> QED
  BY <1>1, <1>2, <1>3, <1>4, <1>5 DEF ListenerStep

\* A window is added to the table and then counted; other commands count nothing.
LEMMA CommandWindows ==
    ASSUME TypeOK, WindowsInv, CommandStep
    PROVE  WindowsInv'
<1>0. "cmd" \in Threads /\ "edt" \in Threads \ {"cmd"}
  BY DEF Threads
<1>t. activeWindowCount \in Int /\ register \in [Threads -> Int] /\ miscounted \in BOOLEAN
  BY DEF TypeOK, BackTypeOK
<1>c. IsFiniteSet(jbeWindows) /\ Cardinality(jbeWindows) \in Nat
  BY FS_CardinalityType DEF WindowsInv
<1>e. ASSUME NEW fn, Execute(fn)
      PROVE  pc["cmd"] = "idle" /\ UNCHANGED <<activeWindowCount, miscounted>>
  BY <1>e DEF Execute, At
<1>1. CASE GWindow_create
  <2>1. PICK w : jbeWindows' = jbeWindows \cup {w}
    BY <1>1 DEF GWindow_create
  <2>2. pc'["cmd"] = "count" /\ pc'["edt"] = pc["edt"]
    BY <1>0, <1>1, Went DEF GWindow_create
  <2>3. pc["cmd"] = "idle" /\ UNCHANGED <<activeWindowCount, miscounted>>
    BY <1>1, <1>e DEF GWindow_create
  <2>4. IsFiniteSet(jbeWindows') /\ Cardinality(jbeWindows') <= Cardinality(jbeWindows) + 1
    <3>1. /\ IsFiniteSet(jbeWindows \cup {w})
          /\ Cardinality(jbeWindows \cup {w}) =
                 IF w \in jbeWindows THEN Cardinality(jbeWindows) ELSE Cardinality(jbeWindows) + 1
      BY <1>c, FS_AddElement
    <3>2. Cardinality(jbeWindows \cup {w}) <= Cardinality(jbeWindows) + 1
      BY <1>c, <3>1
    <3> QED
      BY <2>1, <3>1, <3>2
  <2>5. Cardinality(jbeWindows') \in Nat
    BY <2>4, FS_CardinalityType
  <2>6. /\ ToCount = 0 /\ ToCount' = 1
        /\ ToDiscount("cmd") = 0 /\ ToDiscount("cmd")' = 0
        /\ ToDiscount("edt")' = ToDiscount("edt") /\ ToDiscount("edt") \in Int
    BY <2>2, <2>3 DEF ToCount, ToDiscount
  <2> HIDE DEF ToCount, ToDiscount
  <2> QED
    BY <1>c, <1>t, <2>3, <2>4, <2>5, <2>6 DEF WindowsInv
<1>2. CASE ShowWindow
  <2>1. /\ UNCHANGED jbeWindows /\ pc["cmd"] = "count"
        /\ activeWindowCount' = register["cmd"] + 1
        /\ miscounted' = (miscounted \/ register["cmd"] # activeWindowCount)
    BY <1>2 DEF ShowWindow, StoresCount, At
  <2>2. pc'["cmd"] = "reply" /\ pc'["edt"] = pc["edt"]
    BY <1>0, <1>2, Went DEF ShowWindow
  <2>3. /\ ToCount = 1 /\ ToCount' = 0
        /\ ToDiscount("cmd") = 0 /\ ToDiscount("cmd")' = 0
        /\ ToDiscount("edt")' = ToDiscount("edt") /\ ToDiscount("edt") \in Int
    BY <2>1, <2>2 DEF ToCount, ToDiscount
  <2>4. IsFiniteSet(jbeWindows') /\ Cardinality(jbeWindows') = Cardinality(jbeWindows)
    BY <1>c, <2>1
  <2>5. ASSUME ~miscounted'
        PROVE  ~miscounted /\ activeWindowCount' = activeWindowCount + 1
    BY <1>0, <1>t, <2>1, <2>5
  <2> QED
    BY <1>c, <1>t, <2>3, <2>4, <2>5 DEF WindowsInv
<1>3. ASSUME UNCHANGED <<jbeWindows, activeWindowCount, miscounted>>,
             pc["cmd"] \in {"idle", "reply", "ask", "setMask"},
             \/ pc' = pc
             \/ \E to \in {"idle", "reply", "ask", "setMask", "report"} : Goto("cmd", to)
      PROVE  WindowsInv'
  BY <1>0, <1>3, GoesElsewhere, StandsStill
<1>4. CASE GWindow_close
  BY <1>3, <1>4, <1>e DEF GWindow_close
<1>5. CASE GTimer_pause
  BY <1>3, <1>5, <1>e DEF GTimer_pause
<1>6. CASE NoReply
  BY <1>3, <1>6, <1>e DEF NoReply
<1>7. ASSUME NEW fn, NEW to, SetTimer(fn, to) PROVE WindowsInv'
  BY <1>3, <1>7, <1>e DEF SetTimer
<1>8. CASE GEvent_ask
  BY <1>3, <1>8, <1>e DEF GEvent_ask
<1>9. CASE Reply
  BY <1>3, <1>9 DEF Reply, windowVars, At
<1>10. CASE AwaitEvent \/ SetMask
  BY <1>3, <1>10 DEF AwaitEvent, SetMask, windowVars, At
<1>11. CASE AnswerNow
  BY <1>3, <1>11 DEF AnswerNow, windowVars, At
<1> QED
  BY <1>1, <1>2, <1>4, <1>5, <1>6, <1>7, <1>8, <1>9, <1>10, <1>11 DEF CommandStep

\* The back end decides to exit only when no window is left in its table but one that
\* is being created, however many windows the program makes and the program and the
\* user close, in whatever order, until an update of the count is lost or a window is
\* counted down twice.
THEOREM ExitIsWithLastWindow == Spec => []ExitsWithLastWindow
<1>1. Init => WindowsInv
  BY FS_EmptySet DEF Init, BackInit, WindowsInv, ToCount, ToDiscount, Threads
<1>2. TypeOK /\ WindowsInv /\ [Next]_vars => WindowsInv'
  <2> SUFFICES ASSUME TypeOK, WindowsInv, [Next]_vars PROVE WindowsInv'
    OBVIOUS
  <2>1. CASE UNCHANGED backVars
    BY <2>1, StandsStill DEF backVars
  <2>2. CASE BackStep
    <3>1. CASE UserStep
      <4>1. UNCHANGED <<jbeWindows, activeWindowCount, miscounted>>
        BY <3>1 DEF UserStep, HandleInput, IgnoreInput, Input, windowVars
      <4>2. pc["edt"] = "idle" /\ (pc' = pc \/ Goto("edt", "report"))
        BY <3>1 DEF UserStep, HandleInput, IgnoreInput, Input, At
      <4> QED
        BY <4>1, <4>2, GoesElsewhere, StandsStill DEF Threads
    <3> QED
      BY <2>2, <3>1, ListenerWindows, CommandWindows DEF BackStep, ThreadStep
  <2> QED
    BY <2>1, <2>2 DEF Next, FrontStep, vars
<1>3. TypeOK /\ WindowsInv => ExitsWithLastWindow
  <2> SUFFICES ASSUME TypeOK, WindowsInv, ~miscounted, NEW t \in Threads, pc[t] = "test",
                      activeWindowCount = 0
               PROVE  Cardinality(jbeWindows) <= (IF pc["cmd"] = "count" THEN 1 ELSE 0)
    BY DEF ExitsWithLastWindow
  <2>1. Cardinality(jbeWindows) \in Nat
    BY FS_CardinalityType DEF WindowsInv
  <2>2. ToDiscount("cmd") \in Nat /\ ToDiscount("edt") \in Nat
    BY DEF ToDiscount
  <2>3. Cardinality(jbeWindows) <= ToCount
    BY <2>1, <2>2 DEF WindowsInv, ToCount
  <2> QED
    BY <2>3 DEF ToCount
<1> QED
  BY <1>1, <1>2, <1>3, TypeCorrect, PTL DEF Spec

-----------------------------------------------------------------------------
\* The parts of SourcesInv that speak of the pipes and the queue are kept when
\* these lose their head or grow by what fits.
LEMMA MadeCommandRead ==
    ASSUME TypeOK, SourcesInv, toJBE # <<>>, toJBE' = Tail(toJBE), made' = made
    PROVE  (\A i \in DOMAIN toJBE : OfMade(toJBE[i]))' /\ OfMade(Head(toJBE))
<1>1. toJBE \in Seq(Commands)
  BY DEF TypeOK, PipesTypeOK
<1>2. /\ 1 \in DOMAIN toJBE /\ toJBE[1] = Head(toJBE)
      /\ \A i \in DOMAIN Tail(toJBE) : i + 1 \in DOMAIN toJBE /\ Tail(toJBE)[i] = toJBE[i + 1]
  BY <1>1
<1>3. \A i \in DOMAIN toJBE : OfMade(toJBE[i])
  BY DEF SourcesInv
<1> QED
  BY <1>2, <1>3 DEF OfMade

LEMMA ToldRead ==
    ASSUME TypeOK, SourcesInv, fromJBE # <<>>, fromJBE' = Tail(fromJBE), made' = made
    PROVE  (\A i \in DOMAIN fromJBE : Tells(fromJBE[i]))' /\ Tells(Head(fromJBE))
<1>1. fromJBE \in Seq(Lines)
  BY DEF TypeOK, PipesTypeOK
<1>2. /\ 1 \in DOMAIN fromJBE /\ fromJBE[1] = Head(fromJBE)
      /\ \A i \in DOMAIN Tail(fromJBE) :
             i + 1 \in DOMAIN fromJBE /\ Tail(fromJBE)[i] = fromJBE[i + 1]
  BY <1>1
<1>3. \A i \in DOMAIN fromJBE : Tells(fromJBE[i])
  BY DEF SourcesInv
<1> QED
  BY <1>2, <1>3 DEF Tells

LEMMA ToldPrinted ==
    ASSUME TypeOK, SourcesInv, NEW l, Tells(l), PrintLine(l), made' = made
    PROVE  (\A i \in DOMAIN fromJBE : Tells(fromJBE[i]))'
<1>0. Tells(l)' /\ \A i \in DOMAIN fromJBE : Tells(fromJBE[i])
  BY DEF SourcesInv, Tells
<1>1. CASE fromJBE' = fromJBE
  BY <1>0, <1>1 DEF Tells
<1>2. CASE fromJBE' = Append(fromJBE, l)
  <2>1. fromJBE \in Seq(Lines)
    BY DEF TypeOK, PipesTypeOK
  <2>2. \A i \in DOMAIN fromJBE' : \/ i \in DOMAIN fromJBE /\ fromJBE'[i] = fromJBE[i]
                                   \/ fromJBE'[i] = l
    BY <1>2, <2>1
  <2> QED
    BY <1>0, <2>2 DEF Tells
<1> QED
  BY <1>1, <1>2 DEF PrintLine

\* An event taken from the queue to be returned.
LEMMA UnknownReturned ==
    ASSUME TypeOK, SourcesInv, eventQueue # <<>>, ReturnEvent(eventQueue), dropped' = dropped
    PROVE  (SomeUnknown => dropped # {})'
<1>1. eventQueue \in Seq(Events)
  BY DEF TypeOK, FrontTypeOK
<1>2. /\ 1 \in DOMAIN eventQueue /\ eventQueue[1] = Head(eventQueue)
      /\ \A i \in DOMAIN Tail(eventQueue) :
             i + 1 \in DOMAIN eventQueue /\ Tail(eventQueue)[i] = eventQueue[i + 1]
  BY <1>1
<1>3. SomeUnknown' => SomeUnknown
  BY <1>2 DEF ReturnEvent, SomeUnknown, Unknown
<1> QED
  BY <1>3 DEF SourcesInv

LEMMA ProgramSources ==
    ASSUME TypeOK, SourcesInv, ProgramStep, UNCHANGED backVars
    PROVE  SourcesInv'
<1>0. /\ toJBE' = toJBE /\ fromJBE' = fromJBE
      /\ UNCHANGED <<jbeWindows, shown, jbeTimers, pc, current, line>>
      /\ made \subseteq made'
  BY DEF ProgramStep, NewGWindow, CloseGWindow, NewShape, CallBeforeInit, NewGTimer,
         FreeGTimer, StartStopTimer, Pause, GetText, AskForEvent, pipeVars, backVars
<1>1. ASSUME made' \subseteq windowTable' \cup timerTable' \cup dropped', OfMade(outgoing)',
             (SomeUnknown => dropped # {})'
      PROVE  SourcesInv'
  <2>1. (\A i \in DOMAIN toJBE : OfMade(toJBE[i]))'
    BY <1>0 DEF SourcesInv, OfMade
  <2>2. BackKnows'
    BY <1>0 DEF SourcesInv, BackKnows, Tells
  <2>3. (\A i \in DOMAIN fromJBE : Tells(fromJBE[i]))'
    BY <1>0 DEF SourcesInv, Tells
  <2> QED
    BY <1>1, <2>1, <2>2, <2>3 DEF SourcesInv
<1>u. ASSUME UNCHANGED <<eventQueue, returned, dropped>> PROVE (SomeUnknown => dropped # {})'
  BY <1>u DEF SourcesInv, SomeUnknown, Unknown
<1>e. ASSUME eventQueue' = <<>>, returned' = returned, dropped \subseteq dropped'
      PROVE  (SomeUnknown => dropped # {})'
  BY <1>e DEF SourcesInv, SomeUnknown, Unknown
<1>m. /\ made \subseteq windowTable \cup timerTable \cup dropped
      /\ outgoing' = outgoing => OfMade(outgoing)'
  BY <1>0 DEF SourcesInv, OfMade
<1>2. ASSUME NEW fn \in {"create", "createReal"}, NEW w \in Windows, NewGWindow(fn, w)
      PROVE  SourcesInv'
  <2>1. made' \subseteq windowTable' \cup timerTable' \cup dropped'
    BY <1>2, <1>m DEF NewGWindow, InitPlatform
  <2>2. OfMade(outgoing)'
    BY <1>2 DEF NewGWindow, Request, Send, Command, OfMade
  <2>3. (SomeUnknown => dropped # {})'
    BY <1>2, <1>e DEF NewGWindow, InitPlatform
  <2> QED
    BY <1>1, <2>1, <2>2, <2>3
<1>3. ASSUME NewShape PROVE SourcesInv'
  <2>1. made' \subseteq windowTable' \cup timerTable' \cup dropped'
    BY <1>3, <1>m DEF NewShape, InitPlatform
  <2>2. OfMade(outgoing)'
    BY <1>3 DEF NewShape, Send, Command, OfMade, MakingFns
  <2>3. (SomeUnknown => dropped # {})'
    BY <1>3, <1>e DEF NewShape, InitPlatform
  <2> QED
    BY <1>1, <2>1, <2>2, <2>3
<1>4. ASSUME NEW tm \in Timers, NewGTimer(tm) \/ FreeGTimer(tm) PROVE SourcesInv'
  <2>1. made' \subseteq windowTable' \cup timerTable' \cup dropped'
    BY <1>4, <1>m DEF NewGTimer, FreeGTimer, historyVars
  <2>2. OfMade(outgoing)'
    BY <1>4 DEF NewGTimer, FreeGTimer, Send, Command, OfMade
  <2>3. (SomeUnknown => dropped # {})'
    BY <1>4, <1>u DEF NewGTimer, FreeGTimer, historyVars
  <2> QED
    BY <1>1, <2>1, <2>2, <2>3
<1>5. ASSUME NEW fn, NEW tm \in Timers, StartStopTimer(fn, tm) PROVE SourcesInv'
  <2>1. made' \subseteq windowTable' \cup timerTable' \cup dropped'
    BY <1>5, <1>m DEF StartStopTimer, historyVars
  <2>2. OfMade(outgoing)'
    BY <1>5 DEF StartStopTimer, Send, Command, OfMade
  <2>3. (SomeUnknown => dropped # {})'
    BY <1>5, <1>u DEF StartStopTimer, historyVars
  <2> QED
    BY <1>1, <2>1, <2>2, <2>3
<1>6. ASSUME (\E w : CloseGWindow(w)) \/ Pause \/ GetText PROVE SourcesInv'
  <2>1. made' \subseteq windowTable' \cup timerTable' \cup dropped'
    BY <1>6, <1>m DEF CloseGWindow, Pause, GetText, historyVars
  <2>2. OfMade(outgoing)'
    BY <1>6 DEF CloseGWindow, Pause, GetText, Request, Send, Command, OfMade, MakingFns
  <2>3. (SomeUnknown => dropped # {})'
    BY <1>6, <1>u DEF CloseGWindow, Pause, GetText, historyVars
  <2> QED
    BY <1>1, <2>1, <2>2, <2>3
<1>7. ASSUME NEW fn, CallBeforeInit(fn) PROVE SourcesInv'
  <2>1. UNCHANGED <<made, windowTable, timerTable, dropped, outgoing, eventQueue, returned>>
    BY <1>7 DEF CallBeforeInit, historyVars
  <2> QED
    BY <1>1, <1>m, <1>u, <2>1
<1>8. ASSUME NEW fn \in AskFns, NEW mask, AskForEvent(fn, mask) PROVE SourcesInv'
  <2>0. UNCHANGED <<made, windowTable, timerTable, dropped>>
    BY <1>8 DEF AskForEvent
  <2>1. CASE eventQueue = <<>>
    <3>1. OfMade(outgoing)' /\ UNCHANGED <<eventQueue, returned>>
      BY <1>8, <2>1 DEF AskForEvent, Send, Command, AskFns, OfMade, MakingFns
    <3> QED
      BY <1>1, <1>m, <1>u, <2>0, <3>1
  <2>2. CASE eventQueue # <<>>
    <3>1. ReturnEvent(eventQueue) /\ UNCHANGED outgoing
      BY <1>8, <2>2 DEF AskForEvent
    <3>2. (SomeUnknown => dropped # {})'
      BY <2>0, <2>2, <3>1, UnknownReturned
    <3> QED
      BY <1>1, <1>m, <2>0, <3>1, <3>2
  <2> QED
    BY <2>1, <2>2
<1> QED
  BY <1>2, <1>3, <1>4, <1>5, <1>6, <1>7, <1>8 DEF ProgramStep

\* The library passes commands on and takes events off the pipe.
LEMMA LibrarySources ==
    ASSUME TypeOK, SourcesInv, LibraryStep, UNCHANGED backVars
    PROVE  SourcesInv'
<1>0. UNCHANGED <<made, windowTable, timerTable, dropped, jbeWindows, shown, jbeTimers, pc,
                  current, line>>
  BY DEF LibraryStep, PutPipe, ReadStep, ReadResult, ReadEvent, ReadGarbledArguments, ReadJunk,
         ReadEOF, frontVars, backVars, historyVars
<1>1. ASSUME OfMade(outgoing)', (\A i \in DOMAIN toJBE : OfMade(toJBE[i]))',
             (\A i \in DOMAIN fromJBE : Tells(fromJBE[i]))',
             (SomeUnknown => dropped # {})'
      PROVE  SourcesInv'
  <2>1. BackKnows'
    BY <1>0 DEF SourcesInv, BackKnows, Tells
  <2> QED
    BY <1>0, <1>1, <2>1 DEF SourcesInv
<1>2. OfMade(NoCommand)'
  BY DEF NoCommand, Command, OfMade, MakingFns
<1>u. /\ toJBE' = toJBE => (\A i \in DOMAIN toJBE : OfMade(toJBE[i]))'
      /\ fromJBE' = fromJBE => (\A i \in DOMAIN fromJBE : Tells(fromJBE[i]))'
      /\ outgoing' = outgoing => OfMade(outgoing)'
      /\ UNCHANGED <<eventQueue, returned>> => (SomeUnknown => dropped # {})'
  BY <1>0 DEF SourcesInv, OfMade, Tells, SomeUnknown, Unknown
<1>3. CASE PutPipe
  <2>1. OfMade(outgoing)' /\ UNCHANGED <<fromJBE, eventQueue, returned>>
    BY <1>2, <1>3 DEF PutPipe
  <2>2. (\A i \in DOMAIN toJBE : OfMade(toJBE[i]))'
    <3>1. toJBE' = toJBE \/ toJBE' = Append(toJBE, outgoing)
      BY <1>3 DEF PutPipe
    <3>2. toJBE \in Seq(Commands)
      BY DEF TypeOK, PipesTypeOK
    <3>3. \A i \in DOMAIN toJBE' : \/ i \in DOMAIN toJBE /\ toJBE'[i] = toJBE[i]
                                   \/ toJBE'[i] = outgoing
      BY <3>1, <3>2
    <3> QED
      BY <1>0, <3>3 DEF SourcesInv, OfMade
  <2> QED
    BY <1>1, <1>u, <2>1, <2>2
<1>4. CASE ReadEOF
  BY <1>1, <1>4, <1>u DEF ReadEOF, frontVars
<1>5. ASSUME NEW tag, Reads(tag)
      PROVE  /\ outgoing = NoCommand
             /\ (\A i \in DOMAIN fromJBE : Tells(fromJBE[i]))' /\ Tells(Head(fromJBE))
  BY <1>0, <1>5, ToldRead DEF Reads
<1>6. CASE ReadGarbledArguments \/ ReadJunk
  BY <1>1, <1>5, <1>6, <1>u DEF ReadGarbledArguments, ReadJunk, frontVars
<1>7. CASE ReadEvent
  <2>1. /\ (\A i \in DOMAIN fromJBE : Tells(fromJBE[i]))' /\ Tells(Head(fromJBE))
        /\ UNCHANGED <<toJBE, returned>>
    BY <1>5, <1>7 DEF ReadEvent
  <2> DEFINE e == ParseEvent(Head(fromJBE))
  <2>2. eventQueue' = Append(eventQueue, e) /\ eventQueue \in Seq(Events)
    BY <1>7 DEF ReadEvent, TypeOK, FrontTypeOK
  <2>3. Unknown(e) => dropped # {}
    <3>1. /\ made \subseteq windowTable \cup timerTable \cup dropped
          /\ made \subseteq Windows \cup Timers /\ "NULL" \notin InputKinds
      BY DEF SourcesInv, TypeOK, FrontTypeOK, InputKinds
    <3> QED
      BY <2>1, <3>1, SourcesAssumption DEF ParseEvent, Lookup, Tells, NullEvent, Unknown
  <2>4. OfMade(outgoing)'
    BY <1>0, <1>2, <1>5, <1>7 DEF ReadEvent, Send, Command, OfMade, MakingFns
  <2>5. (SomeUnknown => dropped # {})'
    <3> HIDE DEF e
    <3>1. \A i \in DOMAIN eventQueue' : \/ i \in DOMAIN eventQueue /\ eventQueue'[i] = eventQueue[i]
                                        \/ eventQueue'[i] = e
      BY <2>2
    <3>2. SomeUnknown' => SomeUnknown \/ Unknown(e)
      BY <2>1, <3>1 DEF SomeUnknown, Unknown
    <3> QED
      BY <1>0, <2>3, <3>2 DEF SourcesInv
  <2> QED
    BY <1>1, <1>u, <2>1, <2>4, <2>5
<1>8. CASE ReadResult
  <2>1. /\ (\A i \in DOMAIN fromJBE : Tells(fromJBE[i]))' /\ outgoing = NoCommand
        /\ toJBE' = toJBE
    BY <1>5, <1>8 DEF ReadResult
  <2>2. CASE GotReply
    BY <1>1, <1>u, <2>1, <2>2 DEF GotReply
  <2>3. CASE GotAnswer
    <3>1. CASE eventQueue # <<>>
      BY <1>0, <1>1, <1>u, <2>1, <2>3, <3>1, UnknownReturned DEF GotAnswer
    <3>2. CASE eventQueue = <<>> /\ waiting = "getNextEvent"
      <4>1. returned' = NoEvent /\ UNCHANGED <<eventQueue, outgoing>>
        BY <2>3, <3>2 DEF GotAnswer
      <4>2. ~Unknown(NoEvent)
        BY DEF Unknown, NoEvent, InputKinds
      <4>3. (SomeUnknown => dropped # {})'
        BY <1>0, <4>1, <4>2 DEF SourcesInv, SomeUnknown, Unknown
      <4> QED
        BY <1>1, <1>u, <2>1, <4>1, <4>3
    <3>3. CASE eventQueue = <<>> /\ waiting # "getNextEvent"
      <4>1. UNCHANGED <<returned, eventQueue>> /\ OfMade(outgoing)'
        BY <2>3, <3>3 DEF GotAnswer, Send, Command, OfMade, MakingFns
      <4> QED
        BY <1>1, <1>u, <2>1, <4>1
    <3> QED
      BY <3>1, <3>2, <3>3
  <2> QED
    BY <1>8, <2>2, <2>3 DEF ReadResult
<1> QED
  BY <1>3, <1>4, <1>6, <1>7, <1>8 DEF LibraryStep, ReadStep

\* The back end: listeners print what they report of what is shown or ticks, and
\* commands add to both only what the program made.
LEMMA BackSources ==
    ASSUME TypeOK, SourcesInv, BackStep
    PROVE  SourcesInv'
<1>0. UNCHANGED <<made, windowTable, timerTable, dropped, outgoing, eventQueue, returned>>
  BY DEF BackStep, frontVars
<1>1. ASSUME (\A i \in DOMAIN toJBE : OfMade(toJBE[i]))', BackKnows',
             (\A i \in DOMAIN fromJBE : Tells(fromJBE[i]))'
      PROVE  SourcesInv'
  BY <1>0, <1>1 DEF SourcesInv, OfMade, SomeUnknown, Unknown
<1>r. ASSUME NEW t \in Threads, NEW l, Tells(l), line' = [line EXCEPT ![t] = l]
      PROVE  (\A u \in Threads : Tells(line[u]))'
  <2>1. \A u \in Threads : line'[u] = line[u] \/ line'[u] = l
    BY <1>r DEF TypeOK, BackTypeOK
  <2> QED
    BY <1>0, <1>r, <2>1 DEF SourcesInv, BackKnows, Tells
<1>k. /\ jbeWindows \subseteq made /\ shown \subseteq made
      /\ \A tm \in Timers : jbeTimers[tm] # "absent" => tm \in made
      /\ pc["cmd"] = "count" => current.src \in made
      /\ \A t \in Threads : Tells(line[t])
  BY DEF SourcesInv, BackKnows
<1>u. /\ toJBE' = toJBE => (\A i \in DOMAIN toJBE : OfMade(toJBE[i]))'
      /\ line' = line => (\A t \in Threads : Tells(line[t]))'
      /\ fromJBE' = fromJBE => (\A i \in DOMAIN fromJBE : Tells(fromJBE[i]))'
  BY <1>0 DEF SourcesInv, BackKnows, OfMade, Tells
<1>b. ASSUME jbeWindows' \subseteq made, shown' \subseteq made, jbeTimers' = jbeTimers,
             pc'["cmd"] = "count" => pc["cmd"] = "count" /\ current' = current,
             (\A t \in Threads : Tells(line[t]))'
      PROVE  BackKnows'
  BY <1>0, <1>b, <1>k DEF BackKnows
<1>g. ASSUME NEW t \in Threads, NEW to, Goto(t, to), to # "count"
      PROVE  pc'["cmd"] = "count" => pc["cmd"] = "count"
  BY <1>g, Went DEF Threads
<1>2. ASSUME NEW kind, NEW src, HandleInput(kind, src) \/ IgnoreInput(kind, src)
      PROVE  SourcesInv'
  <2>1. UNCHANGED <<toJBE, fromJBE, jbeTimers, jbeWindows, shown, current>>
    BY <1>2 DEF HandleInput, IgnoreInput, Input, pipeVars, windowVars
  <2>2. (\A t \in Threads : Tells(line[t]))'
    <3>1. CASE HandleInput(kind, src)
      <4>1. Tells(EventLine(kind, src))
        BY <1>k, <3>1 DEF HandleInput, Input, EventLine, Tells
      <4> QED
        BY <1>r, <3>1, <4>1 DEF HandleInput, Threads
    <3>2. CASE IgnoreInput(kind, src)
      BY <1>u, <3>2 DEF IgnoreInput
    <3> QED
      BY <1>2, <3>1, <3>2
  <2>3. pc'["cmd"] = "count" => pc["cmd"] = "count"
    BY <1>2, <1>g DEF HandleInput, IgnoreInput, Threads
  <2> QED
    BY <1>1, <1>b, <1>k, <1>u, <2>1, <2>2, <2>3
<1>3. ASSUME NEW what \in {"ok", "text", "ack"}, PrintLine(Result(what))
      PROVE  (\A i \in DOMAIN fromJBE : Tells(fromJBE[i]))'
  BY <1>0, <1>3, ToldPrinted DEF Result, Tells, InputKinds
<1>4. ASSUME NEW t \in Threads, ListenerStep(t) PROVE SourcesInv'
  <2>p. pc'["cmd"] = "count" => pc["cmd"] = "count"
    BY <1>4, <1>g DEF ListenerStep, BeginLine, EndLine, Acknowledge, AfterAck, RemoveWindow,
                      StoreCount, TestCount, ExitJVM, backVars
  <2>0. current' = current /\ jbeTimers' = jbeTimers /\ jbeWindows' \subseteq made
        /\ shown' \subseteq made /\ toJBE' = toJBE
    BY <1>4, <1>k DEF ListenerStep, BeginLine, EndLine, Acknowledge, RemoveWindow, StoreCount,
                      TestCount, ExitJVM, backVars, windowVars, pipeVars
  <2>1. CASE BeginLine(t) \/ RemoveWindow(t) \/ StoreCount(t) \/ ExitJVM(t)
    BY <1>1, <1>b, <1>u, <2>0, <2>p, <2>1
    DEF BeginLine, RemoveWindow, StoreCount, ExitJVM, pipeVars, backVars
  <2>2. CASE EndLine(t)
    <3>1. Tells(Junk) /\ Tells(line[t])
      BY <1>4, <1>k DEF Junk, Tells, InputKinds
    <3>2. (\A i \in DOMAIN fromJBE : Tells(fromJBE[i]))'
      BY <1>0, <2>2, <3>1, ToldPrinted DEF EndLine
    <3> QED
      BY <1>1, <1>b, <1>u, <2>0, <2>p, <2>2, <3>2 DEF EndLine
  <2>3. CASE Acknowledge(t)
    BY <1>1, <1>3, <1>b, <1>u, <2>0, <2>p, <2>3 DEF Acknowledge, AcknowledgeEvent
  <2>4. CASE TestCount(t)
    <3>1. Tells(EventLine("lastWindow", Nobody))
      BY DEF EventLine, Tells, InputKinds
    <3>2. (\A u \in Threads : Tells(line[u]))'
      BY <1>4, <1>r, <1>u, <2>4, <3>1 DEF TestCount
    <3> QED
      BY <1>1, <1>b, <1>u, <2>0, <2>p, <2>4, <3>2 DEF TestCount, pipeVars
  <2> QED
    BY <1>4, <2>1, <2>2, <2>3, <2>4 DEF ListenerStep
<1>5. ASSUME NEW fn, Execute(fn)
      PROVE  /\ (\A i \in DOMAIN toJBE : OfMade(toJBE[i]))'
             /\ (\A i \in DOMAIN fromJBE : Tells(fromJBE[i]))'
             /\ OfMade(Head(toJBE)) /\ Head(toJBE).fn = fn
             /\ current' = Head(toJBE) /\ shown' = shown /\ pc["cmd"] = "idle"
  BY <1>0, <1>5, <1>u, MadeCommandRead DEF Execute, At
<1>c. "cmd" \in Threads
  BY DEF Threads
<1>6. ASSUME GTimer_pause \/ NoReply \/ GEvent_ask PROVE SourcesInv'
  <2>1. UNCHANGED <<jbeWindows, jbeTimers, line>> /\ shown' = shown
    BY <1>5, <1>6 DEF GTimer_pause, NoReply, GEvent_ask
  <2>2. pc'["cmd"] # "count"
    BY <1>5, <1>6, <1>c, Went DEF GTimer_pause, NoReply, GEvent_ask
  <2> QED
    BY <1>1, <1>5, <1>6, <1>b, <1>k, <1>u, <2>1, <2>2 DEF GTimer_pause, NoReply, GEvent_ask
<1>w. CASE GWindow_create
  <2>1. Head(toJBE).src \in made
    BY <1>5, <1>w DEF GWindow_create, OfMade, MakingFns
  <2>2. jbeWindows' \subseteq made /\ current'.src \in made /\ shown' \subseteq made
        /\ UNCHANGED <<jbeTimers, line>>
    BY <1>5, <1>k, <1>w, <2>1 DEF GWindow_create
  <2>3. BackKnows'
    BY <1>0, <1>k, <1>u, <2>2 DEF BackKnows
  <2> QED
    BY <1>1, <1>5, <1>w, <2>3 DEF GWindow_create
<1>7. CASE GWindow_close
  <2>1. (\A u \in Threads : Tells(line[u]))'
    <3>1. CASE Head(toJBE).src \in jbeWindows
      <4>1. Tells(EventLine("windowClosed", Head(toJBE).src))
        BY <1>k, <3>1 DEF EventLine, Tells
      <4> QED
        BY <1>7, <1>c, <1>r, <3>1, <4>1 DEF GWindow_close
    <3>2. CASE Head(toJBE).src \notin jbeWindows
      BY <1>7, <1>u, <3>2 DEF GWindow_close
    <3> QED
      BY <3>1, <3>2
  <2>2. pc'["cmd"] # "count"
    BY <1>5, <1>7, <1>c, Went DEF GWindow_close
  <2>3. UNCHANGED <<jbeWindows, jbeTimers>> /\ shown' = shown
    BY <1>5, <1>7 DEF GWindow_close
  <2> QED
    BY <1>1, <1>5, <1>7, <1>b, <1>k, <2>1, <2>2, <2>3 DEF GWindow_close
<1>8. ASSUME NEW fn \in MakingFns, NEW to, SetTimer(fn, to) PROVE SourcesInv'
  <2>1. Head(toJBE).src \in made /\ UNCHANGED <<line, pc, jbeWindows>> /\ shown' = shown
        /\ pc["cmd"] # "count"
    BY <1>5, <1>8 DEF SetTimer, OfMade
  <2>2. \A tm \in Timers : jbeTimers'[tm] # "absent" => tm \in made
    <3>1. \A tm \in Timers : jbeTimers'[tm] = jbeTimers[tm] \/ tm = Head(toJBE).src
      BY <1>8 DEF SetTimer, TypeOK, BackTypeOK
    <3> QED
      BY <1>k, <2>1, <3>1
  <2>3. BackKnows'
    BY <1>0, <1>k, <1>u, <2>1, <2>2 DEF BackKnows
  <2> QED
    BY <1>1, <1>5, <1>8, <2>3 DEF SetTimer
<1>9. CASE ShowWindow
  <2>1. shown' \subseteq made /\ UNCHANGED <<jbeWindows, jbeTimers, line, current, toJBE, fromJBE>>
    BY <1>9, <1>k DEF ShowWindow, At, pipeVars
  <2>2. pc'["cmd"] # "count"
    BY <1>9, <1>c, Went DEF ShowWindow
  <2> QED
    BY <1>1, <1>b, <1>k, <1>u, <2>1, <2>2
<1>10. ASSUME AwaitEvent \/ SetMask \/ AnswerNow \/ Reply PROVE SourcesInv'
  <2>1. UNCHANGED <<jbeWindows, shown, jbeTimers, line, current, toJBE>>
    BY <1>10 DEF AwaitEvent, SetMask, AnswerNow, Reply, pipeVars, windowVars
  <2>2. pc'["cmd"] # "count"
    BY <1>10, <1>c, Went DEF AwaitEvent, SetMask, AnswerNow, Reply
  <2>3. (\A i \in DOMAIN fromJBE : Tells(fromJBE[i]))'
    <3>1. Tells(EventLine("garbled", Nobody))
      BY DEF EventLine, Tells, InputKinds
    <3> QED
      BY <1>0, <1>3, <1>10, <1>u, <3>1, ToldPrinted
      DEF AwaitEvent, SetMask, AnswerNow, Reply, pipeVars
  <2> QED
    BY <1>1, <1>b, <1>k, <1>u, <2>1, <2>2, <2>3
<1>11. CASE CommandStep
  BY <1>6, <1>7, <1>8, <1>9, <1>10, <1>11, <1>w DEF CommandStep, MakingFns
<1> QED
  BY <1>2, <1>4, <1>11 DEF BackStep, UserStep, ThreadStep

\* Every event is of a window or a timer of the program, known to the C tables or
\* thrown out of them by initPlatform, whatever was freed, closed or overtaken on the
\* way; and none has lost its source unless initPlatform has thrown one out.
THEOREM EventsAlwaysHaveSources == Spec => []EventsHaveSources
<1>1. Init => SourcesInv
  <2> SUFFICES ASSUME Init PROVE SourcesInv
    OBVIOUS
  <2>1. /\ made = {} /\ toJBE = <<>> /\ fromJBE = <<>> /\ eventQueue = <<>>
        /\ returned = NoEvent /\ outgoing = NoCommand
    BY DEF Init, PipesInit, FrontInit
  <2>2. /\ jbeWindows = {} /\ shown = {} /\ \A tm \in Timers : jbeTimers[tm] = "absent"
        /\ pc["cmd"] = "idle"
    BY DEF Init, BackInit, Threads
  <2>3. \A t \in Threads : Tells(line[t])
    BY DEF Init, BackInit, Tells, EventLine, InputKinds
  <2>4. BackKnows
    BY <2>1, <2>2, <2>3 DEF BackKnows
  <2>5. OfMade(outgoing)
    BY <2>1 DEF OfMade, NoCommand, Command, MakingFns
  <2>6. ~SomeUnknown
    BY <2>1 DEF SomeUnknown, Unknown, NoEvent, InputKinds
  <2> QED
    BY <2>1, <2>4, <2>5, <2>6 DEF SourcesInv
<1>2. TypeOK /\ SourcesInv /\ [Next]_vars => SourcesInv'
  <2> SUFFICES ASSUME TypeOK, SourcesInv, [Next]_vars PROVE SourcesInv'
    OBVIOUS
  <2>1. CASE UNCHANGED vars
    BY <2>1 DEF vars, pipeVars, frontVars, backVars, SourcesInv, BackKnows, OfMade, Tells,
                SomeUnknown, Unknown
  <2>2. CASE FrontStep
    BY <2>2, ProgramSources, LibrarySources DEF FrontStep
  <2>3. CASE BackStep
    BY <2>3, BackSources
  <2> QED
    BY <2>1, <2>2, <2>3 DEF Next
<1>3. SourcesInv => EventsHaveSources
  BY DEF SourcesInv, EventsHaveSources, Tells, SomeUnknown
<1> QED
  BY <1>1, <1>2, <1>3, TypeCorrect, PTL DEF Spec
=============================================================================
