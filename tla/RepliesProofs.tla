--------------------------- MODULE RepliesProofs ----------------------------
(***************************************************************************)
(* Why results need no tags: the proof that at most one reply is ever      *)
(* outstanding, and that every result line answers the operation that is   *)
(* waiting for it.  Then what follows from it: the two processes wait on   *)
(* each other only over the closing of a window, and waitForEvent does not *)
(* sleep on an event that is there.                                        *)
(***************************************************************************)
EXTENDS EventProtocolProofs

\* The elements of a sequence that lost its head, or grew by one.
LEMMA TailIndex ==
    ASSUME NEW S, NEW q \in Seq(S), q # <<>>
    PROVE  /\ 1 \in DOMAIN q /\ q[1] = Head(q)
           /\ \A i \in DOMAIN Tail(q) : i + 1 \in DOMAIN q /\ Tail(q)[i] = q[i + 1]
           /\ \A i \in DOMAIN Tail(q) : i \in Int /\ i + 1 # 1
OBVIOUS

LEMMA AppendIndex ==
    ASSUME NEW S, NEW q \in Seq(S), NEW x
    PROVE  /\ DOMAIN Append(q, x) = DOMAIN q \cup {Len(q) + 1}
           /\ Len(q) + 1 \notin DOMAIN q
           /\ \A i \in DOMAIN q : Append(q, x)[i] = q[i]
           /\ Append(q, x)[Len(q) + 1] = x
OBVIOUS

\* A line is read from the pipe to the program: no reply is added, and if the
\* line was the reply, none is left.
LEMMA LineRead ==
    ASSUME TypeOK, fromJBE # <<>>, fromJBE' = Tail(fromJBE), OneReply
    PROVE  /\ OneReply'
           /\ SomeReplied' => SomeReplied
           /\ Head(fromJBE).tag = "result" => ~SomeReplied'
           /\ Head(fromJBE).tag = "result" => SomeReplied
           /\ \A w \in Waits : RepliesFit(w) => RepliesFit(w)'
<1>1. /\ 1 \in DOMAIN fromJBE /\ fromJBE[1] = Head(fromJBE)
      /\ \A i \in DOMAIN fromJBE' : /\ i \in Int /\ i + 1 # 1
                                    /\ i + 1 \in DOMAIN fromJBE
                                    /\ fromJBE'[i] = fromJBE[i + 1]
  BY TailIndex DEF TypeOK, PipesTypeOK
<1>2. OneReply'
  BY <1>1 DEF OneReply, Replied
<1>3. SomeReplied' => SomeReplied
  BY <1>1 DEF SomeReplied, Replied
<1>4. Head(fromJBE).tag = "result" => ~SomeReplied'
  BY <1>1 DEF SomeReplied, Replied, OneReply
<1>5. Head(fromJBE).tag = "result" => SomeReplied
  BY <1>1 DEF SomeReplied, Replied
<1>6. \A w \in Waits : RepliesFit(w) => RepliesFit(w)'
  BY <1>1 DEF RepliesFit, Replied
<1> QED
  BY <1>2, <1>3, <1>4, <1>5, <1>6

\* A line that is no result is printed: the replies are what they were.
LEMMA OtherPrinted ==
    ASSUME TypeOK, NEW l, l.tag # "result", PrintLine(l), OneReply
    PROVE  /\ OneReply'
           /\ SomeReplied' => SomeReplied
           /\ \A w \in Waits : RepliesFit(w) => RepliesFit(w)'
<1>1. CASE fromJBE' = fromJBE
  BY <1>1 DEF OneReply, SomeReplied, RepliesFit, Replied
<1>2. CASE fromJBE' = Append(fromJBE, l)
  <2>1. /\ DOMAIN fromJBE' = DOMAIN fromJBE \cup {Len(fromJBE) + 1}
        /\ \A i \in DOMAIN fromJBE : fromJBE'[i] = fromJBE[i]
        /\ fromJBE'[Len(fromJBE) + 1] = l
    BY <1>2, AppendIndex DEF TypeOK, PipesTypeOK
  <2>2. \A i \in DOMAIN fromJBE' :
            Replied(i)' => i \in DOMAIN fromJBE /\ Replied(i) /\ fromJBE'[i] = fromJBE[i]
    BY <2>1 DEF Replied
  <2> QED
    BY <2>2 DEF OneReply, SomeReplied, RepliesFit
<1> QED
  BY <1>1, <1>2 DEF PrintLine

\* The one result that is printed is the one reply on the pipe.
LEMMA ResultPrinted ==
    ASSUME TypeOK, NEW what, PrintLine(Result(what)), ~SomeReplied
    PROVE  /\ OneReply'
           /\ \A w \in Waits : w # "no" /\ what = Expected(w) => RepliesFit(w)'
<1>1. CASE fromJBE' = fromJBE
  BY <1>1 DEF OneReply, SomeReplied, RepliesFit, Replied
<1>2. CASE fromJBE' = Append(fromJBE, Result(what))
  <2>1. /\ DOMAIN fromJBE' = DOMAIN fromJBE \cup {Len(fromJBE) + 1}
        /\ \A i \in DOMAIN fromJBE : fromJBE'[i] = fromJBE[i]
        /\ fromJBE'[Len(fromJBE) + 1] = Result(what)
    BY <1>2, AppendIndex DEF TypeOK, PipesTypeOK
  <2>2. \A i \in DOMAIN fromJBE' :
            Replied(i)' => i = Len(fromJBE) + 1 /\ fromJBE'[i].what = what
    BY <2>1 DEF Replied, SomeReplied, Result
  <2> QED
    BY <2>2 DEF OneReply, RepliesFit
<1> QED
  BY <1>1, <1>2 DEF PrintLine

\* A command is taken off the pipe.
LEMMA CommandRead ==
    ASSUME TypeOK, toJBE # <<>>, toJBE' = Tail(toJBE), OneCommand
    PROVE  /\ OneCommand'
           /\ SomeOnTheWay' => SomeOnTheWay
           /\ Head(toJBE).fn \in SyncFns => ~SomeOnTheWay'
           /\ Head(toJBE).fn \in SyncFns => SomeOnTheWay
           /\ \A w \in Waits : CommandsFit(w) => CommandsFit(w)'
           /\ \A w \in Waits : CommandsFit(w) /\ Head(toJBE).fn \in SyncFns
                                   => w = SortOf(Head(toJBE).fn)
<1>1. /\ 1 \in DOMAIN toJBE /\ toJBE[1] = Head(toJBE)
      /\ \A i \in DOMAIN toJBE' : /\ i \in Int /\ i + 1 # 1
                                  /\ i + 1 \in DOMAIN toJBE
                                  /\ toJBE'[i] = toJBE[i + 1]
  BY TailIndex DEF TypeOK, PipesTypeOK
<1>2. OneCommand'
  BY <1>1 DEF OneCommand, OnTheWay
<1>3. SomeOnTheWay' => SomeOnTheWay
  BY <1>1 DEF SomeOnTheWay, OnTheWay
<1>4. Head(toJBE).fn \in SyncFns => ~SomeOnTheWay'
  BY <1>1 DEF SomeOnTheWay, OnTheWay, OneCommand
<1>5. Head(toJBE).fn \in SyncFns => SomeOnTheWay
  BY <1>1 DEF SomeOnTheWay, OnTheWay
<1>6. \A w \in Waits : CommandsFit(w) => CommandsFit(w)'
  BY <1>1 DEF CommandsFit, OnTheWay
<1>7. \A w \in Waits : CommandsFit(w) /\ Head(toJBE).fn \in SyncFns
                           => w = SortOf(Head(toJBE).fn)
  BY <1>1 DEF CommandsFit, OnTheWay
<1> QED
  BY <1>2, <1>3, <1>4, <1>5, <1>6, <1>7

\* A command is written to the pipe.
LEMMA CommandWritten ==
    ASSUME TypeOK, NEW c, toJBE' = Append(toJBE, c), OneCommand,
           c.fn \in SyncFns => ~SomeOnTheWay
    PROVE  /\ OneCommand'
           /\ SomeOnTheWay' => SomeOnTheWay \/ c.fn \in SyncFns
           /\ \A w \in Waits : /\ CommandsFit(w)
                               /\ c.fn \in SyncFns => w = SortOf(c.fn)
                               => CommandsFit(w)'
<1>1. /\ DOMAIN toJBE' = DOMAIN toJBE \cup {Len(toJBE) + 1}
      /\ \A i \in DOMAIN toJBE : toJBE'[i] = toJBE[i]
      /\ toJBE'[Len(toJBE) + 1] = c
  BY AppendIndex DEF TypeOK, PipesTypeOK
<1>2. OneCommand'
  BY <1>1 DEF OneCommand, OnTheWay, SomeOnTheWay
<1>3. SomeOnTheWay' => SomeOnTheWay \/ c.fn \in SyncFns
  BY <1>1 DEF SomeOnTheWay, OnTheWay
<1>4. \A w \in Waits : /\ CommandsFit(w)
                       /\ c.fn \in SyncFns => w = SortOf(c.fn)
                       => CommandsFit(w)'
  BY <1>1 DEF CommandsFit, OnTheWay
<1> QED
  BY <1>2, <1>3, <1>4

\* What the functions and the sorts of result have to do with one another.
LEMMA Sorts ==
    /\ \A fn \in SyncFns : SortOf(fn) \in Waits /\ SortOf(fn) # "no"
    /\ \A fn \in AskFns : SortOf(fn) = fn /\ Expected(fn) = "ack"
    /\ \A fn \in {"pause", "create"} : Expected(SortOf(fn)) = "ok"
    /\ Expected(SortOf("getText")) = "text"
    /\ NoCommand.fn \notin SyncFns
    /\ \A fn \in SilentFns : fn \notin SyncFns
BY DEF SyncFns, AskFns, ReplyFns, SilentFns, SortOf, Expected, Waits, NoCommand, Command

\* While the program awaits nothing, nothing is outstanding.
LEMMA Nothing ==
    ASSUME TypeOK, OneOutstanding, ~stray, waiting = "no"
    PROVE  ~Leaving /\ ~SomeOnTheWay /\ ~Obeyed /\ ~AckOwed /\ ~SomeReplied
<1>1. ForWaiting
  BY DEF OneOutstanding
<1>2. ~Leaving
  BY <1>1, Sorts DEF ForWaiting, Leaving
<1>3. ~SomeOnTheWay
  BY <1>1, Sorts DEF ForWaiting, SomeOnTheWay, CommandsFit, OnTheWay
<1>4. ~Obeyed
  BY <1>1, Sorts DEF ForWaiting
<1>5. ~AckOwed /\ ~SomeReplied
  BY <1>1 DEF ForWaiting, SomeReplied, RepliesFit
<1> QED
  BY <1>2, <1>3, <1>4, <1>5

\* A call that sends a command which is not replied to, or awaits its reply.
LEMMA Called ==
    ASSUME TypeOK, OneOutstanding, waiting = "no", UNCHANGED <<toJBE, fromJBE, backVars>>,
           \/ waiting' = "no" /\ outgoing'.fn \notin SyncFns
           \/ outgoing'.fn \in SyncFns /\ waiting' = SortOf(outgoing'.fn)
    PROVE  OneOutstanding'
<1>1. ObeysCommand'
  BY DEF OneOutstanding, ObeysCommand, backVars
<1>2. ASSUME ~stray' PROVE ForWaiting' /\ AtMostOne'
  <2>1. ~stray
    BY <1>2 DEF backVars
  <2>2. ~SomeOnTheWay' /\ ~Obeyed' /\ ~AckOwed' /\ ~SomeReplied'
    BY <2>1, Nothing DEF SomeOnTheWay, OnTheWay, Obeyed, AckOwed, SomeReplied, Replied,
                         backVars
  <2>3. CommandsFit(waiting)' /\ RepliesFit(waiting)' /\ OneCommand' /\ OneReply'
    BY <2>2 DEF SomeOnTheWay, SomeReplied, CommandsFit, RepliesFit, OneCommand, OneReply
  <2>4. Leaving' => waiting' = SortOf(outgoing'.fn)
    BY DEF Leaving
  <2> QED
    BY <2>2, <2>3, <2>4 DEF ForWaiting, AtMostOne
<1> QED
  BY <1>1, <1>2 DEF OneOutstanding

\* A step of a thread that touches nothing the invariant speaks of.
LEMMA Quiet ==
    ASSUME OneOutstanding,
           UNCHANGED <<toJBE, fromJBE, outgoing, waiting, current, asked,
                       eventAcknowledged, stray>>,
           pc'["cmd"] = pc["cmd"] \/ pc'["cmd"] \notin {"count", "reply", "ask"}
    PROVE  OneOutstanding'
<1>1. ObeysCommand'
  BY DEF OneOutstanding, ObeysCommand
<1>2. ASSUME ~stray' PROVE ForWaiting' /\ AtMostOne'
  <2>1. ForWaiting /\ AtMostOne
    BY <1>2 DEF OneOutstanding
  <2>2. /\ Leaving' = Leaving /\ SomeOnTheWay' = SomeOnTheWay
        /\ AckOwed' = AckOwed /\ SomeReplied' = SomeReplied
        /\ OneCommand' = OneCommand /\ OneReply' = OneReply
    BY DEF Leaving, SomeOnTheWay, OnTheWay, AckOwed, SomeReplied, Replied,
           OneCommand, OneReply
  <2>3. Obeyed' => Obeyed
    BY DEF Obeyed
  <2>4. CommandsFit(waiting)' = CommandsFit(waiting)
        /\ RepliesFit(waiting)' = RepliesFit(waiting)
    BY DEF CommandsFit, RepliesFit, OnTheWay, Replied
  <2> QED
    BY <2>1, <2>2, <2>3, <2>4 DEF ForWaiting, AtMostOne
<1> QED
  BY <1>1, <1>2 DEF OneOutstanding

\* Calls keep the invariant: an operation is called when nothing is outstanding.
LEMMA ProgramStepReplies ==
    ASSUME TypeOK, OneOutstanding, ProgramStep, UNCHANGED backVars
    PROVE  OneOutstanding'
<1> USE DEF Call, Send, Command, pipeVars
<1>1. ASSUME NEW fn \in {"create", "createReal"}, NEW w, NewGWindow(fn, w)
      PROVE  OneOutstanding'
  <2>1. outgoing'.fn \in SyncFns /\ waiting' = SortOf(outgoing'.fn)
    BY <1>1 DEF NewGWindow, Request, SyncFns, ReplyFns, SortOf
  <2> QED
    BY <1>1, <2>1, Called DEF NewGWindow
<1>2. ASSUME UNCHANGED <<toJBE, fromJBE, waiting>>, waiting = "no",
             outgoing'.fn \in SilentFns
      PROVE  OneOutstanding'
  BY <1>2, Called, Sorts
<1>3. CASE NewShape \/ \E w \in Windows : CloseGWindow(w)
  BY <1>2, <1>3 DEF NewShape, CloseGWindow, SilentFns
<1>4. ASSUME NEW fn \in Calls, CallBeforeInit(fn) PROVE OneOutstanding'
  BY <1>4, Called, Sorts DEF CallBeforeInit
<1>5. CASE \/ \E tm \in Timers : NewGTimer(tm) \/ FreeGTimer(tm)
           \/ \E tm \in Timers, fn \in {"startTimer", "stopTimer"} : StartStopTimer(fn, tm)
  BY <1>2, <1>5 DEF NewGTimer, FreeGTimer, StartStopTimer, SilentFns
<1>6. CASE Pause \/ GetText
  <2>1. outgoing'.fn \in SyncFns /\ waiting' = SortOf(outgoing'.fn)
    BY <1>6 DEF Pause, GetText, Request, SyncFns, ReplyFns, SortOf
  <2> QED
    BY <1>6, <2>1, Called DEF Pause, GetText
<1>7. ASSUME NEW fn \in AskFns, NEW mask, AskForEvent(fn, mask) PROVE OneOutstanding'
  <2>1. CASE eventQueue = <<>>
    <3>1. outgoing'.fn \in SyncFns /\ waiting' = SortOf(outgoing'.fn)
      BY <1>7, <2>1, Sorts DEF AskForEvent, SyncFns
    <3> QED
      BY <1>7, <3>1, Called DEF AskForEvent
  <2>2. CASE eventQueue # <<>>
    BY <1>7, <2>2, Called, Sorts DEF AskForEvent
  <2> QED
    BY <2>1, <2>2
<1> HIDE DEF Call, Send
<1> QED
  BY <1>1, <1>3, <1>4, <1>5, <1>6, <1>7 DEF ProgramStep

\* The library writes its command, and reads what comes back.
LEMMA LibraryStepReplies ==
    ASSUME TypeOK, OneOutstanding, LibraryStep, UNCHANGED backVars
    PROVE  OneOutstanding'
<1>1. ObeysCommand' /\ Obeyed' = Obeyed /\ AckOwed' = AckOwed
      /\ current' = current /\ stray' = stray
  BY DEF OneOutstanding, ObeysCommand, Obeyed, AckOwed, backVars
<1>2. SUFFICES ASSUME ~stray, ForWaiting, AtMostOne
               PROVE  ForWaiting' /\ AtMostOne'
  BY <1>1 DEF OneOutstanding
<1>w. waiting \in Waits
  BY DEF TypeOK, FrontTypeOK
<1>3. CASE PutPipe
  <2>1. ~Leaving' /\ UNCHANGED <<fromJBE, waiting>>
    BY <1>3, Sorts DEF PutPipe, Leaving
  <2>2. /\ OneCommand' /\ CommandsFit(waiting)'
        /\ SomeOnTheWay' => SomeOnTheWay \/ Leaving
    <3>1. CASE toJBE' = Append(toJBE, outgoing)
      <4>1. outgoing.fn \in SyncFns => ~SomeOnTheWay
        BY <1>2 DEF AtMostOne, Leaving
      <4>2. CommandsFit(waiting) /\ (outgoing.fn \in SyncFns => waiting = SortOf(outgoing.fn))
        BY <1>2 DEF ForWaiting, Leaving
      <4>3. \A w \in Waits : /\ CommandsFit(w)
                             /\ outgoing.fn \in SyncFns => w = SortOf(outgoing.fn)
                             => CommandsFit(w)'
        BY <1>2, <3>1, <4>1, CommandWritten DEF AtMostOne
      <4>4. OneCommand' /\ (SomeOnTheWay' => SomeOnTheWay \/ Leaving)
        BY <1>2, <3>1, <4>1, CommandWritten DEF AtMostOne, Leaving
      <4>5. CommandsFit(waiting)'
        BY <1>w, <2>1, <4>2, <4>3 DEF CommandsFit
      <4> QED
        BY <4>4, <4>5
    <3>2. CASE toJBE' = toJBE
      BY <1>2, <2>1, <3>2 DEF ForWaiting, AtMostOne, OneCommand, CommandsFit,
                              SomeOnTheWay, OnTheWay
    <3> QED
      BY <1>3, <3>1, <3>2 DEF PutPipe
  <2>3. OneReply' = OneReply /\ RepliesFit(waiting)' = RepliesFit(waiting)
        /\ SomeReplied' = SomeReplied
    BY <2>1 DEF OneReply, RepliesFit, SomeReplied, Replied
  <2> QED
    BY <1>1, <1>2, <2>1, <2>2, <2>3 DEF ForWaiting, AtMostOne
<1>4. ASSUME UNCHANGED toJBE
      PROVE  OneCommand' = OneCommand /\ SomeOnTheWay' = SomeOnTheWay
             /\ \A w : CommandsFit(w)' = CommandsFit(w)
  BY <1>4 DEF OneCommand, SomeOnTheWay, CommandsFit, OnTheWay
<1>5. CASE ReadResult
  <2>1. /\ fromJBE # <<>> /\ fromJBE' = Tail(fromJBE) /\ Head(fromJBE).tag = "result"
        /\ outgoing = NoCommand /\ UNCHANGED toJBE
    BY <1>5 DEF ReadResult, Reads
  <2>2. SomeReplied /\ ~SomeReplied' /\ OneReply'
    BY <1>2, <2>1, LineRead DEF AtMostOne
  <2>3. ~SomeOnTheWay' /\ ~Obeyed' /\ ~AckOwed'
    BY <1>1, <1>2, <1>4, <2>1, <2>2 DEF AtMostOne
  <2>4. OneCommand'
    BY <1>2, <1>4, <2>1 DEF AtMostOne
  <2>5. CommandsFit(waiting)' /\ RepliesFit(waiting)'
    BY <2>2, <2>3 DEF SomeOnTheWay, SomeReplied, CommandsFit, RepliesFit
  <2>6. Leaving' => waiting' = SortOf(outgoing'.fn)
    <3>1. CASE GotReply
      BY <2>1, <3>1, Sorts DEF GotReply, Leaving
    <3>2. CASE GotAnswer
      BY <2>1, <3>2, Sorts DEF GotAnswer, Leaving, Send, Command, AskFns
    <3> QED
      BY <1>5, <3>1, <3>2 DEF ReadResult
  <2> QED
    BY <2>2, <2>3, <2>4, <2>5, <2>6 DEF ForWaiting, AtMostOne
<1>6. ASSUME UNCHANGED <<toJBE, waiting>>, outgoing'.fn \notin SyncFns,
             \/ fromJBE' = fromJBE
             \/ fromJBE # <<>> /\ fromJBE' = Tail(fromJBE)
      PROVE  ForWaiting' /\ AtMostOne'
  <2>1. /\ OneReply' /\ (SomeReplied' => SomeReplied)
        /\ RepliesFit(waiting)'
    <3>1. CASE fromJBE' = fromJBE
      BY <1>2, <1>6, <3>1 DEF ForWaiting, AtMostOne, OneReply, SomeReplied, RepliesFit,
                              Replied
    <3>2. CASE fromJBE # <<>> /\ fromJBE' = Tail(fromJBE)
      <4>1. \A w \in Waits : RepliesFit(w) => RepliesFit(w)'
        BY <1>2, <3>2, LineRead DEF AtMostOne
      <4>2. RepliesFit(waiting)'
        BY <1>2, <1>6, <1>w, <4>1 DEF ForWaiting, RepliesFit
      <4> QED
        BY <1>2, <3>2, <4>2, LineRead DEF AtMostOne
    <3> QED
      BY <1>6, <3>1, <3>2
  <2>2. ~Leaving'
    BY <1>6 DEF Leaving
  <2>3. CommandsFit(waiting)'
    BY <1>2, <1>6 DEF ForWaiting, CommandsFit, OnTheWay
  <2> QED
    BY <1>1, <1>2, <1>4, <1>6, <2>1, <2>2, <2>3 DEF ForWaiting, AtMostOne
<1>7. CASE ReadEvent
  BY <1>6, <1>7, Sorts DEF ReadEvent, Reads, Send, Command, SilentFns
<1>8. CASE ReadGarbledArguments \/ ReadJunk \/ ReadEOF
  BY <1>6, <1>8, Sorts DEF ReadGarbledArguments, ReadJunk, ReadEOF, Reads, frontVars
<1> QED
  BY <1>3, <1>5, <1>7, <1>8 DEF LibraryStep, ReadStep

\* An input touches the event dispatch thread only.
LEMMA UserStepReplies ==
    ASSUME TypeOK, OneOutstanding, UserStep, UNCHANGED frontVars
    PROVE  OneOutstanding'
<1>1. pc'["cmd"] = pc["cmd"]
  BY DEF UserStep, HandleInput, IgnoreInput, Input, Goto, Threads, TypeOK, BackTypeOK
<1>2. UNCHANGED <<toJBE, fromJBE, outgoing, waiting, current, asked, eventAcknowledged, stray>>
  BY DEF UserStep, HandleInput, IgnoreInput, Input, pipeVars, protocolVars, frontVars
<1> QED
  BY <1>1, <1>2, Quiet

\* A listener prints an event, which is no reply, or acknowledges it, which is
\* the reply waitForEvent is owed.
LEMMA ListenerStepReplies ==
    ASSUME TypeOK, OneOutstanding, NEW t \in Threads, ListenerStep(t), UNCHANGED frontVars
    PROVE  OneOutstanding'
<1>1. pc'["cmd"] = pc["cmd"] \/ pc'["cmd"] \notin {"count", "reply", "ask"}
  BY DEF ListenerStep, BeginLine, EndLine, Acknowledge, AfterAck, RemoveWindow, StoreCount,
         TestCount, ExitJVM, backVars, Goto, Threads, TypeOK, BackTypeOK
<1>2. UNCHANGED <<toJBE, outgoing, waiting, current>>
  BY DEF ListenerStep, BeginLine, EndLine, Acknowledge, RemoveWindow, StoreCount,
         TestCount, ExitJVM, backVars, pipeVars, frontVars
<1>w. waiting \in Waits
  BY DEF TypeOK, FrontTypeOK
<1>3. CASE BeginLine(t) \/ RemoveWindow(t) \/ StoreCount(t) \/ TestCount(t) \/ ExitJVM(t)
  <2>1. UNCHANGED <<fromJBE, asked, eventAcknowledged, stray>>
    BY <1>3 DEF BeginLine, RemoveWindow, StoreCount, TestCount, ExitJVM, backVars,
                pipeVars, protocolVars
  <2> QED
    BY <1>1, <1>2, <2>1, Quiet
<1>4. ObeysCommand' /\ (Obeyed' => Obeyed) /\ Leaving' = Leaving
      /\ SomeOnTheWay' = SomeOnTheWay /\ OneCommand' = OneCommand
      /\ CommandsFit(waiting)' = CommandsFit(waiting)
  BY <1>1, <1>2 DEF OneOutstanding, ObeysCommand, Obeyed, Leaving, SomeOnTheWay,
                    OneCommand, CommandsFit, OnTheWay
<1>5. ASSUME ForWaiting, AtMostOne, SomeReplied' => SomeReplied \/ (AckOwed /\ ~AckOwed'),
             AckOwed' => AckOwed, OneReply', RepliesFit(waiting)'
      PROVE  ForWaiting' /\ AtMostOne'
  <2>1. ForWaiting'
    BY <1>2, <1>4, <1>5 DEF ForWaiting
  <2>2. AtMostOne'
    BY <1>4, <1>5 DEF AtMostOne
  <2> QED
    BY <2>1, <2>2
<1>6. CASE EndLine(t)
  <2>1. /\ stray' = stray /\ AckOwed' = AckOwed
        /\ PrintLine(IF partial = "broken" THEN Junk ELSE line[t])
    BY <1>6 DEF EndLine, protocolVars, AckOwed
  <2>2. (IF partial = "broken" THEN Junk ELSE line[t]).tag # "result"
    BY DEF Junk, EventLines, TypeOK, BackTypeOK
  <2>3. ASSUME ForWaiting, AtMostOne
        PROVE  /\ SomeReplied' => SomeReplied
               /\ OneReply' /\ RepliesFit(waiting)'
    <3>1. /\ SomeReplied' => SomeReplied
          /\ OneReply'
          /\ \A w \in Waits : RepliesFit(w) => RepliesFit(w)'
      BY <2>1, <2>2, <2>3, OtherPrinted DEF AtMostOne
    <3>2. RepliesFit(waiting)'
      BY <1>2, <1>w, <2>3, <3>1 DEF ForWaiting, RepliesFit
    <3> QED
      BY <3>1, <3>2
  <2> QED
    BY <1>4, <1>5, <2>1, <2>3 DEF OneOutstanding
<1>7. CASE Acknowledge(t)
  <2>1. AcknowledgeEvent /\ asked' = asked
    BY <1>7 DEF Acknowledge
  <2>2. CASE eventAcknowledged
    <3>1. UNCHANGED <<fromJBE, asked, eventAcknowledged, stray>>
      BY <2>1, <2>2 DEF AcknowledgeEvent
    <3> QED
      BY <1>1, <1>2, <3>1, Quiet
  <2>3. CASE ~eventAcknowledged
    <3>1. /\ PrintLine(Result("ack")) /\ eventAcknowledged' = TRUE
          /\ stray' = (stray \/ ~asked)
      BY <2>1, <2>3 DEF AcknowledgeEvent
    <3>2. SUFFICES ASSUME ~stray, asked, ForWaiting, AtMostOne
                   PROVE  ForWaiting' /\ AtMostOne'
      BY <1>4, <3>1 DEF OneOutstanding
    <3>3. AckOwed /\ ~AckOwed' /\ ~SomeReplied /\ waiting = "waitForEvent"
      BY <2>1, <2>3, <3>1, <3>2 DEF AckOwed, AtMostOne, ForWaiting
    <3>4. Expected(waiting) = "ack"
      BY <3>3 DEF Expected
    <3>5. OneReply' /\ \A w \in Waits : w # "no" /\ "ack" = Expected(w) => RepliesFit(w)'
      BY <3>1, <3>3, ResultPrinted
    <3>6. RepliesFit(waiting)'
      BY <1>2, <1>w, <3>3, <3>4, <3>5 DEF RepliesFit
    <3> QED
      BY <1>5, <3>2, <3>3, <3>5, <3>6
  <2> QED
    BY <2>2, <2>3
<1> QED
  BY <1>3, <1>6, <1>7 DEF ListenerStep

\* The command thread takes the next command: if that is the one the program
\* waits for, it is now obeyed, and otherwise nothing outstanding has moved.
LEMMA Executed ==
    ASSUME TypeOK, OneOutstanding, NEW fn, Execute(fn), UNCHANGED frontVars,
           ObeysCommand', Obeyed' => fn \in SyncFns
    PROVE  OneOutstanding'
<1>1. /\ toJBE # <<>> /\ toJBE' = Tail(toJBE) /\ current' = Head(toJBE)
      /\ Head(toJBE).fn = fn /\ ~Obeyed
  BY DEF Execute, At, Obeyed
<1>2. UNCHANGED <<fromJBE, outgoing, waiting, asked, eventAcknowledged, stray>>
  BY DEF Execute, protocolVars, frontVars
<1>3. SUFFICES ASSUME ~stray, ForWaiting, AtMostOne
               PROVE  ForWaiting' /\ AtMostOne'
  BY <1>2 DEF OneOutstanding
<1>4. /\ Leaving' = Leaving /\ AckOwed' = AckOwed /\ SomeReplied' = SomeReplied
      /\ OneReply' = OneReply /\ RepliesFit(waiting)' = RepliesFit(waiting)
  BY <1>2 DEF Leaving, AckOwed, SomeReplied, OneReply, RepliesFit, Replied
<1>5. /\ OneCommand' /\ (SomeOnTheWay' => SomeOnTheWay)
      /\ fn \in SyncFns => SomeOnTheWay /\ ~SomeOnTheWay'
  BY <1>1, <1>3, CommandRead DEF AtMostOne
<1>6. waiting \in Waits /\ CommandsFit(waiting)
  BY <1>3 DEF ForWaiting, TypeOK, FrontTypeOK
<1>7. CommandsFit(waiting)'
  <2>1. \A w \in Waits : CommandsFit(w) => CommandsFit(w)'
    BY <1>1, <1>3, CommandRead DEF AtMostOne
  <2> QED
    BY <1>2, <1>6, <2>1 DEF CommandsFit
<1>8. Obeyed' => current'.fn \in SyncFns /\ waiting' = SortOf(current'.fn)
  <2>1. \A w \in Waits : CommandsFit(w) /\ Head(toJBE).fn \in SyncFns
                             => w = SortOf(Head(toJBE).fn)
    BY <1>1, <1>3, CommandRead DEF AtMostOne
  <2> QED
    BY <1>1, <1>2, <1>6, <2>1
<1>9. ForWaiting'
  BY <1>2, <1>3, <1>4, <1>7, <1>8 DEF ForWaiting
<1>10. AtMostOne'
  BY <1>3, <1>4, <1>5 DEF AtMostOne
<1> QED
  BY <1>9, <1>10

\* The command thread prints the reply of the command it has obeyed.
LEMMA Answered ==
    ASSUME TypeOK, OneOutstanding, Obeyed, UNCHANGED <<frontVars, toJBE, current, stray>>,
           NEW what, PrintLine(Result(what)), what = Expected(SortOf(current.fn)),
           pc'["cmd"] \notin {"count", "reply", "ask"}, AckOwed' => AckOwed
    PROVE  OneOutstanding'
<1>1. ObeysCommand' /\ ~Obeyed'
  BY DEF ObeysCommand, Obeyed
<1>2. SUFFICES ASSUME ~stray, ForWaiting, AtMostOne
               PROVE  ForWaiting' /\ AtMostOne'
  BY <1>1 DEF OneOutstanding
<1>3. /\ Leaving' = Leaving /\ SomeOnTheWay' = SomeOnTheWay /\ OneCommand' = OneCommand
      /\ CommandsFit(waiting)' = CommandsFit(waiting) /\ waiting' = waiting
      /\ outgoing' = outgoing
  BY DEF Leaving, SomeOnTheWay, OneCommand, CommandsFit, OnTheWay, frontVars
<1>4. ~Leaving /\ ~SomeOnTheWay /\ ~AckOwed /\ ~SomeReplied
  BY <1>2 DEF AtMostOne
<1>5. waiting # "no" /\ what = Expected(waiting) /\ waiting \in Waits
  BY <1>2, Sorts DEF ForWaiting, TypeOK, FrontTypeOK
<1>6. OneReply' /\ RepliesFit(waiting)'
  <2>1. OneReply' /\ \A w \in Waits : w # "no" /\ what = Expected(w) => RepliesFit(w)'
    BY <1>4, ResultPrinted
  <2> QED
    BY <1>3, <1>5, <2>1 DEF RepliesFit
<1>7. ForWaiting'
  BY <1>1, <1>2, <1>3, <1>4, <1>6 DEF ForWaiting
<1>8. AtMostOne'
  BY <1>1, <1>2, <1>3, <1>4, <1>6 DEF AtMostOne
<1> QED
  BY <1>7, <1>8

\* The command thread obeys, replies and acknowledges what asked for it.
LEMMA CommandStepReplies ==
    ASSUME TypeOK, OneOutstanding, CommandStep, UNCHANGED frontVars
    PROVE  OneOutstanding'
<1>1. ASSUME NEW to \in Points, Goto("cmd", to) PROVE pc'["cmd"] = to
  BY <1>1 DEF Goto, Threads, TypeOK, BackTypeOK
<1>2. CASE GTimer_pause
  <2>1. (Execute("pause") \/ Execute("getText")) /\ pc'["cmd"] = "reply"
    BY <1>1, <1>2 DEF GTimer_pause, Points
  <2>2. ObeysCommand'
    BY <2>1 DEF ObeysCommand, Execute
  <2> QED
    BY <2>1, <2>2, Executed DEF SyncFns, ReplyFns
<1>3. CASE GWindow_create
  <2>1. Execute("create") /\ pc'["cmd"] = "count"
    BY <1>1, <1>3 DEF GWindow_create, Points
  <2>2. ObeysCommand'
    BY <2>1 DEF ObeysCommand, Execute
  <2> QED
    BY <2>1, <2>2, Executed DEF SyncFns, ReplyFns
<1>4. CASE GEvent_ask
  <2>1. PICK fn \in AskFns : Execute(fn)
    BY <1>4 DEF GEvent_ask
  <2>2. pc'["cmd"] = "ask"
    BY <1>1, <1>4 DEF GEvent_ask, Points
  <2>3. ObeysCommand'
    BY <2>1, <2>2 DEF ObeysCommand, Execute
  <2> QED
    BY <2>1, <2>2, <2>3, Executed DEF SyncFns
<1>5. ASSUME NEW fn, Execute(fn), pc' = pc \/ pc'["cmd"] = "report"
      PROVE  OneOutstanding'
  <2>1. pc'["cmd"] \in {"idle", "report"}
    BY <1>5 DEF Execute, At
  <2>2. ObeysCommand' /\ ~Obeyed'
    BY <2>1 DEF ObeysCommand, Obeyed
  <2> QED
    BY <1>5, <2>2, Executed
<1>6. CASE NoReply
  BY <1>5, <1>6 DEF NoReply
<1>13. ASSUME NEW fn, NEW to, SetTimer(fn, to) PROVE OneOutstanding'
  BY <1>5, <1>13 DEF SetTimer
<1>7. CASE GWindow_close
  BY <1>1, <1>5, <1>7 DEF GWindow_close, Points
<1>8. CASE ShowWindow
  <2>1. pc'["cmd"] = "reply" /\ pc["cmd"] = "count"
    BY <1>1, <1>8 DEF ShowWindow, At, Points
  <2>2. UNCHANGED <<toJBE, fromJBE, outgoing, waiting, current, asked,
                    eventAcknowledged, stray>>
    BY <1>8 DEF ShowWindow, pipeVars, protocolVars, frontVars
  <2>3. ObeysCommand' /\ Obeyed /\ Obeyed'
    BY <2>1, <2>2 DEF OneOutstanding, ObeysCommand, Obeyed
  <2>4. ASSUME ForWaiting, AtMostOne PROVE ForWaiting' /\ AtMostOne'
    <3>1. ForWaiting'
      BY <2>2, <2>3, <2>4 DEF ForWaiting, Leaving, AckOwed, CommandsFit, OnTheWay,
                              RepliesFit, Replied
    <3>2. AtMostOne'
      BY <2>2, <2>3, <2>4 DEF AtMostOne, Leaving, AckOwed, SomeOnTheWay, OnTheWay,
                              SomeReplied, Replied, OneCommand, OneReply
    <3> QED
      BY <3>1, <3>2
  <2> QED
    BY <2>2, <2>3, <2>4 DEF OneOutstanding
<1>9. CASE Reply
  <2>1. /\ pc["cmd"] = "reply" /\ pc'["cmd"] = "idle"
        /\ UNCHANGED <<toJBE, current, asked, eventAcknowledged, stray>>
    BY <1>1, <1>9 DEF Reply, At, Points, protocolVars
  <2>2. /\ current.fn \in {"pause", "getText", "create"} /\ Obeyed
        /\ AckOwed' = AckOwed
    BY <2>1 DEF OneOutstanding, ObeysCommand, Obeyed, AckOwed
  <2>3. CASE PrintLine(EventLine("garbled", Nobody))
    <3>1. ObeysCommand' /\ ~Obeyed' /\ Obeyed
      BY <2>1, <2>2 DEF ObeysCommand, Obeyed
    <3>2. UNCHANGED <<outgoing, waiting>> /\ waiting \in Waits
      BY DEF frontVars, TypeOK, FrontTypeOK
    <3>3. SUFFICES ASSUME ~stray, ForWaiting, AtMostOne
                   PROVE  ForWaiting' /\ AtMostOne'
      BY <2>1, <3>1 DEF OneOutstanding
    <3>4. /\ SomeReplied' => SomeReplied
          /\ OneReply'
          /\ \A w \in Waits : RepliesFit(w) => RepliesFit(w)'
      BY <2>3, <3>3, OtherPrinted DEF AtMostOne, EventLine
    <3>5. RepliesFit(waiting)'
      BY <3>2, <3>3, <3>4 DEF ForWaiting, RepliesFit
    <3>6. /\ Leaving' = Leaving /\ SomeOnTheWay' = SomeOnTheWay
          /\ OneCommand' = OneCommand /\ CommandsFit(waiting)' = CommandsFit(waiting)
      BY <2>1, <3>2 DEF Leaving, SomeOnTheWay, OneCommand, CommandsFit, OnTheWay
    <3>7. ForWaiting'
      BY <2>2, <3>1, <3>2, <3>3, <3>5, <3>6 DEF ForWaiting
    <3>8. AtMostOne'
      BY <2>2, <3>1, <3>3, <3>4, <3>6 DEF AtMostOne
    <3> QED
      BY <3>7, <3>8
  <2>4. CASE current.fn # "getText" /\ PrintLine(Result("ok"))
    BY <2>1, <2>2, <2>4, Answered, Sorts
  <2>5. CASE current.fn = "getText" /\ PrintLine(Result("text"))
    BY <2>1, <2>2, <2>5, Answered, Sorts
  <2> QED
    BY <1>9, <2>3, <2>4, <2>5 DEF Reply
<1>10. CASE AwaitEvent
  <2>1. /\ pc["cmd"] = "ask" /\ pc'["cmd"] = "idle" /\ current.fn = "waitForEvent"
        /\ UNCHANGED <<toJBE, fromJBE, outgoing, waiting, current, stray>>
    BY <1>1, <1>10 DEF AwaitEvent, At, Points, pipeVars, frontVars
  <2>2. ObeysCommand' /\ ~Obeyed' /\ Obeyed
    BY <2>1 DEF ObeysCommand, Obeyed
  <2>3. SUFFICES ASSUME ~stray, ForWaiting, AtMostOne
                 PROVE  ForWaiting' /\ AtMostOne'
    BY <2>1, <2>2 DEF OneOutstanding
  <2>4. waiting = "waitForEvent"
    BY <2>1, <2>2, <2>3, Sorts DEF ForWaiting, AskFns
  <2>5. /\ Leaving' = Leaving /\ SomeOnTheWay' = SomeOnTheWay /\ OneCommand' = OneCommand
        /\ CommandsFit(waiting)' = CommandsFit(waiting) /\ SomeReplied' = SomeReplied
        /\ OneReply' = OneReply /\ RepliesFit(waiting)' = RepliesFit(waiting)
    BY <2>1 DEF Leaving, SomeOnTheWay, OneCommand, CommandsFit, OnTheWay,
                SomeReplied, OneReply, RepliesFit, Replied
  <2>6. ForWaiting'
    BY <2>1, <2>2, <2>3, <2>4, <2>5 DEF ForWaiting
  <2>7. AtMostOne'
    BY <2>2, <2>3, <2>5 DEF AtMostOne
  <2> QED
    BY <2>6, <2>7
<1>11. CASE AnswerNow
  <2>1. /\ pc["cmd"] = "ask" /\ pc'["cmd"] = "setMask" /\ PrintLine(Result("ack"))
        /\ UNCHANGED <<toJBE, current, stray>> /\ eventAcknowledged' = TRUE
    BY <1>1, <1>11 DEF AnswerNow, At, Points
  <2>2. current.fn \in AskFns /\ Obeyed /\ ~AckOwed'
    BY <2>1 DEF OneOutstanding, ObeysCommand, Obeyed, AckOwed
  <2> QED
    BY <2>1, <2>2, Answered, Sorts
<1>12. CASE SetMask
  <2>1. /\ pc'["cmd"] = "idle"
        /\ UNCHANGED <<toJBE, fromJBE, outgoing, waiting, current, asked,
                       eventAcknowledged, stray>>
    BY <1>1, <1>12 DEF SetMask, Points, pipeVars, frontVars
  <2> QED
    BY <2>1, Quiet
<1> QED
  BY <1>2, <1>3, <1>4, <1>6, <1>7, <1>8, <1>9, <1>10, <1>11, <1>12, <1>13
     DEF CommandStep

\* However program, user and threads interleave, at most one reply is ever
\* outstanding, and it is the one the program waits for (until the stray
\* acknowledgement of a window closed before any event was asked for).
THEOREM OneReplyOutstanding == Spec => []OneOutstanding
<1>1. Init => OneOutstanding
  BY Sorts DEF Init, PipesInit, FrontInit, BackInit, OneOutstanding, ObeysCommand,
         ForWaiting, AtMostOne, Leaving, SomeOnTheWay, OnTheWay, Obeyed, AckOwed,
         SomeReplied, Replied, CommandsFit, RepliesFit, OneCommand, OneReply, Threads
<1>2. TypeOK /\ OneOutstanding /\ [Next]_vars => OneOutstanding'
  <2> SUFFICES ASSUME TypeOK, OneOutstanding, [Next]_vars PROVE OneOutstanding'
    OBVIOUS
  <2>1. CASE UNCHANGED vars
    BY <2>1, Quiet DEF vars, pipeVars, frontVars, backVars
  <2>2. CASE FrontStep
    BY <2>2, ProgramStepReplies, LibraryStepReplies DEF FrontStep
  <2>3. CASE BackStep
    BY <2>3, UserStepReplies, ListenerStepReplies, CommandStepReplies
       DEF BackStep, ThreadStep
  <2> QED
    BY <2>1, <2>2, <2>3 DEF Next
<1> QED
  BY <1>1, <1>2, TypeCorrect, PTL DEF Spec

-----------------------------------------------------------------------------
\* No thread is about to print what looks like a line another fell into.
LinesWhole == \A t \in Threads : line[t].what # "garbled"

\* A program that waits for a result writes an unanswered command only where
\* getResult answers a windowClosed event.
SilentClose == outgoing # NoCommand /\ waiting # "no" /\ ~Leaving => outgoing.fn = "close"

\* The reply a garbled line stands for never comes: getText waits, and nothing
\* is outstanding.
Garbled(i) == fromJBE[i].what = "garbled"
GarbledOnPipe == \E i \in DOMAIN fromJBE : Garbled(i)
GarbledStops ==
    GarbledOnPipe =>
        waiting = "text" /\ ~Leaving /\ ~SomeOnTheWay /\ ~Obeyed /\ ~SomeReplied

\* A program that ended by itself did not end in waitForEvent.
EndedElsewhere == client # "running" /\ jvm = "running" => waiting # "waitForEvent"

\* An event that waitForEvent has seen or will see before its acknowledgement is
\* remembered: its listener is about to acknowledge it, or eventPending is set.
Unanswered ==
    \E i \in DOMAIN fromJBE : /\ fromJBE[i].tag = "event" /\ ~Garbled(i)
                              /\ \A j \in DOMAIN fromJBE : j > i => ~Replied(j)
SeenInWait == waiting = "waitForEvent" /\ eventQueue # <<>> /\ ~SomeReplied
Remembered == (\E t \in Threads : pc[t] = "ack") \/ (eventPending /\ ~AckOwed)
SeenRemembered == client = "running" /\ (Unanswered \/ SeenInWait) => Remembered

WakeupInv == LinesWhole /\ (~stray => GarbledStops /\ EndedElsewhere /\ SeenRemembered)

\* Listeners begin only lines that are whole: a line is garbled on its way to the
\* pipe, by a reply that falls into it.
LEMMA LinesStayWhole ==
    ASSUME TypeOK, LinesWhole, [Next]_vars
    PROVE  LinesWhole'
<1>1. CASE UNCHANGED line
  BY <1>1 DEF LinesWhole
<1>2. ASSUME NEW t \in Threads, NEW kind \in InputKinds \cup {"lastWindow"}, NEW src,
             line' = [line EXCEPT ![t] = EventLine(kind, src)]
      PROVE  LinesWhole'
  <2>1. kind # "garbled"
    BY DEF InputKinds
  <2> QED
    BY <1>2, <2>1 DEF LinesWhole, EventLine, TypeOK, BackTypeOK
<1>3. CASE UserStep
  <2>1. PICK kind \in Inputs, src \in Windows \cup Timers :
            HandleInput(kind, src) \/ IgnoreInput(kind, src)
    BY <1>3 DEF UserStep
  <2>2. kind \in InputKinds \cup {"lastWindow"} /\ "edt" \in Threads
    BY InputsAssumption DEF Threads
  <2>3. CASE HandleInput(kind, src)
    BY <1>2, <2>2, <2>3 DEF HandleInput
  <2> QED
    BY <1>1, <2>1, <2>3 DEF IgnoreInput
<1>4. ASSUME NEW t \in Threads, ListenerStep(t) PROVE LinesWhole'
  BY <1>1, <1>2, <1>4 DEF ListenerStep, BeginLine, EndLine, Acknowledge, RemoveWindow,
     StoreCount, TestCount, ExitJVM, backVars
<1>5. CASE CommandStep
  <2>1. CASE GWindow_close
    BY <1>1, <1>2, <2>1 DEF GWindow_close, Threads, InputKinds
  <2> QED
    BY <1>1, <1>5, <2>1 DEF CommandStep, GTimer_pause, GWindow_create, ShowWindow, NoReply,
       SetTimer, Reply, GEvent_ask, AwaitEvent, AnswerNow, SetMask
<1> QED
  BY <1>1, <1>3, <1>4, <1>5 DEF Next, FrontStep, BackStep, ThreadStep, vars, backVars

\* While it waits the program writes nothing but its command and the closing of a
\* window.
LEMMA SilentCloseStays ==
    ASSUME TypeOK, SilentClose, [Next]_vars
    PROVE  SilentClose'
<1>1. CASE UNCHANGED <<outgoing, waiting>>
  BY <1>1 DEF SilentClose, Leaving
<1>2. CASE waiting' = "no" \/ outgoing'.fn \in SyncFns \/ outgoing' = NoCommand
  BY <1>2 DEF SilentClose, Leaving
<1>3. CASE ProgramStep
  <2>1. waiting = "no"
    BY <1>3 DEF ProgramStep, NewGWindow, CloseGWindow, NewShape, CallBeforeInit, NewGTimer,
       FreeGTimer, StartStopTimer, Pause, GetText, AskForEvent, Call
  <2> QED
    BY <1>2, <1>3, <2>1 DEF ProgramStep, NewGWindow, CloseGWindow, NewShape, CallBeforeInit,
       NewGTimer, FreeGTimer, StartStopTimer, Pause, GetText, AskForEvent, Request, Send,
       Command, SyncFns, ReplyFns, AskFns
<1>4. CASE LibraryStep
  <2>1. CASE PutPipe
    BY <1>2, <2>1 DEF PutPipe
  <2>2. CASE ReadResult
    BY <1>1, <1>2, <2>2 DEF ReadResult, GotAnswer, GotReply, Send, Command, SyncFns, AskFns
  <2>3. CASE ReadEvent
    BY <1>1, <2>3 DEF ReadEvent, SilentClose, Send, Command
  <2>4. CASE ReadGarbledArguments \/ ReadJunk \/ ReadEOF
    BY <1>1, <2>4 DEF ReadGarbledArguments, ReadJunk, ReadEOF, frontVars
  <2> QED
    BY <1>4, <2>1, <2>2, <2>3, <2>4 DEF LibraryStep, ReadStep
<1>5. CASE BackStep \/ UNCHANGED vars
  BY <1>1, <1>5 DEF BackStep, vars, frontVars
<1> QED
  BY <1>3, <1>4, <1>5 DEF Next, FrontStep

\* In the circular wait the command thread does not reply or obey an asking
\* command, unless the program is in the middle of answering a windowClosed event.
THEOREM CircularWaitOnlyClosing == Spec => []CircularWaitOnlyInClosing
<1>1. Init => SilentClose
  BY DEF Init, FrontInit, SilentClose
<1>2. OneOutstanding /\ SilentClose => CircularWaitOnlyInClosing
  <2> SUFFICES ASSUME OneOutstanding, SilentClose, CircularWait, ~stray,
                      pc["cmd"] \notin {"report", "printing", "ack"}
               PROVE  AnswersClosing
    BY DEF CircularWaitOnlyInClosing
  <2>1. outgoing # NoCommand /\ pc["cmd"] \in {"ask", "reply"}
    BY DEF CircularWait, Blocked, NeedsLock, NeedsRoom
  <2>2. Obeyed /\ ForWaiting /\ AtMostOne
    BY <2>1 DEF OneOutstanding, Obeyed
  <2>3. waiting # "no" /\ ~Leaving
    BY <2>2, Sorts DEF ForWaiting, AtMostOne
  <2> QED
    BY <2>1, <2>3 DEF SilentClose, AnswersClosing
<1> QED
  BY <1>1, <1>2, SilentCloseStays, TypeCorrect, OneReplyOutstanding, PTL DEF Spec

Awake == GarbledStops /\ EndedElsewhere /\ SeenRemembered

\* What the pipe to the program still holds after a line is read from it.
LEMMA EventsRead ==
    ASSUME TypeOK, fromJBE # <<>>, fromJBE' = Tail(fromJBE)
    PROVE  /\ Unanswered' => Unanswered
           /\ GarbledOnPipe' => GarbledOnPipe
           /\ SomeReplied' => SomeReplied
           /\ Head(fromJBE).tag = "result" => SomeReplied
           /\ Head(fromJBE).tag # "result" => (SomeReplied' <=> SomeReplied)
           /\ Head(fromJBE).tag = "event" /\ ~SomeReplied /\ ~GarbledOnPipe => Unanswered
<1>1. /\ 1 \in DOMAIN fromJBE /\ fromJBE[1] = Head(fromJBE)
      /\ \A i \in DOMAIN fromJBE' : /\ i \in Int /\ i + 1 \in DOMAIN fromJBE
                                    /\ fromJBE'[i] = fromJBE[i + 1]
      /\ \A j \in DOMAIN fromJBE :
             j \in Int /\ (j # 1 => /\ j - 1 \in DOMAIN fromJBE'
                                   /\ fromJBE'[j - 1] = fromJBE[j])
  BY DEF TypeOK, PipesTypeOK
<1>2. Unanswered' => Unanswered
  <2> SUFFICES ASSUME NEW i \in DOMAIN fromJBE', fromJBE'[i].tag = "event", ~Garbled(i)',
                      \A j \in DOMAIN fromJBE' : j > i => ~Replied(j)'
               PROVE  Unanswered
    BY DEF Unanswered
  <2>1. i \in Int /\ i >= 1 /\ i + 1 \in DOMAIN fromJBE /\ fromJBE'[i] = fromJBE[i + 1]
    BY <1>1 DEF TypeOK, PipesTypeOK
  <2>2. ASSUME NEW j \in DOMAIN fromJBE, j > i + 1 PROVE ~Replied(j)
    <3>1. j \in Int /\ j - 1 \in DOMAIN fromJBE' /\ j - 1 > i /\ fromJBE'[j - 1] = fromJBE[j]
      BY <1>1, <2>1, <2>2
    <3> QED
      BY <3>1 DEF Replied
  <2> QED
    BY <2>1, <2>2 DEF Unanswered, Garbled
<1>3. GarbledOnPipe' => GarbledOnPipe
  BY <1>1 DEF GarbledOnPipe, Garbled
<1>4. SomeReplied' => SomeReplied
  BY <1>1 DEF SomeReplied, Replied
<1>5. Head(fromJBE).tag = "result" => SomeReplied
  BY <1>1 DEF SomeReplied, Replied
<1>6. Head(fromJBE).tag # "result" => (SomeReplied => SomeReplied')
  BY <1>1 DEF SomeReplied, Replied
<1>7. Head(fromJBE).tag = "event" /\ ~SomeReplied /\ ~GarbledOnPipe => Unanswered
  BY <1>1 DEF Unanswered, SomeReplied, GarbledOnPipe, Garbled
<1> QED
  BY <1>2, <1>3, <1>4, <1>5, <1>6, <1>7

\* No event on the pipe is without an answer once a result follows it.
LEMMA AnswerPrinted ==
    ASSUME TypeOK, NEW what, what # "garbled", PrintLine(Result(what))
    PROVE  /\ client = "running" => ~Unanswered' /\ SomeReplied'
           /\ GarbledOnPipe' => GarbledOnPipe
<1>1. CASE fromJBE' = fromJBE /\ client # "running"
  BY <1>1 DEF GarbledOnPipe, Garbled
<1>2. CASE fromJBE' = Append(fromJBE, Result(what))
  <2>1. /\ DOMAIN fromJBE' = DOMAIN fromJBE \cup {Len(fromJBE) + 1}
        /\ \A i \in DOMAIN fromJBE : fromJBE'[i] = fromJBE[i]
        /\ fromJBE'[Len(fromJBE) + 1] = Result(what)
    BY <1>2, AppendIndex DEF TypeOK, PipesTypeOK
  <2> PICK n : n = Len(fromJBE) + 1
    OBVIOUS
  <2>2. /\ n \in DOMAIN fromJBE' /\ fromJBE'[n].tag = "result"
        /\ \A i \in DOMAIN fromJBE : n > i
    BY <2>1 DEF Result, TypeOK, PipesTypeOK
  <2>3. ~Unanswered'
    BY <2>1, <2>2 DEF Unanswered, Replied
  <2>4. SomeReplied'
    BY <2>1, <2>2 DEF SomeReplied, Replied
  <2>5. GarbledOnPipe' => GarbledOnPipe
    BY <2>1 DEF GarbledOnPipe, Garbled, Result
  <2> QED
    BY <2>3, <2>4, <2>5
<1> QED
  BY <1>1, <1>2 DEF PrintLine

\* A line that is no result leaves the replies; a garbled one adds no event that
\* has to be remembered, another no garbled line.
LEMMA EventPrinted ==
    ASSUME TypeOK, NEW l, l.tag # "result", PrintLine(l)
    PROVE  /\ SomeReplied' <=> SomeReplied
           /\ l.what = "garbled" => (Unanswered' => Unanswered)
           /\ l.what # "garbled" => (GarbledOnPipe' => GarbledOnPipe)
<1>1. CASE fromJBE' = fromJBE
  BY <1>1 DEF SomeReplied, Replied, Unanswered, GarbledOnPipe, Garbled
<1>2. CASE fromJBE' = Append(fromJBE, l)
  <2>1. /\ DOMAIN fromJBE' = DOMAIN fromJBE \cup {Len(fromJBE) + 1}
        /\ \A i \in DOMAIN fromJBE : fromJBE'[i] = fromJBE[i]
        /\ fromJBE'[Len(fromJBE) + 1] = l
    BY <1>2, AppendIndex DEF TypeOK, PipesTypeOK
  <2>2. SomeReplied' <=> SomeReplied
    BY <2>1 DEF SomeReplied, Replied
  <2>3. l.what = "garbled" => (Unanswered' => Unanswered)
    BY <2>1 DEF Unanswered, Garbled, Replied
  <2>4. l.what # "garbled" => (GarbledOnPipe' => GarbledOnPipe)
    BY <2>1 DEF GarbledOnPipe, Garbled
  <2> QED
    BY <2>2, <2>3, <2>4
<1> QED
  BY <1>1, <1>2 DEF PrintLine

\* A step that touches nothing the invariant speaks of, and lets no listener
\* forget its acknowledgement.
LEMMA QuietAwake ==
    ASSUME Awake,
           UNCHANGED <<toJBE, fromJBE, client, outgoing, waiting, eventQueue,
                       eventPending, asked, eventAcknowledged>>,
           jvm' = "running" => jvm = "running",
           \A t \in Threads : pc[t] = "ack" => pc'[t] = "ack",
           pc'["cmd"] = pc["cmd"] \/ pc'["cmd"] \notin {"count", "reply", "ask"}
    PROVE  Awake'
<1>1. GarbledStops'
  BY DEF Awake, GarbledStops, GarbledOnPipe, Garbled, Leaving, SomeOnTheWay, OnTheWay,
         Obeyed, SomeReplied, Replied
<1>2. EndedElsewhere'
  BY DEF Awake, EndedElsewhere
<1>3. SeenRemembered'
  BY DEF Awake, SeenRemembered, Unanswered, Garbled, Replied, SeenInWait, SomeReplied,
         Remembered, AckOwed
<1> QED
  BY <1>1, <1>2, <1>3 DEF Awake

\* waitForEvent asks only while no event is queued.
LEMMA ProgramStepAwake ==
    ASSUME TypeOK, Awake, ProgramStep, UNCHANGED backVars
    PROVE  Awake'
<1> USE DEF ProgramStep, NewGWindow, CloseGWindow, NewShape, CallBeforeInit, NewGTimer,
        FreeGTimer, StartStopTimer, Pause, GetText, AskForEvent, Call, pipeVars
<1>1. client = "running" /\ waiting = "no" /\ UNCHANGED <<toJBE, fromJBE, jvm>>
  OBVIOUS
<1>2. client' = client \/ waiting' = "no"
  OBVIOUS
<1>3. waiting' = "waitForEvent" => eventQueue' = <<>>
  BY <1>1 DEF Request
<1> HIDE DEF ProgramStep, NewGWindow, CloseGWindow, NewShape, CallBeforeInit, NewGTimer,
         FreeGTimer, StartStopTimer, Pause, GetText, AskForEvent, Call, pipeVars
<1>4. GarbledStops'
  BY <1>1 DEF Awake, GarbledStops, GarbledOnPipe, Garbled
<1>5. EndedElsewhere'
  BY <1>1, <1>2 DEF EndedElsewhere
<1>6. SeenRemembered'
  <2>1. Unanswered' = Unanswered /\ Remembered' = Remembered /\ ~SeenInWait'
    BY <1>1, <1>3 DEF Unanswered, Garbled, Replied, Remembered, AckOwed, SeenInWait, backVars
  <2> QED
    BY <1>1, <2>1 DEF Awake, SeenRemembered
<1> QED
  BY <1>4, <1>5, <1>6 DEF Awake

\* What is read from the pipe stays remembered in the queue; waitForEvent returns
\* with an event, or asks again when it has seen none.
LEMMA LibraryStepAwake ==
    ASSUME TypeOK, OneOutstanding, ~stray, Awake, LibraryStep, UNCHANGED backVars
    PROVE  Awake'
<1>1. Obeyed' = Obeyed /\ Remembered' = Remembered /\ ForWaiting /\ AtMostOne
  BY DEF backVars, Obeyed, Remembered, AckOwed, OneOutstanding
<1>2. CASE PutPipe
  <2>1. /\ UNCHANGED <<fromJBE, jvm, eventQueue, waiting>> /\ outgoing' = NoCommand
        /\ outgoing # NoCommand
        /\ toJBE' = toJBE \/ toJBE' = Append(toJBE, outgoing)
        /\ client' = client \/ jvm = "exited"
    BY <1>2 DEF PutPipe
  <2>2. /\ GarbledOnPipe' = GarbledOnPipe /\ SomeReplied' = SomeReplied
        /\ Unanswered' = Unanswered /\ SeenInWait' = SeenInWait /\ ~Leaving'
    BY <2>1, Sorts DEF GarbledOnPipe, Garbled, SomeReplied, Replied, Unanswered,
                       SeenInWait, Leaving
  <2>3. SomeOnTheWay' => SomeOnTheWay \/ Leaving
    <3>1. CASE toJBE' = toJBE
      BY <3>1 DEF SomeOnTheWay, OnTheWay
    <3>2. CASE toJBE' = Append(toJBE, outgoing)
      BY <1>1, <3>2, CommandWritten DEF AtMostOne, Leaving
    <3> QED
      BY <2>1, <3>1, <3>2
  <2>4. GarbledStops'
    BY <1>1, <2>1, <2>2, <2>3 DEF Awake, GarbledStops
  <2>5. EndedElsewhere'
    BY <2>1 DEF Awake, EndedElsewhere
  <2>6. SeenRemembered'
    BY <1>1, <1>2, <2>2 DEF Awake, SeenRemembered, PutPipe
  <2> QED
    BY <2>4, <2>5, <2>6 DEF Awake
<1>3. CASE ReadResult
  <2>1. /\ fromJBE # <<>> /\ fromJBE' = Tail(fromJBE) /\ Head(fromJBE).tag = "result"
        /\ client = "running" /\ toJBE' = toJBE /\ jvm' = jvm
    BY <1>3 DEF ReadResult, Reads
  <2>2. SomeReplied /\ (GarbledOnPipe' => GarbledOnPipe) /\ (Unanswered' => Unanswered)
    BY <2>1, EventsRead
  <2>3. ~GarbledOnPipe'
    BY <2>2 DEF Awake, GarbledStops
  <2>4. /\ waiting' = "waitForEvent" => eventQueue' = <<>>
        /\ client' # "running" => waiting' = "no"
    BY <1>3, <2>1 DEF ReadResult, GotAnswer, GotReply, AskFns
  <2>5. EndedElsewhere'
    BY <2>4 DEF EndedElsewhere
  <2>6. SeenRemembered'
    BY <1>1, <2>1, <2>2, <2>4 DEF Awake, SeenRemembered, SeenInWait
  <2> QED
    BY <2>3, <2>5, <2>6 DEF Awake, GarbledStops
<1>4. ASSUME ~Leaving', UNCHANGED <<toJBE, jvm, waiting>>, client = "running",
             fromJBE # <<>>, fromJBE' = Tail(fromJBE), Head(fromJBE).tag # "result",
             eventQueue' # <<>> => eventQueue # <<>> \/ Head(fromJBE).tag = "event",
             client' # "running" => GarbledOnPipe
      PROVE  Awake'
  <2>1. /\ GarbledOnPipe' => GarbledOnPipe
        /\ Unanswered' => Unanswered
        /\ SomeReplied' <=> SomeReplied
        /\ Head(fromJBE).tag = "event" /\ ~SomeReplied /\ ~GarbledOnPipe => Unanswered
    BY <1>4, EventsRead
  <2>2. SomeOnTheWay' = SomeOnTheWay
    BY <1>4 DEF SomeOnTheWay, OnTheWay
  <2>3. GarbledStops'
    BY <1>1, <1>4, <2>1, <2>2 DEF Awake, GarbledStops
  <2>4. EndedElsewhere'
    BY <1>4 DEF Awake, EndedElsewhere, GarbledStops
  <2>5. SeenInWait' => SeenInWait \/ Unanswered
    BY <1>4, <2>1 DEF SeenInWait, Awake, GarbledStops
  <2>6. SeenRemembered'
    BY <1>1, <1>4, <2>1, <2>5 DEF Awake, SeenRemembered
  <2> QED
    BY <2>3, <2>4, <2>6 DEF Awake
<1>5. CASE ReadEvent
  <2>1. ~Leaving'
    BY <1>5, Sorts DEF ReadEvent, Reads, Send, Command, Leaving, SilentFns
  <2> QED
    BY <1>4, <1>5, <2>1 DEF ReadEvent, Reads
<1>6. CASE ReadGarbledArguments \/ ReadJunk
  <2>1. ~Leaving' /\ UNCHANGED <<toJBE, jvm, waiting, eventQueue>> /\ client = "running"
        /\ fromJBE # <<>> /\ fromJBE' = Tail(fromJBE) /\ Head(fromJBE).tag # "result"
    BY <1>6, Sorts DEF ReadGarbledArguments, ReadJunk, Reads, Leaving, frontVars
  <2>2. client' # "running" => GarbledOnPipe
    <3>1. CASE ReadGarbledArguments
      <4>1. 1 \in DOMAIN fromJBE /\ fromJBE[1] = Head(fromJBE)
        BY <2>1 DEF TypeOK, PipesTypeOK
      <4> QED
        BY <3>1, <4>1 DEF ReadGarbledArguments, GarbledOnPipe, Garbled
    <3>2. CASE ReadJunk
      BY <2>1, <3>2 DEF ReadJunk
    <3> QED
      BY <1>6, <3>1, <3>2
  <2> QED
    BY <1>4, <2>1, <2>2
<1>7. CASE ReadEOF
  <2>1. UNCHANGED <<toJBE, fromJBE, outgoing, waiting>> /\ client' # "running"
        /\ jvm' # "running"
    BY <1>7 DEF ReadEOF, frontVars
  <2> QED
    BY <1>1, <2>1 DEF Awake, GarbledStops, GarbledOnPipe, Garbled, Leaving, SomeOnTheWay,
       OnTheWay, SomeReplied, Replied, EndedElsewhere, SeenRemembered
<1> QED
  BY <1>2, <1>3, <1>5, <1>6, <1>7 DEF LibraryStep, ReadStep

\* A new input begins a line and leaves what is on its way alone.
LEMMA UserStepAwake ==
    ASSUME TypeOK, Awake, UserStep, UNCHANGED frontVars
    PROVE  Awake'
<1>1. pc["edt"] = "idle" /\ pc'["cmd"] = pc["cmd"]
  BY DEF UserStep, HandleInput, IgnoreInput, Input, At, Goto, Threads, TypeOK, BackTypeOK
<1>2. UNCHANGED <<toJBE, fromJBE, client, jvm, outgoing, waiting, eventQueue, asked,
                  eventPending, eventAcknowledged>>
  BY DEF UserStep, HandleInput, IgnoreInput, Input, pipeVars, protocolVars, frontVars
<1> QED
  BY <1>1, <1>2, QuietAwake DEF Threads

\* A listener that has printed is about to acknowledge; once it has, the event is
\* answered or eventPending is set.
LEMMA ListenerStepAwake ==
    ASSUME TypeOK, OneOutstanding, LinesWhole, ~stray, Awake,
           NEW t \in Threads, ListenerStep(t), UNCHANGED frontVars, ~stray'
    PROVE  Awake'
<1>1. pc'["cmd"] = pc["cmd"] \/ pc'["cmd"] \notin {"count", "reply", "ask"}
  BY DEF ListenerStep, BeginLine, EndLine, Acknowledge, AfterAck, RemoveWindow, StoreCount,
         TestCount, ExitJVM, backVars, Goto, Threads, TypeOK, BackTypeOK
<1>2. UNCHANGED <<toJBE, client, outgoing, waiting, eventQueue>>
  BY DEF ListenerStep, BeginLine, EndLine, Acknowledge, RemoveWindow, StoreCount,
         TestCount, ExitJVM, pipeVars, frontVars
<1>3. CASE BeginLine(t) \/ RemoveWindow(t) \/ StoreCount(t) \/ TestCount(t) \/ ExitJVM(t)
  <2>1. UNCHANGED <<fromJBE, asked, eventPending, eventAcknowledged>>
        /\ (jvm' = "running" => jvm = "running")
    BY <1>3 DEF BeginLine, RemoveWindow, StoreCount, TestCount, ExitJVM, backVars,
                pipeVars, protocolVars
  <2>2. \A u \in Threads : pc[u] = "ack" => pc'[u] = "ack"
    BY <1>3 DEF BeginLine, RemoveWindow, StoreCount, TestCount, ExitJVM, backVars, At,
                Goto, TypeOK, BackTypeOK
  <2> QED
    BY <1>1, <1>2, <2>1, <2>2, QuietAwake
<1>4. ForWaiting /\ AtMostOne /\ (Obeyed' => Obeyed) /\ Leaving' = Leaving
      /\ SomeOnTheWay' = SomeOnTheWay
  BY <1>1, <1>2 DEF OneOutstanding, Obeyed, Leaving, SomeOnTheWay, OnTheWay
<1>5. ASSUME EndLine(t) \/ Acknowledge(t) PROVE EndedElsewhere'
  BY <1>2, <1>5 DEF EndLine, Acknowledge, At, Awake, EndedElsewhere
<1>6. CASE EndLine(t)
  <2> DEFINE l == IF partial = "broken" THEN Junk ELSE line[t]
  <2>1. PrintLine(l) /\ l.tag # "result" /\ l.what # "garbled"
    BY <1>6 DEF EndLine, Junk, EventLines, LinesWhole, TypeOK, BackTypeOK
  <2>2. /\ SomeReplied' <=> SomeReplied
        /\ GarbledOnPipe' => GarbledOnPipe
    BY <2>1, EventPrinted
  <2>3. GarbledStops'
    BY <1>2, <1>4, <2>2 DEF Awake, GarbledStops
  <2>4. Remembered'
    BY <1>6 DEF EndLine, Goto, Remembered, TypeOK, BackTypeOK
  <2> QED
    BY <1>5, <1>6, <2>3, <2>4 DEF Awake, SeenRemembered
<1>7. CASE Acknowledge(t)
  <2>1. AcknowledgeEvent /\ asked' = asked
    BY <1>7 DEF Acknowledge
  <2>2. CASE eventAcknowledged
    <3>1. /\ UNCHANGED <<fromJBE, asked, eventAcknowledged>>
          /\ eventPending' = TRUE
      BY <2>1, <2>2 DEF AcknowledgeEvent
    <3>2. GarbledStops'
      BY <1>2, <1>4, <3>1 DEF Awake, GarbledStops, GarbledOnPipe, Garbled, SomeReplied, Replied
    <3>3. Remembered'
      BY <2>2, <3>1 DEF Remembered, AckOwed
    <3> QED
      BY <1>5, <1>7, <3>2, <3>3 DEF Awake, SeenRemembered
  <2>3. CASE ~eventAcknowledged
    <3>1. PrintLine(Result("ack")) /\ stray' = (stray \/ ~asked)
      BY <2>1, <2>3 DEF AcknowledgeEvent
    <3>2. waiting = "waitForEvent"
      BY <1>4, <2>3, <3>1 DEF AckOwed, ForWaiting
    <3>3. /\ client = "running" => ~Unanswered' /\ SomeReplied'
          /\ GarbledOnPipe' => GarbledOnPipe
      BY <3>1, AnswerPrinted
    <3>4. ~GarbledOnPipe'
      BY <3>2, <3>3 DEF Awake, GarbledStops
    <3>5. SeenRemembered'
      BY <1>2, <3>3 DEF SeenRemembered, SeenInWait
    <3> QED
      BY <1>5, <1>7, <3>4, <3>5 DEF Awake, GarbledStops
  <2> QED
    BY <2>2, <2>3
<1> QED
  BY <1>3, <1>6, <1>7 DEF ListenerStep

\* The command thread takes the next command.
LEMMA ExecutedAwake ==
    ASSUME TypeOK, OneOutstanding, ~stray, Awake, NEW fn, Execute(fn), UNCHANGED frontVars,
           jvm' = jvm, Obeyed' => fn \in SyncFns,
           \A t \in Threads : pc[t] = "ack" => pc'[t] = "ack"
    PROVE  Awake'
<1>1. /\ toJBE # <<>> /\ toJBE' = Tail(toJBE) /\ Head(toJBE).fn = fn
      /\ UNCHANGED <<fromJBE, client, outgoing, waiting, eventQueue, asked, eventPending,
                     eventAcknowledged>>
  BY DEF Execute, protocolVars, frontVars
<1>2. /\ SomeOnTheWay' => SomeOnTheWay
      /\ fn \in SyncFns => SomeOnTheWay
  BY <1>1, CommandRead DEF OneOutstanding, AtMostOne
<1>3. GarbledStops'
  BY <1>1, <1>2 DEF Awake, GarbledStops, GarbledOnPipe, Garbled, Leaving, SomeReplied, Replied
<1>4. EndedElsewhere'
  BY <1>1 DEF Awake, EndedElsewhere
<1>5. SeenRemembered'
  BY <1>1 DEF Awake, SeenRemembered, Unanswered, Garbled, Replied, SeenInWait, SomeReplied,
              Remembered, AckOwed
<1> QED
  BY <1>3, <1>4, <1>5 DEF Awake

\* The command thread goes to sleep on waitForEvent only if no event is pending.
LEMMA CommandStepAwake ==
    ASSUME TypeOK, OneOutstanding, ~stray, Awake, CommandStep, UNCHANGED frontVars
    PROVE  Awake'
<1>0. /\ UNCHANGED <<outgoing, waiting, eventQueue>> /\ ForWaiting /\ AtMostOne
      /\ jvm' = jvm
  BY DEF CommandStep, GTimer_pause, GWindow_create, ShowWindow, NoReply, GWindow_close,
         SetTimer, Reply, GEvent_ask, AwaitEvent, AnswerNow, SetMask, Execute, pipeVars,
         frontVars, OneOutstanding
<1>1. ASSUME NEW to \in Points, Goto("cmd", to), pc["cmd"] # "ack"
      PROVE  pc'["cmd"] = to /\ \A t \in Threads : pc[t] = "ack" => pc'[t] = "ack"
  BY <1>1 DEF Goto, Threads, TypeOK, BackTypeOK
<1>2. ASSUME NEW fn, Execute(fn), NEW to \in Points, Goto("cmd", to),
             to \in {"count", "reply", "ask"} => fn \in SyncFns
      PROVE  Awake'
  BY <1>0, <1>1, <1>2, ExecutedAwake DEF Execute, At, Obeyed
<1>3. ASSUME NEW fn, Execute(fn), pc' = pc PROVE Awake'
  BY <1>0, <1>3, ExecutedAwake DEF Execute, At, Obeyed
<1>4. CASE GTimer_pause
  BY <1>2, <1>4 DEF GTimer_pause, Points, SyncFns, ReplyFns
<1>5. CASE GWindow_create
  BY <1>2, <1>5 DEF GWindow_create, Points, SyncFns, ReplyFns
<1>6. CASE GEvent_ask
  BY <1>2, <1>6 DEF GEvent_ask, Points, SyncFns
<1>7. CASE NoReply \/ GWindow_close \/ \E fn, to : SetTimer(fn, to)
  BY <1>2, <1>3, <1>7 DEF NoReply, GWindow_close, SetTimer, Points
<1>9. CASE ShowWindow
  <2>1. pc["cmd"] = "count" /\ Goto("cmd", "reply")
        /\ UNCHANGED <<toJBE, fromJBE, client, asked, eventPending, eventAcknowledged>>
    BY <1>9 DEF ShowWindow, At, pipeVars, protocolVars
  <2>2. \A t \in Threads : pc[t] = "ack" => pc'[t] = "ack"
    BY <1>1, <2>1 DEF Points
  <2>3. ~GarbledOnPipe' /\ EndedElsewhere'
    BY <1>0, <2>1 DEF Awake, GarbledStops, GarbledOnPipe, Garbled, Obeyed, EndedElsewhere
  <2>4. SeenRemembered'
    BY <1>0, <2>1, <2>2 DEF Awake, SeenRemembered, Unanswered, Garbled, Replied, SeenInWait,
                       SomeReplied, Remembered, AckOwed
  <2> QED
    BY <2>3, <2>4 DEF Awake, GarbledStops
<1>10. CASE Reply
  <2>1. /\ pc["cmd"] = "reply" /\ Goto("cmd", "idle")
        /\ UNCHANGED <<toJBE, client, asked, eventPending, eventAcknowledged>>
    BY <1>10 DEF Reply, At, protocolVars
  <2>2. /\ \A t \in Threads : pc[t] = "ack" => pc'[t] = "ack"
        /\ Obeyed /\ ~Obeyed'
    BY <1>1, <2>1 DEF Points, Obeyed
  <2>3. ~GarbledOnPipe
    BY <2>2 DEF Awake, GarbledStops
  <2>4. EndedElsewhere'
    BY <1>0, <2>1 DEF Awake, EndedElsewhere
  <2>5. ASSUME NEW what \in {"ok", "text"}, PrintLine(Result(what)) PROVE Awake'
    <3>1. /\ client = "running" => ~Unanswered' /\ SomeReplied'
          /\ ~GarbledOnPipe'
      BY <2>3, <2>5, AnswerPrinted
    <3> QED
      BY <2>1, <2>4, <3>1 DEF Awake, GarbledStops, SeenRemembered, SeenInWait
  <2>6. ASSUME current.fn = "getText", PrintLine(EventLine("garbled", Nobody))
        PROVE  Awake'
    <3>1. /\ SomeReplied' <=> SomeReplied
          /\ Unanswered' => Unanswered
      BY <2>6, EventPrinted DEF EventLine
    <3>2. waiting = "text" /\ ~Leaving /\ ~SomeOnTheWay /\ ~SomeReplied
      BY <1>0, <2>2, <2>6 DEF ForWaiting, AtMostOne, SortOf
    <3>3. GarbledStops'
      BY <1>0, <2>1, <2>2, <3>1, <3>2 DEF GarbledStops, Leaving, SomeOnTheWay, OnTheWay
    <3>4. SeenRemembered'
      BY <1>0, <2>1, <2>2, <3>1, <3>2 DEF Awake, SeenRemembered, SeenInWait, Remembered, AckOwed
    <3> QED
      BY <2>4, <3>3, <3>4 DEF Awake
  <2> QED
    BY <1>10, <2>5, <2>6 DEF Reply
<1>11. CASE AwaitEvent
  <2>1. /\ pc["cmd"] = "ask" /\ Goto("cmd", "idle") /\ ~eventPending
        /\ UNCHANGED <<toJBE, fromJBE, client>>
    BY <1>11 DEF AwaitEvent, At, pipeVars
  <2>2. \A t \in Threads : pc[t] = "ack" => pc'[t] = "ack"
    BY <1>1, <2>1 DEF Points
  <2>3. ~GarbledOnPipe' /\ EndedElsewhere'
    BY <1>0, <2>1 DEF Awake, GarbledStops, GarbledOnPipe, Garbled, Obeyed, EndedElsewhere
  <2>4. SeenRemembered'
    BY <1>0, <2>1, <2>2 DEF Awake, SeenRemembered, Unanswered, Garbled, Replied, SeenInWait,
                       SomeReplied, Remembered
  <2> QED
    BY <2>3, <2>4 DEF Awake, GarbledStops
<1>12. CASE AnswerNow
  <2>1. pc["cmd"] = "ask" /\ PrintLine(Result("ack")) /\ UNCHANGED <<client>>
    BY <1>12 DEF AnswerNow, At
  <2>2. /\ client = "running" => ~Unanswered' /\ SomeReplied'
        /\ GarbledOnPipe' => GarbledOnPipe
    BY <2>1, AnswerPrinted
  <2>3. ~GarbledOnPipe' /\ EndedElsewhere'
    BY <1>0, <2>1, <2>2 DEF Awake, GarbledStops, Obeyed, EndedElsewhere
  <2> QED
    BY <2>1, <2>2, <2>3 DEF Awake, GarbledStops, SeenRemembered, SeenInWait
<1>13. CASE SetMask
  <2>1. pc["cmd"] = "setMask" /\ Goto("cmd", "idle")
        /\ UNCHANGED <<toJBE, fromJBE, client, asked, eventPending, eventAcknowledged>>
    BY <1>13 DEF SetMask, At, pipeVars
  <2> QED
    BY <1>0, <1>1, <2>1, QuietAwake DEF Points
<1> QED
  BY <1>4, <1>5, <1>6, <1>7, <1>9, <1>10, <1>11, <1>12, <1>13 DEF CommandStep

\* Whatever the order in which listeners print and acknowledge and the program
\* asks, waitForEvent does not sleep on an event it already has.
THEOREM NoWakeupIsLost == Spec => []NoLostWakeup
<1>1. Init => WakeupInv
  <2> SUFFICES ASSUME Init PROVE LinesWhole /\ Awake
    BY DEF WakeupInv, Awake
  <2>1. LinesWhole
    BY DEF Init, BackInit, LinesWhole, EventLine
  <2>2. GarbledStops /\ EndedElsewhere
    BY DEF Init, PipesInit, GarbledStops, GarbledOnPipe, EndedElsewhere
  <2>3. SeenRemembered
    BY DEF Init, PipesInit, FrontInit, SeenRemembered, Unanswered, SeenInWait
  <2> QED
    BY <2>1, <2>2, <2>3 DEF Awake
<1>2. TypeOK /\ OneOutstanding /\ WakeupInv /\ [Next]_vars => WakeupInv'
  <2> SUFFICES ASSUME TypeOK, OneOutstanding, WakeupInv, [Next]_vars PROVE WakeupInv'
    OBVIOUS
  <2>1. LinesWhole'
    BY LinesStayWhole DEF WakeupInv
  <2>2. stray => stray'
    BY DEF Next, FrontStep, BackStep, UserStep, ThreadStep, ListenerStep, CommandStep, HandleInput,
       IgnoreInput, Input, BeginLine, EndLine, Acknowledge, AcknowledgeEvent, RemoveWindow,
       StoreCount, TestCount, ExitJVM, GTimer_pause, GWindow_create, ShowWindow, NoReply,
       GWindow_close, SetTimer, Reply, GEvent_ask, AwaitEvent, AnswerNow, SetMask, Execute,
       vars, backVars, protocolVars
  <2>3. SUFFICES ASSUME ~stray' PROVE Awake'
    BY <2>1 DEF WakeupInv, Awake
  <2>4. LinesWhole /\ ~stray /\ Awake
    BY <2>2, <2>3 DEF WakeupInv, Awake
  <2>5. CASE UNCHANGED vars
    BY <2>4, <2>5, QuietAwake DEF vars, pipeVars, frontVars, backVars
  <2>6. CASE FrontStep
    BY <2>4, <2>6, ProgramStepAwake, LibraryStepAwake DEF FrontStep
  <2>7. CASE BackStep
    BY <2>3, <2>4, <2>7, UserStepAwake, ListenerStepAwake, CommandStepAwake
       DEF BackStep, ThreadStep
  <2> QED
    BY <2>5, <2>6, <2>7 DEF Next
<1>3. TypeOK /\ OneOutstanding /\ WakeupInv => NoLostWakeup
  <2> SUFFICES ASSUME TypeOK, OneOutstanding, WakeupInv, ~stray, AckOwed, jvm = "running",
                      waiting = "waitForEvent",
                      eventQueue # <<>> \/ \E i \in DOMAIN fromJBE : fromJBE[i].tag = "event"
               PROVE  \E t \in Threads : pc[t] = "ack"
    BY DEF NoLostWakeup
  <2>1. ~SomeReplied /\ GarbledStops /\ EndedElsewhere /\ SeenRemembered
    BY DEF OneOutstanding, AtMostOne, WakeupInv
  <2>2. client = "running" /\ ~GarbledOnPipe
    BY <2>1 DEF EndedElsewhere, GarbledStops
  <2>3. Unanswered \/ SeenInWait
    BY <2>1, <2>2 DEF Unanswered, SeenInWait, SomeReplied, GarbledOnPipe
  <2> QED
    BY <2>1, <2>2, <2>3 DEF SeenRemembered, Remembered
<1> QED
  BY <1>1, <1>2, <1>3, TypeCorrect, OneReplyOutstanding, PTL DEF Spec
=============================================================================
