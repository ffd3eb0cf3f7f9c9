-------------------------- MODULE ExceptionsProofs --------------------------
(***************************************************************************)
(* The exception stack for any exceptions, programs and depth: while every *)
(* try is left through its endtry, the stack lists the handlers in force,  *)
(* no jump misses its try, and none drops a finally clause.                *)
(***************************************************************************)
EXTENDS Exceptions, TLAPS

\* No two try statements have the same context.
Distinct ==
    \A i, j \in 1 .. Len(frames) : frames[i].ctx = frames[j].ctx => i = j

\* A try with another within it is where the program's own code runs.
Nested ==
    \A i \in 1 .. Len(frames) - 1 : frames[i].at \in {"body", "clause", "cleanup"}

\* Past its finally clause, a try has the state that clause left.
FinallyDone ==
    \A i \in 1 .. Len(frames) :
        frames[i].finally /\ frames[i].at \in {"endtry", "popped"} =>
            frames[i].es \in {"ES_RETRY", "ES_FINISHED"}

IInv == TypeOK /\ Distinct /\ Nested /\ FinallyDone /\ StackMatchesFrames

-----------------------------------------------------------------------------
\* Innermost looks only at the contexts and places of the first n frames.
LEMMA InnermostAgrees ==
    ASSUME NEW fs, NEW gs, NEW c, NEW n,
           \A i \in 1 .. n : gs[i].ctx = fs[i].ctx /\ (OnStack(gs[i]) <=> OnStack(fs[i])),
           Innermost(fs, c, n), n \in Int
    PROVE  Innermost(gs, c, n)
<1> DEFINE On(f) == OnStack(f)
<1>1. \A i \in 1 .. n : gs[i].ctx = fs[i].ctx /\ (On(gs[i]) <=> On(fs[i]))
  OBVIOUS
<1>2. \/ c = Null /\ \A i \in 1 .. n : ~On(fs[i])
      \/ \E i \in 1 .. n : c = fs[i].ctx /\ On(fs[i]) /\ \A j \in i + 1 .. n : ~On(fs[j])
  BY DEF Innermost
<1> HIDE DEF On
<1>3. \/ c = Null /\ \A i \in 1 .. n : ~On(gs[i])
      \/ \E i \in 1 .. n : c = gs[i].ctx /\ On(gs[i]) /\ \A j \in i + 1 .. n : ~On(gs[j])
  BY <1>1, <1>2
<1> QED
  BY <1>3 DEF Innermost, On

\* A try whose place changes and that stays on the stack, or off it.
LEMMA LinkedStays ==
    ASSUME NEW fs \in Seq(Frame), NEW c, NEW f, fs # <<>>, Linked(fs, c),
           f.ctx = fs[Len(fs)].ctx, f.link = fs[Len(fs)].link,
           OnStack(f) <=> OnStack(fs[Len(fs)])
    PROVE  Linked([fs EXCEPT ![Len(fs)] = f], c)
<1> DEFINE gs == [fs EXCEPT ![Len(fs)] = f]
<1>1. /\ Len(gs) = Len(fs) /\ Len(fs) \in Nat \ {0}
      /\ \A i \in 1 .. Len(fs) : gs[i] = IF i = Len(fs) THEN f ELSE fs[i]
  OBVIOUS
<1> HIDE DEF gs
<1>2. \A i \in 1 .. Len(fs) :
        gs[i].ctx = fs[i].ctx /\ gs[i].link = fs[i].link /\ (OnStack(gs[i]) <=> OnStack(fs[i]))
  BY <1>1, ZenonT(30)
<1>3. Innermost(gs, c, Len(gs))
  BY <1>1, <1>2, InnermostAgrees DEF Linked
<1>4. ASSUME NEW i \in 1 .. Len(gs), OnStack(gs[i])
      PROVE  Innermost(gs, gs[i].link, i - 1)
  <2>1. Innermost(fs, gs[i].link, i - 1)
    BY <1>1, <1>2, <1>4 DEF Linked
  <2>2. \A k \in 1 .. i - 1 : gs[k].ctx = fs[k].ctx /\ (OnStack(gs[k]) <=> OnStack(fs[k]))
    BY <1>1, <1>2
  <2> QED
    BY <2>1, <2>2, InnermostAgrees
<1> QED
  BY <1>3, <1>4 DEF Linked, gs

\* Try puts its context on top.
LEMMA LinkedPush ==
    ASSUME NEW fs \in Seq(Frame), NEW c, NEW f, Linked(fs, c), f.link = c, OnStack(f)
    PROVE  Linked(Append(fs, f), f.ctx)
<1> DEFINE gs == Append(fs, f)
           n == Len(fs)
<1>1. /\ Len(gs) = n + 1 /\ n \in Nat
      /\ \A i \in 1 .. n : gs[i] = fs[i]
      /\ gs[n + 1] = f
  OBVIOUS
<1> HIDE DEF gs, n
<1>2. Innermost(gs, f.ctx, n + 1)
  BY <1>1 DEF Innermost
<1>3. ASSUME NEW i \in 1 .. n + 1, OnStack(gs[i])
      PROVE  Innermost(gs, gs[i].link, i - 1)
  <2>1. Innermost(fs, gs[i].link, i - 1)
    <3>1. CASE i = n + 1
      BY <1>1, <3>1 DEF Linked, n
    <3>2. CASE i \in 1 .. n
      <4>1. gs[i] = fs[i] /\ OnStack(fs[i])
        BY <1>1, <1>3, <3>2
      <4> QED
        BY <4>1, <3>2 DEF Linked, n
    <3> QED
      BY <1>1, <3>1, <3>2
  <2>2. \A k \in 1 .. i - 1 : gs[k] = fs[k]
    BY <1>1
  <2> QED
    BY <1>1, <2>1, <2>2, InnermostAgrees
<1> QED
  BY <1>1, <1>2, <1>3 DEF Linked, gs

\* A pop takes the context of the innermost try, if that is on the stack.
LEMMA LinkedPop ==
    ASSUME NEW fs \in Seq(Frame), NEW c, NEW f, fs # <<>>, Linked(fs, c),
           OnStack(fs[Len(fs)]), ~OnStack(f)
    PROVE  /\ c = fs[Len(fs)].ctx
           /\ Linked([fs EXCEPT ![Len(fs)] = f], fs[Len(fs)].link)
<1> DEFINE gs == [fs EXCEPT ![Len(fs)] = f]
           n == Len(fs)
           l == fs[n].link
<1>1. /\ Len(gs) = n /\ n \in Nat \ {0}
      /\ \A i \in 1 .. n - 1 : gs[i] = fs[i]
      /\ gs[n] = f
  OBVIOUS
<1>0. n \in 1 .. n
  <2>1. n \in Nat \ {0}
    OBVIOUS
  <2> HIDE DEF n
  <2> QED
    BY <2>1
<1>2. c = fs[n].ctx
  <2>1. Innermost(fs, c, n)
    BY DEF Linked
  <2>a. OnStack(fs[n])
    OBVIOUS
  <2>2. n \in 1 .. n /\ OnStack(fs[n])
    BY <1>0, <2>a
  <2> HIDE DEF gs, n
  <2>3. PICK i \in 1 .. n : c = fs[i].ctx /\ \A j \in i + 1 .. n : ~OnStack(fs[j])
    BY <2>1, <2>2 DEF Innermost
  <2>4. i = n
    BY <1>1, <2>2, <2>3
  <2> QED
    BY <2>3, <2>4
<1>3. Innermost(fs, l, n - 1)
  <2>1. OnStack(fs[n])
    OBVIOUS
  <2> HIDE DEF n
  <2> QED
    BY <1>0, <2>1 DEF Linked, n
<1> HIDE DEF gs, n, l
<1>4. Innermost(gs, l, n - 1)
  BY <1>1, <1>3, InnermostAgrees
<1>5. Innermost(gs, l, n)
  <2>1. ~OnStack(gs[n])
    BY <1>1
  <2> QED
    BY <1>1, <1>4, <2>1 DEF Innermost
<1>6. ASSUME NEW i \in 1 .. n, OnStack(gs[i])
      PROVE  Innermost(gs, gs[i].link, i - 1)
  <2>1. i \in 1 .. n - 1 /\ gs[i] = fs[i] /\ OnStack(fs[i])
    BY <1>1, <1>6
  <2>2. Innermost(fs, gs[i].link, i - 1)
    BY <2>1, <1>1 DEF Linked, n
  <2> QED
    BY <1>1, <2>1, <2>2, InnermostAgrees
<1> QED
  BY <1>1, <1>2, <1>5, <1>6 DEF Linked, gs, n, l

\* The first frames, with those dropped not on the stack.
LEMMA LinkedDrop ==
    ASSUME NEW fs \in Seq(Frame), NEW c, NEW n \in 0 .. Len(fs), Linked(fs, c),
           \A i \in n + 1 .. Len(fs) : ~OnStack(fs[i])
    PROVE  Linked(SubSeq(fs, 1, n), c)
<1> DEFINE gs == SubSeq(fs, 1, n)
<1>1. Len(gs) = n /\ \A i \in 1 .. n : gs[i] = fs[i]
  OBVIOUS
<1> HIDE DEF gs
<1>2. Innermost(fs, c, n)
  <2>1. Innermost(fs, c, Len(fs)) /\ Len(fs) \in Nat
    BY DEF Linked
  <2> QED
    BY <2>1 DEF Innermost
<1>3. Innermost(gs, c, n)
  BY <1>1, <1>2, InnermostAgrees
<1>4. ASSUME NEW i \in 1 .. n, OnStack(gs[i])
      PROVE  Innermost(gs, gs[i].link, i - 1)
  <2>1. i \in 1 .. Len(fs) /\ gs[i] = fs[i] /\ OnStack(fs[i])
    BY <1>1, <1>4
  <2>2. Innermost(fs, gs[i].link, i - 1)
    BY <2>1 DEF Linked
  <2> QED
    BY <1>1, <2>1, <2>2, InnermostAgrees
<1> QED
  BY <1>1, <1>3, <1>4 DEF Linked, gs

\* A jump to the context on top drops what is not on the stack.
LEMMA LinkedJump ==
    ASSUME NEW fs \in Seq(Frame), NEW c \in Contexts, NEW i \in 1 .. Len(fs), NEW g,
           Linked(fs, c), fs[i].ctx = c,
           \A j, k \in 1 .. Len(fs) : fs[j].ctx = fs[k].ctx => j = k,
           g.ctx = c, g.link = fs[i].link, OnStack(g)
    PROVE  /\ OnStack(fs[i])
           /\ \A j \in i + 1 .. Len(fs) : ~OnStack(fs[j])
           /\ Linked(Append(SubSeq(fs, 1, i - 1), g), c)
<1>1. c # Null
  BY ContextsAssumption
<1>2. PICK k \in 1 .. Len(fs) : /\ c = fs[k].ctx
                                /\ OnStack(fs[k])
                                /\ \A j \in k + 1 .. Len(fs) : ~OnStack(fs[j])
  BY <1>1 DEF Linked, Innermost
<1>3. k = i
  BY <1>2
<1>4. OnStack(fs[i]) /\ \A j \in i + 1 .. Len(fs) : ~OnStack(fs[j])
  BY <1>2, <1>3
<1>5. Innermost(fs, fs[i].link, i - 1)
  BY <1>4 DEF Linked
<1> DEFINE hs == SubSeq(fs, 1, i - 1)
<1>6. /\ hs \in Seq(Frame)
      /\ Len(hs) = i - 1
      /\ \A j \in 1 .. i - 1 : hs[j] = fs[j]
  OBVIOUS
<1> HIDE DEF hs
<1>7. Linked(hs, g.link)
  <2>1. Innermost(hs, g.link, i - 1)
    BY <1>5, <1>6, InnermostAgrees
  <2>2. ASSUME NEW j \in 1 .. i - 1, OnStack(hs[j])
        PROVE  Innermost(hs, hs[j].link, j - 1)
    <3>1. j \in 1 .. Len(fs) /\ hs[j] = fs[j] /\ OnStack(fs[j])
      BY <1>6, <2>2
    <3>2. Innermost(fs, hs[j].link, j - 1)
      BY <3>1 DEF Linked
    <3> QED
      BY <1>6, <3>1, <3>2, InnermostAgrees
  <2> QED
    BY <1>6, <2>1, <2>2 DEF Linked
<1>8. Linked(Append(hs, g), g.ctx)
  BY <1>6, <1>7, LinkedPush
<1> QED
  BY <1>4, <1>8 DEF hs

-----------------------------------------------------------------------------
\* What of the invariant does not speak of the stack.
Shape == TypeOK /\ Distinct /\ Nested /\ FinallyDone

LEMMA InitHolds == Init => IInv
<1> SUFFICES ASSUME Init PROVE IInv
  OBVIOUS
<1>1. frames = <<>> /\ Len(frames) = 0 /\ DOMAIN frames = {}
  BY DEF Init
<1>2. TypeOK
  <2>1. <<>> \in Seq(Frame)
    OBVIOUS
  <2>2. frames \in Seq(Frame)
    BY <2>1 DEF Init
  <2> QED
    BY <1>1, <2>2 DEF Init, TypeOK
<1>3. Distinct /\ Nested /\ FinallyDone
  BY <1>1 DEF Distinct, Nested, FinallyDone
<1>4. Linked(frames, exceptionStack)
  BY <1>1 DEF Init, Linked, Innermost
<1> QED
  BY <1>2, <1>3, <1>4 DEF IInv, StackMatchesFrames

LEMMA TypeOfTop ==
    ASSUME TypeOK, frames # <<>>
    PROVE  Top \in Frame /\ Len(frames) \in 1 .. Len(frames) /\ Top = frames[Len(frames)]
BY DEF TypeOK, Top

\* A frame put in the place of the one on top.
LEMMA ShapeOfTop ==
    ASSUME Shape, frames # <<>>, NEW f \in Frame, f.ctx = Top.ctx,
           SetTop(f), UNCHANGED <<status, left>>,
           exceptionStack' \in Contexts \cup {Null},
           /\ f.at \in {"pushed", "body"} => f.es = "ES_BODY"
           /\ f.at = "clause" => f.es = "ES_CAUGHT"
           /\ f.at \in {"catches", "finally"} => f.es \notin {"ES_RETRY", "ES_FINISHED"}
           /\ f.at = "cleanup" => f.es \in {"ES_RETRY", "ES_FINISHED"}
           /\ f.es \in {"ES_CATCH", "ES_RETRY"} => f.id \in Exceptions
           /\ f.finally /\ f.at \in {"endtry", "popped"} =>
                 f.es \in {"ES_RETRY", "ES_FINISHED"}
    PROVE  Shape'
<1>1. /\ Len(frames') = Len(frames) /\ Len(frames) \in Nat \ {0}
      /\ frames' \in Seq(Frame)
      /\ \A i \in 1 .. Len(frames) :
            frames'[i] = IF i = Len(frames) THEN f ELSE frames[i]
  BY DEF Shape, TypeOK, SetTop
<1>2. TypeOK'
  BY <1>1 DEF Shape, TypeOK
<1>3. Distinct'
  <2>1. \A i \in 1 .. Len(frames) : frames'[i].ctx = frames[i].ctx
    BY <1>1 DEF Top
  <2> QED
    BY <1>1, <2>1 DEF Shape, Distinct
<1>4. Nested'
  BY <1>1 DEF Shape, Nested
<1>5. FinallyDone'
  BY <1>1 DEF Shape, FinallyDone
<1> QED
  BY <1>2, <1>3, <1>4, <1>5 DEF Shape

\* A jump, whoever makes it.
LEMMA JumpKeeps ==
    ASSUME IInv, NEW e \in Exceptions, status = "running", JumpWith(e)
    PROVE  /\ IInv'
           /\ ~left /\ status' = "undefined" =>
                 \E i \in 1 .. Len(frames) : frames[i].at = "pushed"
           /\ ~left' => \A i \in 1 .. Len(frames) :
                 i > Len(frames') /\ frames[i].finally =>
                     frames[i].es \in {"ES_FINISHED", "ES_RETRY"}
<1> USE DEF IInv
<1>1. CASE exceptionStack = Null /\ status' = "unhandled"
           /\ UNCHANGED <<frames, exceptionStack, left>>
  <2>1. IInv'
    BY <1>1 DEF TypeOK, Distinct, Nested, FinallyDone, StackMatchesFrames
  <2>2. Len(frames) \in Nat /\ frames' = frames
    BY <1>1 DEF TypeOK
  <2> QED
    BY <1>1, <2>1, <2>2
<1>2. ASSUME NEW i \in DOMAIN frames,
             frames[i].ctx = exceptionStack,
             frames[i].at # "pushed",
             frames' = Append(SubSeq(frames, 1, i - 1),
                              [frames[i] EXCEPT !.id = e, !.es = "ES_CATCH", !.at = "catches"]),
             UNCHANGED <<exceptionStack, status, left>>
      PROVE  /\ IInv'
             /\ status' # "undefined"
             /\ ~left' => \A j \in 1 .. Len(frames) :
                   j > Len(frames') /\ frames[j].finally =>
                       frames[j].es \in {"ES_FINISHED", "ES_RETRY"}
  <2> DEFINE g == [frames[i] EXCEPT !.id = e, !.es = "ES_CATCH", !.at = "catches"]
  <2>1. /\ i \in 1 .. Len(frames) /\ frames \in Seq(Frame) /\ Len(frames) \in Nat
        /\ frames[i] \in Frame
    BY DEF TypeOK
  <2>2. /\ g \in Frame /\ g.ctx = frames[i].ctx /\ g.link = frames[i].link
        /\ g.id = e /\ g.es = "ES_CATCH" /\ g.at = "catches"
    BY <2>1 DEF Frame, States, Places
  <2> HIDE DEF g
  <2>3. /\ frames' \in Seq(Frame)
        /\ Len(frames') = i
        /\ \A j \in 1 .. i - 1 : frames'[j] = frames[j]
        /\ frames'[i] = g
    <3>1. frames' = Append(SubSeq(frames, 1, i - 1), g)
      BY <1>2 DEF g
    <3> QED
      BY <2>1, <2>2, <3>1
  <2>4. TypeOK'
    BY <1>2, <2>1, <2>2, <2>3 DEF TypeOK
  <2>5. Distinct'
    <3>1. \A j \in 1 .. i : frames'[j].ctx = frames[j].ctx
      BY <2>1, <2>2, <2>3
    <3> QED
      BY <2>1, <2>3, <3>1 DEF Distinct
  <2>6. Nested'
    BY <2>1, <2>3 DEF Nested
  <2>7. FinallyDone'
    BY <2>1, <2>2, <2>3 DEF FinallyDone
  <2>8. ASSUME ~left'
        PROVE  /\ Linked(frames', exceptionStack')
               /\ \A j \in i + 1 .. Len(frames) : ~OnStack(frames[j])
    <3>1. Linked(frames, exceptionStack) /\ exceptionStack' = exceptionStack
      BY <1>2, <2>8 DEF StackMatchesFrames
    <3>2. exceptionStack \in Contexts
      BY <1>2, <2>1 DEF Frame
    <3>3. OnStack(g)
      BY <2>2 DEF OnStack
    <3>4. frames' = Append(SubSeq(frames, 1, i - 1), g)
      BY <1>2 DEF g
    <3>5. \A j, k \in 1 .. Len(frames) : frames[j].ctx = frames[k].ctx => j = k
      BY DEF Distinct
    <3>6. g.ctx = exceptionStack /\ g.link = frames[i].link /\ frames[i].ctx = exceptionStack
      BY <1>2, <2>2
    <3>7. /\ Linked(Append(SubSeq(frames, 1, i - 1), g), exceptionStack)
          /\ \A j \in i + 1 .. Len(frames) : ~OnStack(frames[j])
      BY ONLY <2>1, <3>1, <3>2, <3>3, <3>5, <3>6, LinkedJump
    <3> QED
      BY <3>1, <3>4, <3>7
  <2>9. ASSUME ~left', NEW j \in 1 .. Len(frames), j > Len(frames'), frames[j].finally
        PROVE  frames[j].es \in {"ES_FINISHED", "ES_RETRY"}
    <3>1. ~OnStack(frames[j])
      BY <2>1, <2>3, <2>8, <2>9
    <3>2. frames[j] \in Frame
      BY <2>1, <2>9
    <3>6. frames[j].at \in Places
      BY <3>2 DEF Frame
    <3>3. frames[j].at \in {"cleanup", "endtry", "popped"}
      BY <3>1, <3>6 DEF OnStack, Places
    <3>4. CASE frames[j].at = "cleanup"
      BY <2>1, <3>4 DEF TypeOK
    <3>5. CASE frames[j].at \in {"endtry", "popped"}
      BY <2>9, <3>5 DEF FinallyDone
    <3> QED
      BY <3>3, <3>4, <3>5
  <2> QED
    BY <1>2, <2>4, <2>5, <2>6, <2>7, <2>8, <2>9 DEF StackMatchesFrames
<1>3. CASE /\ exceptionStack # Null
           /\ \A i \in DOMAIN frames : frames[i].ctx = exceptionStack => frames[i].at = "pushed"
           /\ Undefined
  <2>1. UNCHANGED <<frames, exceptionStack, left>> /\ status' = "undefined"
    BY <1>3 DEF Undefined
  <2>2. IInv'
    BY <2>1 DEF TypeOK, Distinct, Nested, FinallyDone, StackMatchesFrames
  <2>3. ASSUME ~left
        PROVE  \E i \in 1 .. Len(frames) : frames[i].at = "pushed"
    <3>1. Innermost(frames, exceptionStack, Len(frames))
      BY <2>3 DEF StackMatchesFrames, Linked
    <3>2. PICK i \in 1 .. Len(frames) : exceptionStack = frames[i].ctx
      BY <1>3, <3>1 DEF Innermost
    <3> QED
      BY <1>3, <3>2 DEF TypeOK
  <2> QED
    BY <2>1, <2>2, <2>3 DEF TypeOK
<1>4. CASE \E i \in DOMAIN frames :
             /\ frames[i].ctx = exceptionStack
             /\ frames[i].at # "pushed"
             /\ frames' = Append(SubSeq(frames, 1, i - 1),
                                 [frames[i] EXCEPT !.id = e, !.es = "ES_CATCH", !.at = "catches"])
             /\ UNCHANGED <<exceptionStack, status, left>>
  BY <1>2, <1>4
<1> QED
  BY <1>1, <1>4, <1>3 DEF JumpWith

\* Every step but the jumps keeps the invariant, and drops no try before its
\* finally clause has begun; popExceptionStack finds the context it pops.
StepKeeps ==
    /\ IInv'
    /\ ~left => status' # "undefined"
    /\ ~left' => \A i \in 1 .. Len(frames) :
          i > Len(frames') /\ frames[i].finally =>
              frames[i].es \in {"ES_FINISHED", "ES_RETRY"}

LEMMA TryKeeps ==
    ASSUME IInv, NEW c \in Contexts, NEW catches \in Clauses, NEW finally \in BOOLEAN,
           Try(c, catches, finally)
    PROVE  StepKeeps
<1> DEFINE f == [ctx |-> c, link |-> exceptionStack, id |-> Null, catches |-> catches,
                 finally |-> finally, es |-> "ES_BODY", at |-> "pushed"]
<1>1. /\ frames' = Append(frames, f)
      /\ exceptionStack' = c
      /\ status' = status /\ left' = left /\ status = "running"
      /\ frames # <<>> => Top.at \in {"body", "clause", "cleanup"}
      /\ \A i \in DOMAIN frames : frames[i].ctx # c
  BY DEF Try, InUserCode
<1>2. /\ f \in Frame /\ f.ctx = c /\ f.link = exceptionStack
      /\ f.es = "ES_BODY" /\ f.at = "pushed"
  BY DEF IInv, TypeOK, Frame, States, Places
<1> HIDE DEF f
<1>3. /\ frames' \in Seq(Frame)
      /\ Len(frames') = Len(frames) + 1 /\ Len(frames) \in Nat
      /\ DOMAIN frames = 1 .. Len(frames)
      /\ DOMAIN frames' = 1 .. Len(frames) + 1
      /\ \A i \in 1 .. Len(frames) : frames'[i] = frames[i]
      /\ frames'[Len(frames) + 1] = f
  BY <1>1, <1>2 DEF IInv, TypeOK
<1>4. TypeOK'
  BY <1>1, <1>2, <1>3 DEF IInv, TypeOK
<1>5. Distinct'
  BY <1>1, <1>2, <1>3 DEF IInv, Distinct
<1>6. Nested'
  <2>1. Len(frames) # 0 => frames[Len(frames)].at \in {"body", "clause", "cleanup"}
    BY <1>1, <1>3 DEF Top
  <2> QED
    BY <1>3, <2>1 DEF IInv, Nested
<1>7. FinallyDone'
  BY <1>2, <1>3 DEF IInv, FinallyDone
<1>8. ASSUME ~left PROVE Linked(frames', exceptionStack')
  <2>1. Linked(frames, exceptionStack)
    BY <1>8 DEF IInv, StackMatchesFrames
  <2>2. OnStack(f)
    BY <1>2 DEF OnStack
  <2>3. frames \in Seq(Frame)
    BY DEF IInv, TypeOK
  <2>4. Linked(Append(frames, f), f.ctx)
    BY ONLY <1>2, <2>1, <2>2, <2>3, LinkedPush
  <2> QED
    BY <1>1, <1>2, <2>4
<1>9. StackMatchesFrames'
  BY <1>1, <1>8 DEF StackMatchesFrames
<1> QED
  BY <1>1, <1>3, <1>4, <1>5, <1>6, <1>7, <1>9 DEF StepKeeps, IInv

\* A step of the macros that puts f in the place of the frame on top, and keeps
\* it on the stack or off it.
LEMMA MoveKeeps ==
    ASSUME IInv, frames # <<>>, status = "running", NEW f \in Frame,
           f.ctx = Top.ctx, f.link = Top.link, OnStack(f) <=> OnStack(Top),
           SetTop(f), UNCHANGED <<exceptionStack, status, left>>,
           /\ f.at \in {"pushed", "body"} => f.es = "ES_BODY"
           /\ f.at = "clause" => f.es = "ES_CAUGHT"
           /\ f.at \in {"catches", "finally"} => f.es \notin {"ES_RETRY", "ES_FINISHED"}
           /\ f.at = "cleanup" => f.es \in {"ES_RETRY", "ES_FINISHED"}
           /\ f.es \in {"ES_CATCH", "ES_RETRY"} => f.id \in Exceptions
           /\ f.finally /\ f.at \in {"endtry", "popped"} =>
                 f.es \in {"ES_RETRY", "ES_FINISHED"}
    PROVE  StepKeeps
<1>1. exceptionStack' \in Contexts \cup {Null}
  BY DEF IInv, TypeOK
<1>2. Shape'
  BY <1>1, ShapeOfTop DEF IInv, Shape
<1>3. frames \in Seq(Frame) /\ Len(frames') = Len(frames) /\ Len(frames) \in Nat
  BY DEF IInv, TypeOK, SetTop
<1>4. ASSUME ~left PROVE Linked(frames', exceptionStack')
  <2>1. Linked(frames, exceptionStack)
    BY <1>4 DEF IInv, StackMatchesFrames
  <2>2. f.ctx = frames[Len(frames)].ctx /\ f.link = frames[Len(frames)].link
        /\ (OnStack(f) <=> OnStack(frames[Len(frames)]))
    BY DEF Top
  <2>3. Linked([frames EXCEPT ![Len(frames)] = f], exceptionStack)
    BY ONLY <1>3, <2>1, <2>2, LinkedStays, frames # <<>>
  <2> QED
    BY <2>3 DEF SetTop
<1>5. StackMatchesFrames'
  BY <1>4 DEF StackMatchesFrames
<1> QED
  BY <1>2, <1>3, <1>5 DEF StepKeeps, IInv, Shape

\* A pop by finally or endtry of the frame on top.
LEMMA PopKeeps ==
    ASSUME IInv, frames # <<>>, status = "running", NEW f \in Frame,
           f.ctx = Top.ctx, OnStack(Top), ~OnStack(f),
           PopAndSet(f),
           /\ f.at \in {"pushed", "body"} => f.es = "ES_BODY"
           /\ f.at = "clause" => f.es = "ES_CAUGHT"
           /\ f.at \in {"catches", "finally"} => f.es \notin {"ES_RETRY", "ES_FINISHED"}
           /\ f.at = "cleanup" => f.es \in {"ES_RETRY", "ES_FINISHED"}
           /\ f.es \in {"ES_CATCH", "ES_RETRY"} => f.id \in Exceptions
           /\ f.finally /\ f.at \in {"endtry", "popped"} =>
                 f.es \in {"ES_RETRY", "ES_FINISHED"}
    PROVE  StepKeeps
<1>1. /\ frames \in Seq(Frame) /\ Len(frames) \in 1 .. Len(frames) /\ Len(frames) \in Nat
      /\ Top = frames[Len(frames)] /\ Top \in Frame
      /\ DOMAIN frames = 1 .. Len(frames)
  BY TypeOfTop DEF IInv, TypeOK
<1>2. ASSUME ~left
      PROVE  /\ exceptionStack = Top.ctx
             /\ Linked([frames EXCEPT ![Len(frames)] = f], Top.link)
  <2>1. Linked(frames, exceptionStack)
    BY <1>2 DEF IInv, StackMatchesFrames
  <2>2. OnStack(frames[Len(frames)])
    BY <1>1
  <2> QED
    BY <1>1, <2>1, <2>2, LinkedPop
<1>3. CASE exceptionStack = Null /\ SetTop(f) /\ UNCHANGED <<exceptionStack, status, left>>
  <2>1. left
    <3>1. Top.ctx # Null
      BY <1>1, ContextsAssumption DEF Frame
    <3> QED
      BY <1>2, <1>3, <3>1
  <2>2. exceptionStack' \in Contexts \cup {Null}
    BY <1>3
  <2>3. Shape'
    BY <1>3, <2>2, ShapeOfTop DEF IInv, Shape
  <2>4. left' /\ StackMatchesFrames'
    BY <1>3, <2>1 DEF StackMatchesFrames
  <2> QED
    BY <2>1, <2>3, <2>4 DEF StepKeeps, IInv, Shape
<1>4. ASSUME NEW i \in DOMAIN frames,
             frames[i].ctx = exceptionStack,
             exceptionStack' = frames[i].link,
             SetTop(f),
             UNCHANGED <<status, left>>
      PROVE  StepKeeps
  <2>1. frames[i] \in Frame
    BY <1>1
  <2>2. exceptionStack' \in Contexts \cup {Null}
    BY <1>4, <2>1 DEF Frame
  <2>3. Shape'
    BY <1>4, <2>2, ShapeOfTop DEF IInv, Shape
  <2>4. ASSUME ~left PROVE Linked(frames', exceptionStack')
    <3>1. i = Len(frames)
      BY <1>1, <1>2, <1>4, <2>4 DEF IInv, Distinct
    <3>2. exceptionStack' = Top.link
      BY <1>1, <1>4, <3>1
    <3> QED
      BY <1>2, <1>4, <2>4, <3>2 DEF SetTop
  <2>5. StackMatchesFrames'
    BY <1>4, <2>4 DEF StackMatchesFrames
  <2>6. Len(frames') = Len(frames)
    BY <1>1, <1>4 DEF SetTop
  <2> QED
    BY <1>1, <1>4, <2>3, <2>5, <2>6 DEF StepKeeps, IInv, Shape
<1>5. CASE /\ exceptionStack # Null
           /\ \A i \in DOMAIN frames : frames[i].ctx # exceptionStack
           /\ Undefined
  <2>1. UNCHANGED <<frames, exceptionStack, left>> /\ status' = "undefined"
    BY <1>5 DEF Undefined
  <2>2. IInv'
    BY <2>1 DEF IInv, TypeOK, Distinct, Nested, FinallyDone, StackMatchesFrames
  <2>3. left
    BY <1>1, <1>2, <1>5
  <2> QED
    BY <1>1, <2>1, <2>2, <2>3 DEF StepKeeps
<1>6. CASE \E i \in DOMAIN frames :
             /\ frames[i].ctx = exceptionStack
             /\ exceptionStack' = frames[i].link
             /\ SetTop(f)
             /\ UNCHANGED <<status, left>>
  BY <1>4, <1>6
<1> QED
  BY <1>3, <1>5, <1>6 DEF PopAndSet

LEMMA LeaveTryKeeps ==
    ASSUME IInv, At("popped"), Top.es \notin {"ES_CATCH", "ES_RETRY"},
           frames' = SubSeq(frames, 1, Len(frames) - 1),
           UNCHANGED <<exceptionStack, status, left>>
    PROVE  StepKeeps
<1>1. /\ frames \in Seq(Frame) /\ Len(frames) \in Nat \ {0}
      /\ Top = frames[Len(frames)] /\ Top.at = "popped" /\ status = "running"
      /\ DOMAIN frames = 1 .. Len(frames)
  BY TypeOfTop DEF IInv, TypeOK, At
<1>2. /\ frames' \in Seq(Frame)
      /\ Len(frames') = Len(frames) - 1
      /\ DOMAIN frames' = 1 .. Len(frames) - 1
      /\ \A i \in 1 .. Len(frames) - 1 : frames'[i] = frames[i]
  BY <1>1
<1>3. TypeOK' /\ Distinct' /\ Nested' /\ FinallyDone'
  BY <1>1, <1>2 DEF IInv, TypeOK, Distinct, Nested, FinallyDone
<1>4. ASSUME ~left PROVE Linked(frames', exceptionStack')
  <2>1. Linked(frames, exceptionStack)
    BY <1>4 DEF IInv, StackMatchesFrames
  <2>2. \A i \in Len(frames) - 1 + 1 .. Len(frames) : ~OnStack(frames[i])
    BY <1>1 DEF OnStack
  <2>3. Len(frames) - 1 \in 0 .. Len(frames)
    BY <1>1
  <2> QED
    BY <1>1, <2>1, <2>2, <2>3, LinkedDrop
<1>5. StackMatchesFrames'
  BY <1>4 DEF StackMatchesFrames
<1>6. ASSUME NEW i \in 1 .. Len(frames), i > Len(frames'), frames[i].finally
      PROVE  frames[i].es \in {"ES_FINISHED", "ES_RETRY"}
  BY <1>1, <1>2, <1>6 DEF IInv, FinallyDone
<1> QED
  BY <1>1, <1>3, <1>5, <1>6 DEF StepKeeps, IInv

LEMMA JumpOutKeeps ==
    ASSUME IInv, NEW n \in 0 .. Len(frames) - 1, JumpOut(n)
    PROVE  IInv' /\ status' = "running"
<1>1. /\ frames \in Seq(Frame) /\ Len(frames) \in Nat /\ n \in 0 .. Len(frames)
      /\ status = "running" /\ status' = status /\ exceptionStack' = exceptionStack
      /\ frames' = SubSeq(frames, 1, n)
      /\ left' = (left \/ \E i \in n + 1 .. Len(frames) : OnStack(frames[i]))
  BY DEF IInv, TypeOK, JumpOut, InUserCode
<1>2. /\ frames' \in Seq(Frame)
      /\ Len(frames') = n
      /\ DOMAIN frames' = 1 .. n /\ DOMAIN frames = 1 .. Len(frames)
      /\ \A i \in 1 .. n : frames'[i] = frames[i]
  BY <1>1
<1>3. TypeOK'
  <2>1. left' \in BOOLEAN
    BY <1>1
  <2> HIDE DEF OnStack
  <2>2. \A i \in 1 .. n : i \in 1 .. Len(frames)
    BY <1>1
  <2>3. status' = status /\ exceptionStack' = exceptionStack
    BY <1>1
  <2> QED
    BY <1>2, <2>1, <2>2, <2>3 DEF IInv, TypeOK
<1>4. Distinct' /\ Nested' /\ FinallyDone'
  BY <1>1, <1>2 DEF IInv, Distinct, Nested, FinallyDone
<1>5. ASSUME ~left' PROVE Linked(frames', exceptionStack')
  <2>1. Linked(frames, exceptionStack)
    BY <1>1, <1>5 DEF IInv, StackMatchesFrames
  <2>2. \A i \in n + 1 .. Len(frames) : ~OnStack(frames[i])
    BY <1>1, <1>5
  <2> QED
    BY <1>1, <2>1, <2>2, LinkedDrop
<1>6. StackMatchesFrames'
  BY <1>5 DEF StackMatchesFrames
<1> QED
  BY <1>1, <1>3, <1>4, <1>6 DEF IInv

\* What a step does, jumps included.
LEMMA NextKeeps ==
    ASSUME IInv, Next
    PROVE  /\ IInv'
           /\ status = "running" /\ status' = "undefined" => left \/ At("pushed")
           /\ ~left' /\ (\A n \in 0 .. Len(frames) - 1 : ~JumpOut(n)) =>
                \A i \in DOMAIN frames :
                    i > Len(frames') /\ frames[i].finally =>
                        frames[i].es \in {"ES_FINISHED", "ES_RETRY"}
<1> DEFINE Goal == /\ IInv'
                   /\ status = "running" /\ status' = "undefined" => left \/ At("pushed")
                   /\ ~left' /\ (\A n \in 0 .. Len(frames) - 1 : ~JumpOut(n)) =>
                        \A i \in DOMAIN frames :
                            i > Len(frames') /\ frames[i].finally =>
                                frames[i].es \in {"ES_FINISHED", "ES_RETRY"}
<1> SUFFICES Goal
  OBVIOUS
<1> HIDE DEF Goal
<1>a. DOMAIN frames = 1 .. Len(frames) /\ Len(frames) \in Nat
  BY DEF IInv, TypeOK
<1>b. StepKeeps => Goal
  BY <1>a DEF StepKeeps, Goal
<1>c. ASSUME NEW e \in Exceptions, status = "running", JumpWith(e) PROVE Goal
  <2>1. ASSUME NEW i \in 1 .. Len(frames), frames[i].at = "pushed" PROVE At("pushed")
    <3>1. \A j \in 1 .. Len(frames) - 1 : frames[j].at # "pushed"
      BY DEF IInv, Nested
    <3>2. \A n \in Nat : \A k \in 1 .. n : k \in 1 .. n - 1 \/ k = n
      OBVIOUS
    <3>3. i \in 1 .. Len(frames) - 1 \/ i = Len(frames)
      BY <1>a, <2>1, <3>2, Zenon
    <3>4. i = Len(frames)
      BY <2>1, <3>1, <3>3
    <3> QED
      BY <1>a, <1>c, <2>1, <3>4 DEF At, Top
  <2>2. /\ IInv'
        /\ ~left /\ status' = "undefined" =>
              \E i \in 1 .. Len(frames) : frames[i].at = "pushed"
        /\ ~left' => \A i \in 1 .. Len(frames) :
              i > Len(frames') /\ frames[i].finally =>
                  frames[i].es \in {"ES_FINISHED", "ES_RETRY"}
    BY <1>c, JumpKeeps
  <2> QED
    BY <1>a, <2>1, <2>2 DEF Goal
<1>d. ASSUME NEW place, At(place)
      PROVE  /\ frames # <<>> /\ status = "running" /\ Top.at = place
             /\ Top \in Frame
             /\ Top.es \in {"ES_CATCH", "ES_RETRY"} => Top.id \in Exceptions
             /\ Top.finally /\ Top.at \in {"endtry", "popped"} =>
                   Top.es \in {"ES_RETRY", "ES_FINISHED"}
             /\ Top.at = "cleanup" => Top.es \in {"ES_RETRY", "ES_FINISHED"}
             /\ Top.at \in {"pushed", "body"} => Top.es = "ES_BODY"
             /\ Top.at = "clause" => Top.es = "ES_CAUGHT"
             /\ Top.at \in {"catches", "finally"} => Top.es \notin {"ES_RETRY", "ES_FINISHED"}
  BY <1>d, TypeOfTop DEF At, IInv, TypeOK, FinallyDone
<1>1. ASSUME NEW c \in Contexts, NEW catches \in Clauses, NEW finally \in BOOLEAN,
             Try(c, catches, finally)
      PROVE  Goal
  BY <1>1, <1>b, TryKeeps
<1>2. CASE SetJmp
  <2> DEFINE f == [Top EXCEPT !.at = "body"]
  <2>1. f \in Frame /\ f.ctx = Top.ctx /\ f.link = Top.link /\ f.es = Top.es
        /\ f.at = "body" /\ Top.at = "pushed" /\ Top.es = "ES_BODY"
    BY <1>2, <1>d DEF SetJmp, Frame, Places
  <2>2. OnStack(f) /\ OnStack(Top)
    BY <2>1 DEF OnStack
  <2>3. SetTop(f) /\ UNCHANGED <<exceptionStack, status, left>> /\ frames # <<>>
        /\ status = "running"
    BY <1>2, <1>d DEF SetJmp
  <2> HIDE DEF f
  <2> QED
    BY <1>b, <2>1, <2>2, <2>3, MoveKeeps
<1>3. CASE EndBody
  <2> DEFINE f == [Top EXCEPT !.at = "catches"]
  <2>1. f \in Frame /\ f.ctx = Top.ctx /\ f.link = Top.link /\ f.es = Top.es
        /\ f.at = "catches" /\ Top.at = "body" /\ Top.es = "ES_BODY"
    BY <1>3, <1>d DEF EndBody, Frame, Places
  <2>2. OnStack(f) /\ OnStack(Top)
    BY <2>1 DEF OnStack
  <2>3. SetTop(f) /\ UNCHANGED <<exceptionStack, status, left>> /\ frames # <<>>
        /\ status = "running"
    BY <1>3, <1>d DEF EndBody
  <2> HIDE DEF f
  <2> QED
    BY <1>b, <2>1, <2>2, <2>3, MoveKeeps
<1>4. CASE Catches
  <2> DEFINE f == IF Top.es = "ES_CATCH" /\ Top.catches \cap {Top.id, ANY} # {}
                  THEN [Top EXCEPT !.es = "ES_CAUGHT", !.at = "clause"]
                  ELSE [Top EXCEPT !.at = AfterCatches(Top),
                                   !.es = IF @ = "ES_BODY" /\ Top.catches # {}
                                          THEN "ES_FINALLY" ELSE @]
  <2>0. /\ frames # <<>> /\ status = "running" /\ Top.at = "catches" /\ Top \in Frame
        /\ Top.es \in {"ES_CATCH", "ES_RETRY"} => Top.id \in Exceptions
        /\ Top.es \notin {"ES_RETRY", "ES_FINISHED"}
        /\ SetTop(f) /\ UNCHANGED <<exceptionStack, status, left>>
    BY <1>4, <1>d DEF Catches
  <2>1. /\ f \in Frame /\ f.ctx = Top.ctx /\ f.link = Top.link /\ f.id = Top.id
        /\ f.finally = Top.finally
        /\ \/ f.es = "ES_CAUGHT" /\ f.at = "clause"
           \/ f.es \in {Top.es, "ES_FINALLY"} /\ f.at = AfterCatches(Top)
    BY <2>0 DEF Frame, Places, States, AfterCatches
  <2>2. f.at = AfterCatches(Top) => f.at = "finally" \/ (f.at = "endtry" /\ ~f.finally)
    BY <2>1 DEF AfterCatches
  <2> HIDE DEF f
  <2>3. OnStack(f) /\ OnStack(Top)
    BY <2>0, <2>1, <2>2 DEF OnStack
  <2> QED
    BY <1>b, <2>0, <2>1, <2>2, <2>3, MoveKeeps
<1>5. CASE EndClause
  <2> DEFINE f == [Top EXCEPT !.at = AfterCatches(Top)]
  <2>0. /\ frames # <<>> /\ status = "running" /\ Top.at = "clause" /\ Top \in Frame
        /\ Top.es = "ES_CAUGHT"
        /\ SetTop(f) /\ UNCHANGED <<exceptionStack, status, left>>
    BY <1>5, <1>d DEF EndClause
  <2>1. /\ f \in Frame /\ f.ctx = Top.ctx /\ f.link = Top.link
        /\ f.finally = Top.finally /\ f.es = "ES_CAUGHT"
        /\ (f.at = "finally" \/ (f.at = "endtry" /\ ~f.finally))
    BY <2>0 DEF Frame, Places, AfterCatches
  <2> HIDE DEF f
  <2>2. OnStack(f) /\ OnStack(Top)
    BY <2>0, <2>1 DEF OnStack
  <2> QED
    BY <1>b, <2>0, <2>1, <2>2, MoveKeeps
<1>6. CASE Finally
  <2> DEFINE f == [Top EXCEPT !.at = "cleanup",
                              !.es = IF @ = "ES_CATCH" THEN "ES_RETRY" ELSE "ES_FINISHED"]
  <2>0. /\ frames # <<>> /\ status = "running" /\ Top.at = "finally" /\ Top \in Frame
        /\ Top.es \in {"ES_CATCH", "ES_RETRY"} => Top.id \in Exceptions
        /\ PopAndSet(f)
    BY <1>6, <1>d DEF Finally
  <2>1. /\ f \in Frame /\ f.ctx = Top.ctx /\ f.id = Top.id /\ f.at = "cleanup"
        /\ f.es \in {"ES_RETRY", "ES_FINISHED"} /\ (f.es = "ES_RETRY" => Top.es = "ES_CATCH")
    BY <2>0 DEF Frame, Places, States
  <2> HIDE DEF f
  <2>2. ~OnStack(f) /\ OnStack(Top)
    BY <2>0, <2>1 DEF OnStack
  <2> QED
    BY <1>b, <2>0, <2>1, <2>2, PopKeeps
<1>7. CASE EndCleanup
  <2> DEFINE f == [Top EXCEPT !.at = "endtry"]
  <2>0. /\ frames # <<>> /\ status = "running" /\ Top.at = "cleanup" /\ Top \in Frame
        /\ Top.es \in {"ES_CATCH", "ES_RETRY"} => Top.id \in Exceptions
        /\ Top.es \in {"ES_RETRY", "ES_FINISHED"}
        /\ SetTop(f) /\ UNCHANGED <<exceptionStack, status, left>>
    BY <1>7, <1>d DEF EndCleanup
  <2>1. /\ f \in Frame /\ f.ctx = Top.ctx /\ f.link = Top.link /\ f.id = Top.id
        /\ f.es = Top.es /\ f.at = "endtry"
    BY <2>0 DEF Frame, Places
  <2> HIDE DEF f
  <2>2. ~OnStack(f) /\ ~OnStack(Top)
    BY <2>0, <2>1 DEF OnStack
  <2> QED
    BY <1>b, <2>0, <2>1, <2>2, MoveKeeps
<1>8. CASE EndTry
  <2> DEFINE f == [Top EXCEPT !.at = "popped"]
  <2>0. /\ frames # <<>> /\ status = "running" /\ Top.at = "endtry" /\ Top \in Frame
        /\ Top.es \in {"ES_CATCH", "ES_RETRY"} => Top.id \in Exceptions
        /\ Top.finally => Top.es \in {"ES_RETRY", "ES_FINISHED"}
    BY <1>8, <1>d DEF EndTry
  <2>1. /\ f \in Frame /\ f.ctx = Top.ctx /\ f.link = Top.link /\ f.id = Top.id
        /\ f.es = Top.es /\ f.at = "popped" /\ f.finally = Top.finally
    BY <2>0 DEF Frame, Places
  <2>2. \/ /\ Top.es \in {"ES_FINISHED", "ES_RETRY"}
           /\ SetTop(f) /\ UNCHANGED <<exceptionStack, status, left>>
        \/ Top.es \notin {"ES_FINISHED", "ES_RETRY"} /\ PopAndSet(f)
    BY <1>8 DEF EndTry
  <2> HIDE DEF f
  <2>3. ~OnStack(f)
    BY <2>1 DEF OnStack
  <2>4. CASE /\ Top.es \in {"ES_FINISHED", "ES_RETRY"}
             /\ SetTop(f) /\ UNCHANGED <<exceptionStack, status, left>>
    <3>1. ~OnStack(Top)
      BY <2>0, <2>4 DEF OnStack
    <3> QED
      BY <1>b, <2>0, <2>1, <2>3, <2>4, <3>1, MoveKeeps
  <2>5. CASE Top.es \notin {"ES_FINISHED", "ES_RETRY"} /\ PopAndSet(f)
    <3>1. OnStack(Top)
      BY <2>0, <2>5 DEF OnStack
    <3> QED
      BY <1>b, <2>0, <2>1, <2>3, <2>5, <3>1, PopKeeps
  <2> QED
    BY <2>2, <2>4, <2>5
<1>9. CASE LeaveTry
  <2>1. CASE Top.es \in {"ES_CATCH", "ES_RETRY"} /\ JumpWith(Top.id)
    <3>1. Top.id \in Exceptions /\ status = "running"
      BY <1>9, <1>d, <2>1 DEF LeaveTry
    <3> QED
      BY <1>c, <2>1, <3>1
  <2>2. CASE /\ Top.es \notin {"ES_CATCH", "ES_RETRY"}
             /\ frames' = SubSeq(frames, 1, Len(frames) - 1)
             /\ UNCHANGED <<exceptionStack, status, left>>
    BY <1>9, <1>b, <2>2, LeaveTryKeeps DEF LeaveTry
  <2> QED
    BY <1>9, <2>1, <2>2 DEF LeaveTry
<1>10. ASSUME NEW e \in Exceptions, Throw(e) PROVE Goal
  BY <1>10, <1>c DEF Throw, InUserCode
<1>11. ASSUME NEW e \in Interrupts, Interrupt(e) PROVE Goal
  BY <1>11, <1>c, ExceptionsAssumption DEF Interrupt
<1>12. ASSUME NEW n \in 0 .. Len(frames) - 1, JumpOut(n) PROVE Goal
  BY <1>12, JumpOutKeeps DEF Goal
<1> QED
  BY <1>1, <1>2, <1>3, <1>4, <1>5, <1>6, <1>7, <1>8, <1>9, <1>10, <1>11, <1>12 DEF Next

LEMMA Inductive == Spec => []IInv
<1>1. IInv /\ [Next]_vars => IInv'
  <2>1. IInv /\ UNCHANGED vars => IInv'
    BY DEF vars, IInv, TypeOK, Distinct, Nested, FinallyDone, StackMatchesFrames
  <2> QED
    BY <2>1, NextKeeps
<1> QED
  BY <1>1, InitHolds, PTL DEF Spec

-----------------------------------------------------------------------------
\* Data and states are of their sort for any exceptions, clauses and depth,
\* whatever the program throws, wherever a signal arrives and however a try is
\* left.
THEOREM TypeCorrect == Spec => []TypeOK
<1>1. IInv => TypeOK
  BY DEF IInv
<1> QED
  BY <1>1, Inductive, PTL

\* exceptionStack is the list of the handlers in force, innermost first, while
\* no try is left but by its endtry: exception.h's macros push and pop in step
\* with the control stack.
THEOREM StackAlwaysMatches == Spec => []StackMatchesFrames
<1>1. IInv => StackMatchesFrames
  BY DEF IInv
<1> QED
  BY <1>1, Inductive, PTL

\* throwException, unwindException and popExceptionStack never follow a context
\* that is gone, but for the two ways JumpsFindTheirTry names.
THEOREM JumpsAlwaysFindTheirTry == Spec => JumpsFindTheirTry
<1>1. IInv /\ [Next]_vars =>
        [status = "running" /\ status' = "undefined" => left \/ At("pushed")]_vars
  <2> SUFFICES ASSUME IInv, Next
               PROVE  status = "running" /\ status' = "undefined" => left \/ At("pushed")
    OBVIOUS
  <2> QED
    BY NextKeeps
<1> QED
  BY <1>1, Inductive, PTL DEF Spec, JumpsFindTheirTry

\* A finally clause begins before an exception drops its try, the guarantee
\* exception.h gives at line 66.
THEOREM FinallyAlwaysBeginsFirst == Spec => FinallyAlwaysBegins
<1> DEFINE Begins ==
      ~left' /\ (\A n \in 0 .. Len(frames) - 1 : ~JumpOut(n)) =>
          \A i \in DOMAIN frames :
              i > Len(frames') /\ frames[i].finally =>
                  frames[i].es \in {"ES_FINISHED", "ES_RETRY"}
<1>1. IInv /\ [Next]_vars => [Begins]_vars
  <2> SUFFICES ASSUME IInv, Next PROVE Begins
    OBVIOUS
  <2> QED
    BY NextKeeps
<1> QED
  BY <1>1, Inductive, PTL DEF Spec, FinallyAlwaysBegins
=============================================================================
