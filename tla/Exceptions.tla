----------------------------- MODULE Exceptions -----------------------------
(***************************************************************************)
(* The try statement of exception.h and the stack of exception.c.          *)
(*                                                                         *)
(* A program is a stack of try statements that are being executed.  Each   *)
(* has its context in the C stack frame it is executed in; the exception   *)
(* stack is a list of contexts, linked from the innermost out.  What the   *)
(* program does next is open wherever its own code runs: in the body, in a *)
(* catch clause, in a finally clause and outside every try.  The macros'   *)
(* own steps are apart, since a signal handler may throw between them.     *)
(***************************************************************************)
EXTENDS Integers, Sequences

CONSTANTS
    Contexts,       \* addresses of context blocks
    Null,
    Exceptions,     \* what is thrown; ANY, which catches all, is not thrown
    ANY,
    Clauses,        \* the sets of catch clauses that the try statements have
    Interrupts,     \* the exceptions a signal handler may throw
    MaxDepth        \* bound: try statements within each other

ASSUME ContextsAssumption == Null \notin Contexts
ASSUME ExceptionsAssumption == ANY \notin Exceptions /\ Interrupts \subseteq Exceptions
ASSUME ClausesAssumption == Clauses \subseteq SUBSET (Exceptions \cup {ANY})
ASSUME DepthAssumption == MaxDepth \in Nat

VARIABLES
    frames,             \* the try statements being executed, the outermost first
    exceptionStack,     \* the context on top of the exception stack
    status,             \* "running", or how the program ended: "unhandled";
                        \* "undefined": it used a context that was not there
    left                \* history: a try was left without its endtry

vars == <<frames, exceptionStack, status, left>>

States == {"ES_BODY", "ES_CATCH", "ES_CAUGHT", "ES_RETRY", "ES_FINALLY", "ES_FINISHED"}

\* Where a try is: its context pushed and no setjmp yet; in the body; at the
\* catch tests; in a clause; at the finally macro; in the finally clause; at
\* endtry before and after its pop.
Places == {"pushed", "body", "catches", "clause", "finally", "cleanup", "endtry", "popped"}

Frame == [ctx : Contexts, link : Contexts \cup {Null}, id : Exceptions \cup {Null},
          catches : Clauses, finally : BOOLEAN,
          es : States, at : Places]

Top == frames[Len(frames)]
At(place) == status = "running" /\ frames # <<>> /\ Top.at = place
SetTop(frame) == frames' = [frames EXCEPT ![Len(frames)] = frame]

InUserCode ==
    /\ status = "running"
    /\ frames # <<>> => Top.at \in {"body", "clause", "cleanup"}

-----------------------------------------------------------------------------
Init ==
    /\ frames = <<>>
    /\ exceptionStack = Null
    /\ status = "running"
    /\ left = FALSE

Undefined == status' = "undefined" /\ UNCHANGED <<frames, exceptionStack, left>>

\* pushExceptionStack, in a context block that no running try has.
Try(c, catches, finally) ==
    /\ InUserCode
    /\ Len(frames) < MaxDepth
    /\ \A i \in DOMAIN frames : frames[i].ctx # c
    /\ frames' = Append(frames, [ctx |-> c, link |-> exceptionStack, id |-> Null,
                                 catches |-> catches, finally |-> finally,
                                 es |-> "ES_BODY", at |-> "pushed"])
    /\ exceptionStack' = c
    /\ UNCHANGED <<status, left>>

SetJmp ==
    /\ At("pushed")
    /\ SetTop([Top EXCEPT !.at = "body"])
    /\ UNCHANGED <<exceptionStack, status, left>>

EndBody ==
    /\ At("body")
    /\ SetTop([Top EXCEPT !.at = "catches"])
    /\ UNCHANGED <<exceptionStack, status, left>>

\* The place after the last catch clause.
AfterCatches(f) == IF f.finally THEN "finally" ELSE "endtry"

\* Mutant: a try whose clauses do not match goes to its end.
CatchesOrEnd ==
    /\ At("catches")
    /\ SetTop(IF Top.es = "ES_CATCH" /\ Top.catches \cap {Top.id, ANY} # {}
              THEN [Top EXCEPT !.es = "ES_CAUGHT", !.at = "clause"]
              ELSE [Top EXCEPT !.at = "endtry"])
    /\ UNCHANGED <<exceptionStack, status, left>>

\* The catch tests: the exception finds a clause, or all are passed over.
Catches ==
    /\ At("catches")
    /\ SetTop(IF Top.es = "ES_CATCH" /\ Top.catches \cap {Top.id, ANY} # {}
              THEN [Top EXCEPT !.es = "ES_CAUGHT", !.at = "clause"]
              ELSE [Top EXCEPT !.at = AfterCatches(Top),
                               !.es = IF @ = "ES_BODY" /\ Top.catches # {}
                                      THEN "ES_FINALLY" ELSE @])
    /\ UNCHANGED <<exceptionStack, status, left>>

\* If more clauses follow they set ES_FINALLY, which no later step tells from
\* ES_CAUGHT.
EndClause ==
    /\ At("clause")
    /\ SetTop([Top EXCEPT !.at = AfterCatches(Top)])
    /\ UNCHANGED <<exceptionStack, status, left>>

\* popExceptionStack, after which the try is as given.
PopAndSet(frame) ==
    \/ /\ exceptionStack = Null
       /\ SetTop(frame)
       /\ UNCHANGED <<exceptionStack, status, left>>
    \/ \E i \in DOMAIN frames :
          /\ frames[i].ctx = exceptionStack
          /\ exceptionStack' = frames[i].link
          /\ SetTop(frame)
          /\ UNCHANGED <<status, left>>
    \/ /\ exceptionStack # Null
       /\ \A i \in DOMAIN frames : frames[i].ctx # exceptionStack
       /\ Undefined

\* Mutant: the state is left as it is.
FinallyKeepsState ==
    /\ At("finally")
    /\ PopAndSet([Top EXCEPT !.at = "cleanup"])

Finally ==
    /\ At("finally")
    /\ PopAndSet([Top EXCEPT !.at = "cleanup",
                             !.es = IF @ = "ES_CATCH" THEN "ES_RETRY" ELSE "ES_FINISHED"])

EndCleanup ==
    /\ At("cleanup")
    /\ SetTop([Top EXCEPT !.at = "endtry"])
    /\ UNCHANGED <<exceptionStack, status, left>>

\* Mutant: endtry pops even if finally has popped already.
EndTryPopsAgain ==
    /\ At("endtry")
    /\ PopAndSet([Top EXCEPT !.at = "popped"])

\* Mutant: endtry leaves the popping to finally.
EndTryNeverPops ==
    /\ At("endtry")
    /\ SetTop([Top EXCEPT !.at = "popped"])
    /\ UNCHANGED <<exceptionStack, status, left>>

EndTry ==
    /\ At("endtry")
    /\ \/ /\ Top.es \in {"ES_FINISHED", "ES_RETRY"}
          /\ SetTop([Top EXCEPT !.at = "popped"])
          /\ UNCHANGED <<exceptionStack, status, left>>
       \/ /\ Top.es \notin {"ES_FINISHED", "ES_RETRY"}
          /\ PopAndSet([Top EXCEPT !.at = "popped"])

\* An exception goes to the context on top, and longjmp to the setjmp of its
\* try, which drops the try statements within that one.
JumpWith(e) ==
    \/ /\ exceptionStack = Null
       /\ status' = "unhandled"
       /\ UNCHANGED <<frames, exceptionStack, left>>
    \/ \E i \in DOMAIN frames :
          /\ frames[i].ctx = exceptionStack
          /\ frames[i].at # "pushed"
          /\ frames' = Append(SubSeq(frames, 1, i - 1),
                              [frames[i] EXCEPT !.id = e, !.es = "ES_CATCH", !.at = "catches"])
          /\ UNCHANGED <<exceptionStack, status, left>>
    \/ /\ exceptionStack # Null
       /\ \A i \in DOMAIN frames : frames[i].ctx = exceptionStack => frames[i].at = "pushed"
       /\ Undefined

Throw(e) ==
    /\ InUserCode
    /\ JumpWith(e)

Interrupt(e) ==
    /\ status = "running"
    /\ JumpWith(e)

\* endtry after its pop: unwindException where no clause took the exception.
LeaveTry ==
    /\ At("popped")
    /\ \/ /\ Top.es \in {"ES_CATCH", "ES_RETRY"}
          /\ JumpWith(Top.id)
       \/ /\ Top.es \notin {"ES_CATCH", "ES_RETRY"}
          /\ frames' = SubSeq(frames, 1, Len(frames) - 1)
          /\ UNCHANGED <<exceptionStack, status, left>>

\* A frame whose context finally or endtry has not popped yet.
OnStack(f) ==
    \/ f.at \in {"pushed", "body", "catches", "clause", "finally"}
    \/ f.at = "endtry" /\ f.es \notin {"ES_FINISHED", "ES_RETRY"}

\* return, break or goto out of all but the n outermost try statements: no
\* macro takes part.
JumpOut(n) ==
    /\ InUserCode
    /\ frames' = SubSeq(frames, 1, n)
    /\ left' = (left \/ \E i \in n + 1 .. Len(frames) : OnStack(frames[i]))
    /\ UNCHANGED <<exceptionStack, status>>

Next ==
    \/ \E c \in Contexts, catches \in Clauses, finally \in BOOLEAN :
          Try(c, catches, finally)
    \/ SetJmp \/ EndBody \/ Catches \/ EndClause
    \/ Finally \/ EndCleanup \/ EndTry \/ LeaveTry
    \/ \E e \in Exceptions : Throw(e)
    \/ \E e \in Interrupts : Interrupt(e)
    \/ \E n \in 0 .. Len(frames) - 1 : JumpOut(n)

Spec == Init /\ [][Next]_vars

-----------------------------------------------------------------------------
\* The variables hold data of their sort, and _es has a value its place allows:
\* in a finally clause it says whether there is an exception to pass on.
TypeOK ==
    /\ frames \in Seq(Frame)
    /\ exceptionStack \in Contexts \cup {Null}
    /\ status \in {"running", "unhandled", "undefined"}
    /\ left \in BOOLEAN
    /\ \A i \in DOMAIN frames :
          /\ frames[i].at \in {"pushed", "body"} => frames[i].es = "ES_BODY"
          /\ frames[i].at = "clause" => frames[i].es = "ES_CAUGHT"
          /\ frames[i].at \in {"catches", "finally"} =>
                frames[i].es \notin {"ES_RETRY", "ES_FINISHED"}
          /\ frames[i].at = "cleanup" => frames[i].es \in {"ES_RETRY", "ES_FINISHED"}
          /\ frames[i].es \in {"ES_CATCH", "ES_RETRY"} => frames[i].id \in Exceptions

\* c is the innermost context on the stack among those of the first n frames.
Innermost(fs, c, n) ==
    \/ /\ c = Null
       /\ \A i \in 1 .. n : ~OnStack(fs[i])
    \/ \E i \in 1 .. n :
          /\ c = fs[i].ctx
          /\ OnStack(fs[i])
          /\ \A j \in i + 1 .. n : ~OnStack(fs[j])

\* The list that begins at c is that of the contexts on the stack.
Linked(fs, c) ==
    /\ Innermost(fs, c, Len(fs))
    /\ \A i \in 1 .. Len(fs) : OnStack(fs[i]) => Innermost(fs, fs[i].link, i - 1)

\* While every try is left through its endtry, the exception stack is the list
\* of the try statements whose handlers are in force, from the inside out: not
\* of those in their finally clause, whatever is thrown where.
StackMatchesFrames == ~left => Linked(frames, exceptionStack)

\* throwException, unwindException and popExceptionStack find the context they
\* follow, and its setjmp done, unless a try was left without its endtry or a
\* signal came between pushExceptionStack and setjmp.
JumpsFindTheirTry ==
    [][status = "running" /\ status' = "undefined" => left \/ At("pushed")]_vars

\* "The try statement guarantees that the statements in the finally clause, if
\* present, will always be executed": no exception drops a try before its
\* finally clause has begun.
FinallyAlwaysBegins ==
    [][ ~left' /\ (\A n \in 0 .. Len(frames) - 1 : ~JumpOut(n)) =>
          \A i \in DOMAIN frames :
              i > Len(frames') /\ frames[i].finally =>
                  frames[i].es \in {"ES_FINISHED", "ES_RETRY"} ]_vars
=============================================================================
