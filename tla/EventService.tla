---------------------------- MODULE EventService ----------------------------
(***************************************************************************)
(* What gevents.h promises a program about events, with no pipe, thread or *)
(* acknowledgement: events queue up in the order they happen; an operation *)
(* takes the oldest one its mask covers, once, and leaves the others;      *)
(* waitForEvent returns with such an event and with nothing else;          *)
(* getNextEvent returns NULL only if at some moment of the call no such    *)
(* event was there to return.  Reinitialising the library, which creating  *)
(* a graphical object does, may drop the oldest events.  The service may   *)
(* end; it promises nothing then.                                          *)
(***************************************************************************)
EXTENDS Naturals, Sequences

CONSTANTS Kinds,    \* the kinds of event
          Classes,  \* the classes of event a mask is made of
          classes,  \* the classes of each kind
          None      \* what getNextEvent returns when there is no event

VARIABLES pending,  \* events that happened and were not returned
          asking,   \* the event operation in progress
          mask,     \* what the last event operation was asked for
          sawEmpty, \* during it, no event its mask covers was pending
          result    \* what the last event operation returned

vars == <<pending, asking, mask, sawEmpty, result>>

ServiceTypeOK ==
    /\ pending \in Seq(Kinds)
    /\ asking \in {"no", "getNextEvent", "waitForEvent", "ended"}
    /\ mask \subseteq Classes
    /\ sawEmpty \in BOOLEAN
    /\ result \in Kinds \cup {None}

Init == /\ pending = <<>>
        /\ asking = "no"
        /\ mask = {}
        /\ sawEmpty = FALSE
        /\ result = None

\* The i-th event is of a class in the mask m; it is the oldest such event.
Covers(m, i) == classes[pending[i]] \cap m # {}
Oldest(m, i) == /\ Covers(m, i)
                /\ \A j \in 1..(i - 1) : ~Covers(m, j)

Occur(kind) == /\ asking # "ended"
               /\ pending' = Append(pending, kind)
               /\ UNCHANGED <<asking, mask, sawEmpty, result>>

Ask(fn, m) == /\ asking = "no"
              /\ asking' = fn
              /\ mask' = m
              /\ UNCHANGED <<pending, sawEmpty, result>>

\* The oldest event the mask covers is returned, by an operation that waited, whose
\* mask it is, or at once.
Deliver(m) == /\ asking # "ended"
              /\ asking = "no" \/ mask = m
              /\ \E i \in DOMAIN pending :
                     /\ Oldest(m, i)
                     /\ result' = pending[i]
                     /\ pending' = SubSeq(pending, 1, i - 1)
                                       \o SubSeq(pending, i + 1, Len(pending))
              /\ mask' = m
              /\ asking' = "no"
              /\ sawEmpty' = FALSE

FindNone == /\ asking = "getNextEvent"
            /\ \A i \in DOMAIN pending : ~Covers(mask, i)
            /\ sawEmpty' = TRUE
            /\ UNCHANGED <<pending, asking, mask, result>>

ReturnNone == /\ sawEmpty
              /\ result' = None
              /\ asking' = "no"
              /\ sawEmpty' = FALSE
              /\ UNCHANGED <<pending, mask>>

Forget == /\ asking = "no"
          /\ \E n \in 1..Len(pending) : pending' = SubSeq(pending, n + 1, Len(pending))
          /\ UNCHANGED <<asking, mask, sawEmpty, result>>

End == /\ asking' = "ended"
       /\ pending' = <<>>
       /\ mask' = {}
       /\ sawEmpty' = FALSE
       /\ result' = None

Next == \/ \E kind \in Kinds : Occur(kind)
        \/ \E fn \in {"getNextEvent", "waitForEvent"}, m \in SUBSET Classes : Ask(fn, m)
        \/ \E m \in SUBSET Classes : Deliver(m)
        \/ FindNone
        \/ ReturnNone
        \/ Forget
        \/ End

Spec == Init /\ [][Next]_vars
=============================================================================
