-------------------------- MODULE MCEventProtocol ---------------------------
(***************************************************************************)
(* Small instances of EventProtocol: the masks the programs of the runs    *)
(* pass to getNextEvent and waitForEvent, and the symmetry of the windows, *)
(* which no action tells apart.                                            *)
(***************************************************************************)
EXTENDS EventProtocol, TLC

MouseOnly == {{"MOUSE"}}
MouseAndTimer == {{"MOUSE", "TIMER"}}
WithAndWithoutWindow == {{"MOUSE"}, {"MOUSE", "WINDOW"}}
MouseOrTimer == {{"MOUSE"}, {"TIMER"}}

AnyWindow == Permutations(Windows)
=============================================================================
