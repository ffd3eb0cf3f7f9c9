---------------------------- MODULE MCExceptions ----------------------------
(***************************************************************************)
(* Small sets for Exceptions: two exceptions and as many context blocks as *)
(* try statements within each other.                                       *)
(***************************************************************************)
EXTENDS Exceptions, TLC

CONSTANTS error, control    \* ErrorException and one of the program's

BothExceptions == {error, control}
ThreeKinds == {{}, {error}, {ANY}}
OneInterrupt == {control}

AnyContext == Permutations(Contexts)
=============================================================================
