-------------------------------- MODULE Blocks --------------------------------
(***************************************************************************)
(* Memory: getBlock (cslib.c) does not clear the block it returns.         *)
(***************************************************************************)
CONSTANTS
    Junk,       \* what a block holds before anything is written to it
    Values      \* the pointers that vectors, stacks and queues hold
===============================================================================
