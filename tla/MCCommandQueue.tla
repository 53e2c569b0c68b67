--------------------------- MODULE MCCommandQueue ---------------------------
(* Instance of CommandQueue for TLC.  A block of 64 bytes holds two of the     *)
(* smaller commands; the larger one fills it up exactly together with a        *)
(* smaller one behind it, and does not fit behind one, aligned to 16 bytes.    *)
(* The address of the block is a multiple of 16 and of no higher power of two. *)
EXTENDS CommandQueue, TLC

CONSTANTS p1, w1, w2

MCBlocks == {[address |-> 48, bytes |-> 64]}
CommandKinds == {[size |-> 24, align |-> 8], [size |-> 32, align |-> 16]}
=============================================================================
