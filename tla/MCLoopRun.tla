----------------------------- MODULE MCLoopRun -----------------------------
(* Instance of LoopRun for TLC: two calls of RunAsync.                       *)
EXTENDS LoopRun, TLC

CONSTANTS r1, r2, listen, connect, c1
=============================================================================
