----------------------------- MODULE MCRpcCalls -----------------------------
(* Three calls over two return ids: a function run by the loop thread and    *)
(* two run by workers, with callbacks of both kinds.                         *)
EXTENDS RpcCalls

CONSTANTS c1, c2, c3

Calls    == {c1, c2, c3}
ByWorker == {c2, c3}
Later    == {c1, c2}
=============================================================================
