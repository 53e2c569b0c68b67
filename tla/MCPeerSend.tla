----------------------------- MODULE MCPeerSend -----------------------------
(* An instance of PeerSend.  The buffer is smaller than the largest frame   *)
(* and the direct-write threshold smaller than the buffer, as in the code.  *)
EXTENDS PeerSend

CONSTANTS p1, p2

MCProducers == {p1, p2}
SmallSizes == {1, 2, 5}

=============================================================================
