--------------------------- MODULE MCPeerManager ---------------------------
(* Two hosts; enough objects to reuse a slot past a wrap of its version.   *)
EXTENDS PeerManager

CONSTANTS pa, pb, pc, pd, pe, server, client

MCPeerData == {pa, pb, pc, pd, pe}
MCHost == {server, client}
MCHostOf == [p \in MCPeerData |-> IF p \in {pb, pe} THEN client ELSE server]

\* Objects of one host are interchangeable.
MCSymmetry == Permutations({pa, pc, pd}) \cup Permutations({pb, pe})

=============================================================================
