-------------------------- MODULE MCHostLifecycle --------------------------
(* A client host with two connections and a server host with one.          *)
EXTENDS HostLifecycle

CONSTANTS c1, c2, s1, client, server, main, other

MCPeerData == {c1, c2, s1}
MCHost == {client, server}
MCHostOf == [p \in MCPeerData |-> IF p = s1 THEN server ELSE client]
MCThreads == {main, other}

LivePeerData == {c1, s1}
LiveHostOf == [p \in LivePeerData |-> IF p = s1 THEN server ELSE client]

\* The connections of the client are interchangeable.
MCSymmetry == Permutations({c1, c2})

=============================================================================
