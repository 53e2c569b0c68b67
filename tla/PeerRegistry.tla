---------------------------- MODULE PeerRegistry ----------------------------
(***************************************************************************)
(* What the peer table of a loop promises to the rest of the library, with *)
(* no ids, versions, offsets or vectors: every peer is registered with its *)
(* host once and for one uninterrupted time, and the peers marked as       *)
(* having something to flush are registered ones.  PeerManager implements  *)
(* it.                                                                     *)
(***************************************************************************)
CONSTANTS PeerData, Host, HostOf

VARIABLES
    fresh,      \* the peers not registered yet
    members,    \* the peers every host can enumerate
    resolves,   \* the peers their current handle leads to
    pending     \* the peers the next FlushPendingPeers looks at

vars == <<fresh, members, resolves, pending>>

Register(d) ==
    /\ d \in fresh
    /\ fresh' = fresh \ {d}
    /\ members' = [members EXCEPT ![HostOf[d]] = @ \cup {d}]
    /\ resolves' = resolves \cup {d}
    /\ UNCHANGED pending

Unregister(d) ==
    /\ d \in resolves
    /\ members' = [members EXCEPT ![HostOf[d]] = @ \ {d}]
    /\ resolves' = resolves \ {d}
    /\ pending' = pending \ {d}
    /\ UNCHANGED fresh

MarkPending(d) ==
    /\ d \in resolves
    /\ pending' = pending \cup {d}
    /\ UNCHANGED <<fresh, members, resolves>>

MarkDrained(d) ==
    /\ d \in pending
    /\ pending' = pending \ {d}
    /\ UNCHANGED <<fresh, members, resolves>>

Init ==
    /\ fresh = PeerData
    /\ members = [h \in Host |-> {}]
    /\ resolves = {}
    /\ pending = {}

Next ==
    \E d \in PeerData :
        Register(d) \/ Unregister(d) \/ MarkPending(d) \/ MarkDrained(d)

Spec == Init /\ [][Next]_vars

=============================================================================
