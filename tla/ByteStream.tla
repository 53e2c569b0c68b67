----------------------------- MODULE ByteStream -----------------------------
(***************************************************************************)
(* What the send path of a peer promises: a first-in first-out stream of   *)
(* bytes, numbered as they are accepted.  Bytes are transmitted in order,  *)
(* each once, only while the connection is up; nothing is accepted once    *)
(* disconnecting or closed, and closing may cut the stream but not damage  *)
(* it.                                                                     *)
(***************************************************************************)
EXTENDS Integers, Sequences

VARIABLES
    up,             \* the connection was established
    disconnecting,
    closed,
    accepted,       \* how many bytes were accepted
    wire            \* the bytes transmitted

vars == <<up, disconnecting, closed, accepted, wire>>

Init ==
    /\ up \in BOOLEAN
    /\ disconnecting = FALSE
    /\ closed = FALSE
    /\ accepted = 0
    /\ wire = <<>>

Open ==
    /\ ~closed
    /\ up' = TRUE
    /\ UNCHANGED <<disconnecting, closed, accepted, wire>>

Accept ==
    /\ ~disconnecting /\ ~closed
    /\ accepted' > accepted
    /\ UNCHANGED <<up, disconnecting, closed, wire>>

Transmit ==
    /\ up /\ ~closed
    /\ \E n \in 1 .. accepted - Len(wire) :
          wire' = wire \o [i \in 1 .. n |-> Len(wire) + i]
    /\ UNCHANGED <<up, disconnecting, closed, accepted>>

Disconnect ==
    /\ disconnecting' = TRUE
    /\ UNCHANGED <<up, closed, accepted, wire>>

Close ==
    /\ disconnecting' \in {disconnecting, TRUE}
    /\ closed' = TRUE
    /\ UNCHANGED <<up, accepted, wire>>

Next == Open \/ Accept \/ Transmit \/ Disconnect \/ Close

Spec == Init /\ [][Next]_vars

=============================================================================
