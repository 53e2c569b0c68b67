------------------------------ MODULE PeerSend ------------------------------
(***************************************************************************)
(* The send path of one TCP peer: Peer::Send and Peer::Disconnect called   *)
(* by any thread, the command queue of the loop, the two frame queues and  *)
(* the write buffer of the PeerData, and every us_socket_write the loop    *)
(* thread makes (src/Peer.cpp, src/PeerUStcp.cpp, src/Loop.cpp).           *)
(*                                                                         *)
(* Bytes are numbered in the order in which PeerData::Send accepts them,   *)
(* so a frame is a range of numbers and the socket must be given 1, 2, ... *)
(*                                                                         *)
(* The loop thread runs _InternalOnWritable in steps with one socket write *)
(* each; the record call holds its place and its locals.  Other threads    *)
(* interleave with these steps; callbacks and commands of the loop thread  *)
(* do not.  us_socket_write is external: it takes any number b of the      *)
(* bytes offered, none included (the code treats an error like none).      *)
(***************************************************************************)
EXTENDS Integers, SequencesExt

CONSTANTS
    Producer,           \* threads that call Peer::Send and Peer::Disconnect
    Size,               \* frame sizes
    MaxCommands,        \* bound: commands a producer enqueues
    Capacity,           \* writeBuffer.capacity(), 4064
    DirectThreshold,    \* 1200: more bytes than this bypass writeBuffer
    MaxPackets          \* 384: maxPacketsToSend

ASSUME PeerSendAssumption ==
    /\ Size \subseteq Nat \ {0}
    /\ MaxCommands \in Nat
    /\ Capacity \in Nat \ {0}
    /\ DirectThreshold \in Nat
    /\ MaxPackets \in Nat \ {0}

VARIABLES
    ready,              \* BIT_READY of peerFlags
    disconnecting,      \* BIT_DISCONNECTING of peerFlags
    closed,             \* BIT_CLOSED: the socket is gone, the peer released
    commands,           \* what each producer has in the loop's command queue
    issued,             \* how many commands each producer enqueued so far
    globalQueue,
    localQueue,
    localQueueOffset,
    writeBuffer,
    writeBufferOffset,
    inFlush,            \* the peer is in Loop's peersToFlush
    accepted,           \* bytes accepted by PeerData::Send so far
    wire,               \* the bytes us_socket_write took, in order
    call                \* the loop thread inside _InternalOnWritable

flags   == <<ready, disconnecting, closed>>
users   == <<commands, issued>>
queues  == <<globalQueue, localQueue, localQueueOffset>>
buffers == <<writeBuffer, writeBufferOffset, wire>>
vars    == <<flags, users, queues, buffers, inFlush, accepted, call>>

\* pc: where the loop thread is; pending: whether FlushPendingPeers called;
\* round: I; packets: i; left: queuedFrames - sentFrames.
Idle == [pc |-> "idle", pending |-> FALSE, round |-> 0, packets |-> 0, left |-> 0]

Bytes(first, n) == [i \in 1 .. n |-> first + i - 1]

HasQueuedSends ==
    localQueueOffset # Len(localQueue) \/ Len(globalQueue) # 0

HasBufferedSends == writeBufferOffset < Len(writeBuffer)

-----------------------------------------------------------------------------
(* Other threads.                                                          *)

Enqueue(p, command) ==
    /\ issued[p] < MaxCommands
    /\ issued' = [issued EXCEPT ![p] = @ + 1]
    /\ commands' = [commands EXCEPT ![p] = Append(@, command)]

\* Peer::Send, which tests the flag, and the static Peer::Send of a handle,
\* which does not
UserSend(p, size, byHandle) ==
    /\ byHandle \/ ~disconnecting
    /\ Enqueue(p, [op |-> "send", size |-> size])
    /\ UNCHANGED <<flags, queues, buffers, inFlush, accepted, call>>

\* Peer::Disconnect, and the static one of a handle that sets no flag
UserDisconnect(p, byHandle) ==
    /\ Enqueue(p, [op |-> "disconnect", size |-> 0])
    /\ disconnecting' = (disconnecting \/ ~byHandle)
    /\ UNCHANGED <<ready, closed, queues, buffers, inFlush, accepted, call>>

-----------------------------------------------------------------------------
(* The loop thread outside _InternalOnWritable.                            *)

Dequeued(p) == commands' = [commands EXCEPT ![p] = Tail(@)]

\* on_open of a connection that was made: SetReadyToUse
OnOpen ==
    /\ call = Idle
    /\ ~ready /\ ~closed
    /\ ready' = TRUE
    /\ UNCHANGED <<disconnecting, closed, users, queues, buffers, inFlush,
                   accepted, call>>

\* Mutant of Scheduled: the send does not schedule the peer.
ScheduledByOthers == inFlush

\* PeerData::Send and _InternalInsertPeerToFlush put a peer that had nothing
\* pending into peersToFlush
Scheduled == inFlush \/ (~HasQueuedSends /\ ~HasBufferedSends)

\* ExecutePeerSendFrame and PeerData::Send; a released peer is not found
ExecuteSend(p) ==
    /\ call = Idle
    /\ commands[p] # <<>>
    /\ Head(commands[p]).op = "send"
    /\ Dequeued(p)
    /\ IF closed \/ disconnecting
       THEN UNCHANGED <<globalQueue, accepted, inFlush>>
       ELSE LET size == Head(commands[p]).size
            IN  /\ inFlush' = Scheduled
                /\ globalQueue' = Append(globalQueue,
                      [first |-> accepted + 1, size |-> size, bytesSent |-> 0])
                /\ accepted' = accepted + size
    /\ UNCHANGED <<flags, issued, localQueue, localQueueOffset, buffers, call>>

\* The peer leaves the table and peersToFlush, and what it had not sent is
\* dropped with it
Close(flag) ==
    /\ disconnecting' = flag
    /\ closed' = TRUE
    /\ inFlush' = FALSE
    /\ globalQueue' = <<>>
    /\ localQueue' = <<>>
    /\ localQueueOffset' = 0
    /\ writeBuffer' = <<>>
    /\ writeBufferOffset' = 0
    /\ UNCHANGED <<ready, wire, accepted, call>>

\* ExecuteDisconnect: _InternalDisconnect of a peer that still exists
ExecuteDisconnect(p) ==
    /\ call = Idle
    /\ commands[p] # <<>>
    /\ Head(commands[p]).op = "disconnect"
    /\ Dequeued(p)
    /\ UNCHANGED issued
    /\ IF closed
       THEN UNCHANGED <<flags, queues, buffers, inFlush, accepted, call>>
       ELSE Close(TRUE)

\* The other side or an error closes the connection
OnClose ==
    /\ call = Idle
    /\ ~closed
    /\ Close(TRUE)
    /\ UNCHANGED users

\* The connection could not be made; BIT_DISCONNECTING is not set then
OnConnectError ==
    /\ call = Idle
    /\ ~ready /\ ~closed
    /\ Close(disconnecting)
    /\ UNCHANGED users

-----------------------------------------------------------------------------
(* _InternalOnWritable and what it calls.                                  *)

\* DequeueToLocalQueue
DequeueToLocalQueue ==
    IF Len(localQueue) # localQueueOffset
    THEN UNCHANGED queues
    ELSE /\ localQueueOffset' = 0
         /\ localQueue' = globalQueue
         /\ globalQueue' = <<>>

\* Mutant of CanWrite: the IsReadyToUse test is missing.
CanWriteEarly == ~disconnecting /\ ~closed

CanWrite == ready /\ ~disconnecting /\ ~closed

\* The entry of _InternalOnWritable, of _InternalFlushQueuedSends when frames
\* are queued
OnWritable(pending) ==
    /\ CanWrite
    /\ IF HasQueuedSends
       THEN /\ call' = [Idle EXCEPT
                          !.pc = "frames", !.pending = pending,
                          !.left = Len(globalQueue) + Len(localQueue)
                                       - localQueueOffset]
            /\ DequeueToLocalQueue
       ELSE /\ call' = [Idle EXCEPT !.pc = "tail", !.pending = pending]
            /\ UNCHANGED queues
    /\ UNCHANGED <<flags, users, buffers, inFlush, accepted>>

\* FlushPendingPeers at this peer: flush it, or forget it when drained
FlushPending ==
    /\ call = Idle
    /\ inFlush
    /\ IF HasBufferedSends \/ HasQueuedSends
       THEN OnWritable(TRUE)
       ELSE /\ inFlush' = FALSE
            /\ UNCHANGED <<flags, users, queues, buffers, accepted, call>>

\* on_writable: the socket can take bytes again
OnWritableEvent ==
    /\ call = Idle
    /\ OnWritable(FALSE)

\* The loops of _InternalFlushQueuedSends around _InternalSend
NextFrame ==
    /\ call.pc = "frames"
    /\ IF call.packets < MaxPackets /\ localQueueOffset < Len(localQueue)
       THEN call' = [call EXCEPT !.pc = "send"] /\ UNCHANGED queues
       ELSE IF call.round = 0
       THEN call' = [call EXCEPT !.round = 1] /\ DequeueToLocalQueue
       ELSE call' = [call EXCEPT !.pc = "tail"] /\ UNCHANGED queues
    /\ UNCHANGED <<flags, users, buffers, inFlush, accepted>>

\* The result of _InternalFlushBufferedSends when b bytes were taken
Flushed(buffer, b) == b > 0 /\ writeBufferOffset + b = Len(buffer)

\* Mutant of FlushBuffered: the drained buffer is not reset.
FlushBufferedNoReset(buffer, b) ==
    /\ b <= Len(buffer) - writeBufferOffset
    /\ wire' = wire \o SubSeq(buffer, writeBufferOffset + 1,
                                      writeBufferOffset + b)
    /\ writeBuffer' = buffer
    /\ writeBufferOffset' = writeBufferOffset + b

\* us_socket_write(writeBuffer from its offset) took b bytes of buffer
\* (_InternalFlushBufferedSends)
FlushBuffered(buffer, b) ==
    LET done == Flushed(buffer, b)
    IN  /\ b <= Len(buffer) - writeBufferOffset
        /\ wire' = wire \o SubSeq(buffer, writeBufferOffset + 1,
                                          writeBufferOffset + b)
        /\ writeBuffer' = IF done THEN <<>> ELSE buffer
        /\ writeBufferOffset' = IF done THEN 0 ELSE writeBufferOffset + b

\* The frame at the head of localQueue and what _InternalSend knows of it
frame   == localQueue[localQueueOffset + 1]
unsent  == frame.size - frame.bytesSent
hasMore == call.left > 1
direct  == /\ Len(writeBuffer) = writeBufferOffset
           /\ unsent > DirectThreshold \/ ~hasMore

FrameBytes(n) == Bytes(frame.first + frame.bytesSent, n)

\* Mutant of SendReturns: bytesSent is only kept when the frame is done.
SendReturnsForgetPartial(n, ok) ==
    /\ localQueue' = IF ok
          THEN [localQueue EXCEPT ![localQueueOffset + 1].bytesSent = @ + n]
          ELSE localQueue
    /\ localQueueOffset' = IF ok THEN localQueueOffset + 1 ELSE localQueueOffset
    /\ call' = IF ok
               THEN [call EXCEPT !.pc = "frames", !.packets = @ + 1,
                                 !.left = @ - 1]
               ELSE [call EXCEPT !.pc = "tail"]

\* Mutant of SendReturns: sentFrames is not counted.
SendReturnsUncounted(n, ok) ==
    /\ localQueue' =
          [localQueue EXCEPT ![localQueueOffset + 1].bytesSent = @ + n]
    /\ localQueueOffset' = IF ok THEN localQueueOffset + 1 ELSE localQueueOffset
    /\ call' = IF ok
               THEN [call EXCEPT !.pc = "frames", !.packets = @ + 1]
               ELSE [call EXCEPT !.pc = "tail"]

\* bytesSent += n, and the caller's reaction to the result: the frame is done
\* and the next one follows, or the loops end
SendReturns(n, ok) ==
    /\ localQueue' =
          [localQueue EXCEPT ![localQueueOffset + 1].bytesSent = @ + n]
    /\ localQueueOffset' = IF ok THEN localQueueOffset + 1 ELSE localQueueOffset
    /\ call' = IF ok
               THEN [call EXCEPT !.pc = "frames", !.packets = @ + 1,
                                 !.left = @ - 1]
               ELSE [call EXCEPT !.pc = "tail"]

\* bytesSent += n and _InternalSend starts over
SendAgain(n) ==
    /\ localQueue' =
          [localQueue EXCEPT ![localQueueOffset + 1].bytesSent = @ + n]
    /\ UNCHANGED <<localQueueOffset, call>>

Sending ==
    /\ call.pc = "send"
    /\ UNCHANGED <<flags, users, globalQueue, inFlush, accepted>>

\* The write buffer is full: nothing else happens unless it can be emptied
SendFlushFull(b) ==
    /\ Sending
    /\ Len(writeBuffer) = Capacity
    /\ FlushBuffered(writeBuffer, b)
    /\ IF Flushed(writeBuffer, b) THEN SendAgain(0) ELSE SendReturns(0, FALSE)

\* All bytes of the frame were buffered by an earlier call
SendComplete ==
    /\ Sending
    /\ Len(writeBuffer) # Capacity
    /\ unsent = 0
    /\ SendReturns(0, TRUE)
    /\ UNCHANGED buffers

\* Nothing is buffered and the frame is large or the last: write it directly
SendDirect(b) ==
    /\ Sending
    /\ Len(writeBuffer) # Capacity
    /\ unsent > 0 /\ direct
    /\ b <= unsent
    /\ wire' = wire \o FrameBytes(b)
    /\ SendReturns(b, b = unsent)
    /\ UNCHANGED <<writeBuffer, writeBufferOffset>>

\* The rest of the frame fits: buffer it
SendBuffer ==
    /\ Sending
    /\ Len(writeBuffer) # Capacity
    /\ unsent > 0 /\ ~direct
    /\ hasMore /\ Len(writeBuffer) + unsent < Capacity
    /\ writeBuffer' = writeBuffer \o FrameBytes(unsent)
    /\ SendReturns(unsent, TRUE)
    /\ UNCHANGED <<writeBufferOffset, wire>>

\* It fits and is the last or fills the buffer: buffer it and flush
SendBufferFlush(b) ==
    LET buffer == writeBuffer \o FrameBytes(unsent)
    IN  /\ Sending
        /\ Len(writeBuffer) # Capacity
        /\ unsent > 0 /\ ~direct
        /\ Len(buffer) <= Capacity
        /\ ~hasMore \/ Len(buffer) = Capacity
        /\ FlushBuffered(buffer, b)
        /\ SendReturns(unsent, Flushed(buffer, b))

\* It does not fit: fill the buffer, flush, and go on when that succeeded
SendFill(b) ==
    LET n      == Capacity - Len(writeBuffer)
        buffer == writeBuffer \o FrameBytes(n)
    IN  /\ Sending
        /\ Len(writeBuffer) # Capacity
        /\ unsent > 0 /\ ~direct
        /\ Len(writeBuffer) + unsent > Capacity
        /\ FlushBuffered(buffer, b)
        /\ IF Flushed(buffer, b) THEN SendAgain(n) ELSE SendReturns(n, FALSE)

\* The end of _InternalOnWritable, and FlushPendingPeers forgetting the peer
\* when nothing is left
FlushTail(b) ==
    /\ call.pc = "tail"
    /\ IF HasBufferedSends
       THEN FlushBuffered(writeBuffer, b)
       ELSE b = 0 /\ UNCHANGED buffers
    /\ inFlush' = (inFlush /\ ~(/\ call.pending
                                /\ ~HasQueuedSends
                                /\ writeBufferOffset' = Len(writeBuffer')))
    /\ call' = Idle
    /\ UNCHANGED <<flags, users, queues, accepted>>

\* One step inside _InternalOnWritable in which the socket takes b bytes
InCall(b) ==
    \/ b = 0 /\ (NextFrame \/ SendComplete \/ SendBuffer)
    \/ SendFlushFull(b)
    \/ SendDirect(b)
    \/ SendBufferFlush(b)
    \/ SendFill(b)
    \/ FlushTail(b)

-----------------------------------------------------------------------------
Init ==
    /\ ready \in BOOLEAN
    /\ disconnecting = FALSE
    /\ closed = FALSE
    /\ commands = [p \in Producer |-> <<>>]
    /\ issued = [p \in Producer |-> 0]
    /\ globalQueue = <<>>
    /\ localQueue = <<>>
    /\ localQueueOffset = 0
    /\ writeBuffer = <<>>
    /\ writeBufferOffset = 0
    /\ inFlush = FALSE
    /\ accepted = 0
    /\ wire = <<>>
    /\ call = Idle

\* The most bytes a single us_socket_write is offered
MaxWrite == Max(Size \cup {Capacity})

Next ==
    \/ \E p \in Producer, size \in Size, byHandle \in BOOLEAN :
          UserSend(p, size, byHandle)
    \/ \E p \in Producer, byHandle \in BOOLEAN : UserDisconnect(p, byHandle)
    \/ \E p \in Producer : ExecuteSend(p) \/ ExecuteDisconnect(p)
    \/ OnOpen
    \/ OnClose
    \/ OnConnectError
    \/ FlushPending
    \/ OnWritableEvent
    \/ \E b \in 0 .. MaxWrite : InCall(b)

Spec == Init /\ [][Next]_vars

\* The loop thread keeps running and FlushPendingPeers is part of each of its
\* iterations; a connection attempt succeeds or is closed; the kernel, offered
\* bytes again and again, sometimes takes some.
Fairness ==
    /\ WF_vars(\E b \in 0 .. MaxWrite : InCall(b))
    /\ WF_vars(FlushPending)
    /\ WF_vars(OnOpen)
    /\ SF_vars(\E b \in 1 .. MaxWrite : InCall(b))

FairSpec == Spec /\ Fairness

-----------------------------------------------------------------------------
(* Properties.                                                             *)

Frame == [first : Nat \ {0}, size : Nat \ {0}, bytesSent : Nat]

TypeOK ==
    /\ ready \in BOOLEAN /\ disconnecting \in BOOLEAN /\ closed \in BOOLEAN
    /\ commands \in
          [Producer -> Seq([op : {"send", "disconnect"}, size : Nat])]
    /\ issued \in [Producer -> 0 .. MaxCommands]
    /\ globalQueue \in Seq(Frame)
    /\ localQueue \in Seq(Frame)
    /\ localQueueOffset \in 0 .. Len(localQueue)
    /\ writeBuffer \in Seq(Nat \ {0})
    /\ Len(writeBuffer) <= Capacity
    /\ writeBufferOffset \in Nat
    /\ inFlush \in BOOLEAN
    /\ accepted \in Nat
    /\ wire \in Seq(Nat \ {0})
    /\ call \in [pc : {"idle", "frames", "send", "tail"}, pending : BOOLEAN,
                 round : 0 .. 1, packets : 0 .. MaxPackets, left : Nat]

\* The bytes of a frame queue that were not handed on yet.
Unsent(queue) ==
    FlattenSeq([i \in DOMAIN queue |->
        Bytes(queue[i].first + queue[i].bytesSent,
              queue[i].size - queue[i].bytesSent)])

\* Every accepted byte is in exactly one place and they are all in order:
\* what the socket took, then the write buffer past its offset, then the rest
\* of the local queue, then the global queue.  Short writes, a full buffer,
\* frames split over several calls and both queue swaps lose, repeat and
\* reorder nothing.
StreamIntact ==
    /\ TypeOK
    /\ LET buffered == SubSeq(writeBuffer, writeBufferOffset + 1, Len(writeBuffer))
           local    == SubSeq(localQueue, localQueueOffset + 1, Len(localQueue))
           stream   == wire \o buffered \o Unsent(local) \o Unsent(globalQueue)
       IN  IF closed THEN IsPrefix(wire, Bytes(1, accepted))
                     ELSE stream = Bytes(1, accepted)

\* A live peer with anything left to send is in peersToFlush, whatever the
\* order of sends, short writes and on_writable events: FlushPendingPeers is
\* what retries.
PendingIsScheduled ==
    (HasQueuedSends \/ HasBufferedSends) => inFlush

\* hasMore, computed from counts taken before the loops, is true exactly when
\* another frame follows: the last frame is never written as if more came.
HasMoreExact ==
    call.pc = "send" =>
        call.left = Len(globalQueue) + Len(localQueue) - localQueueOffset

\* Once the producers pause everything accepted is transmitted, unless the peer
\* disconnects or the connection cannot be made: no frame waits in a queue or in
\* the write buffer for ever (FlushPendingPeers retries).
AcceptedIsSent ==
    accepted > Len(wire) ~> (Len(wire) = accepted \/ disconnecting \/ closed)

Stream == INSTANCE ByteStream WITH up <- ready

\* The queues and the write buffer implement the abstract byte stream; in
\* particular nothing is transmitted before on_open or after on_close, and
\* nothing is accepted once disconnecting.
ImplementsByteStream == Stream!Spec

=============================================================================
