----------------------------- MODULE LoopIndex -----------------------------
(***************************************************************************)
(* The table that numbers the loops of the process (LoopAutoIndexImpl),    *)
(* the map from loops to values built on it (MapLoop) and its only user,   *)
(* the writer that collects frames per loop and hands each loop one        *)
(* command (MultiBatchWriter and SendBatch).                               *)
(*                                                                         *)
(* A LoopIndex may be copied and outlive its loop, so index[l] keeps the   *)
(* value that was issued to l.  A frame is its number among the frames     *)
(* sent to its loop.  The table is used under its mutex, hence atomically; *)
(* one thread at a time uses the writer.                                   *)
(***************************************************************************)
EXTENDS Naturals, Sequences, SequencesExt

CONSTANTS Loop,         \* the loops that are created, each at most once
          NoLoop,       \* nullptr
          BadWeakPtr,   \* what shared_from_this throws in a dying loop
          MaxFrames     \* bound: frames sent to all loops

ASSUME LoopIndexAssumption ==
    NoLoop \notin Loop /\ BadWeakPtr \notin Loop /\ NoLoop # BadWeakPtr
        /\ MaxFrames \in Nat

VARIABLES slots,      \* LoopAutoIndexImpl::data without its unused entry 0
          stage,      \* of a loop: "none", "alive", "dying", "gone"
          index,      \* LoopAutoIndex::index of a loop
          batches,    \* MapLoop::data of the writer: entry id is at id + 1
          reserved,   \* the capacity of that vector
          queued,     \* the batch commands waiting in a loop, oldest first
          executed,   \* history: the frames a loop has looked a peer up for
          pushed,     \* history: the number of frames sent to a loop
          copied      \* history: frames were pending when the map was moved

indexVars == <<slots, stage, index>>
batchVars == <<batches, reserved, queued, executed, pushed, copied>>
loopIndexVars == <<indexVars, batchVars>>

EmptyBatch == [loop |-> NoLoop, data |-> <<>>]

LoopIndexTypeOK ==
    /\ slots \in Seq([loop : Loop \cup {NoLoop}, version : Nat])
    /\ stage \in [Loop -> {"none", "alive", "dying", "gone"}]
    /\ index \in [Loop -> [id : Nat, version : Nat]]
    /\ batches \in Seq([loop : Loop \cup {NoLoop}, data : Seq(Nat)])
    /\ reserved \in Nat
    /\ queued \in [Loop -> Seq(Seq(Nat))]
    /\ executed \in [Loop -> Seq(Nat)]
    /\ pushed \in [Loop -> 0 .. MaxFrames]
    /\ copied \in [Loop -> BOOLEAN]

LoopIndexInit ==
    /\ slots = <<>>
    /\ stage = [l \in Loop |-> "none"]
    /\ index = [l \in Loop |-> [id |-> 0, version |-> 0]]
    /\ batches = <<>>
    /\ reserved = 0
    /\ queued = [l \in Loop |-> <<>>]
    /\ executed = [l \in Loop |-> <<>>]
    /\ pushed = [l \in Loop |-> 0]
    /\ copied = [l \in Loop |-> FALSE]

-----------------------------------------------------------------------------
(* LoopAutoIndexImpl.                                                      *)

\* NewId: every released slot gets a pointer to the new loop, but the index
\* that is returned is always the one of a new slot
NewId(l) ==
    /\ slots' = Append([i \in DOMAIN slots |->
                          IF slots[i].loop = NoLoop THEN [slots[i] EXCEPT !.loop = l]
                          ELSE slots[i]],
                       [loop |-> l, version |-> 0])
    /\ index' = [index EXCEPT ![l] = [id |-> Len(slots) + 1, version |-> 0]]

\* Mutant: the version of a released slot stays
ReleaseIdSameVersion(i) ==
    IF i.id \notin DOMAIN slots \/ slots[i.id].version # i.version
          \/ slots[i.id].loop = NoLoop
    THEN UNCHANGED slots
    ELSE slots' = [slots EXCEPT ![i.id].loop = NoLoop]

\* ReleaseId
ReleaseId(i) ==
    IF i.id \notin DOMAIN slots \/ slots[i.id].version # i.version
          \/ slots[i.id].loop = NoLoop
    THEN UNCHANGED slots
    ELSE slots' = [slots EXCEPT ![i.id] = [loop |-> NoLoop, version |-> @.version + 1]]

\* GetLoop, with the shared_from_this of the loop it finds
GetLoop(i) ==
    IF i.id \notin DOMAIN slots \/ slots[i.id].version # i.version
          \/ slots[i.id].loop = NoLoop
    THEN NoLoop
    ELSE IF stage[slots[i.id].loop] = "alive" THEN slots[i.id].loop ELSE BadWeakPtr

\* A loop is constructed: LoopAutoIndex(this)
LoopConstructed(l) ==
    /\ stage[l] = "none"
    /\ stage' = [stage EXCEPT ![l] = "alive"]
    /\ NewId(l)
    /\ UNCHANGED batchVars

\* Loop::Destroy, which executes the commands that wait, and the last reference
\* to the loop is dropped.  The writer's pointers to a loop are plain: its user
\* flushes before the loop goes.
LoopDies(l) ==
    /\ stage[l] = "alive"
    /\ \A i \in DOMAIN batches : batches[i].loop = l => batches[i].data = <<>>
    /\ stage' = [stage EXCEPT ![l] = "dying"]
    /\ executed' = [executed EXCEPT ![l] = @ \o FlattenSeq(queued[l])]
    /\ queued' = [queued EXCEPT ![l] = <<>>]
    /\ UNCHANGED <<slots, index, batches, reserved, pushed, copied>>

\* ~LoopAutoIndex of a dying loop
LoopGone(l) ==
    /\ stage[l] = "dying"
    /\ stage' = [stage EXCEPT ![l] = "gone"]
    /\ ReleaseId(index[l])
    /\ UNCHANGED <<index, batchVars>>

-----------------------------------------------------------------------------
(* MultiBatchWriter.                                                       *)

\* SendBatch::Flush of every batch of bs: the queues after it
Enqueued(q, bs) ==
    [l \in Loop |->
        LET own == SelectSeq(bs, LAMBDA b : b.loop = l /\ b.data # <<>>)
        IN  q[l] \o [i \in DOMAIN own |-> own[i].data]]

\* Mutant: the frames are copied to the command and stay in the batch
FlushedStays(b) == b

\* SendBatch::Flush of one batch: its frames are moved to the command.  A batch
\* with frames and no loop drops them.
Flushed(b) == [b EXCEPT !.data = <<>>]

\* MapLoop::Access.  resize moves a full vector to new memory: SendBatch has a
\* destructor and so no move constructor, the elements are copied and the old
\* ones destroyed, and ~SendBatch flushes them.
MapAccess(l) ==
    LET id    == index[l].id
        size  == Len(batches)
        grown == [i \in 1 .. id + 1 |-> IF i <= size THEN batches[i] ELSE EmptyBatch]
        moved == id + 1 > reserved
    IN  IF size > id
        THEN [batches |-> batches, reserved |-> reserved, queued |-> queued,
              copied |-> copied]
        ELSE [batches  |-> [grown EXCEPT ![id + 1].loop = l],
              reserved |-> IF moved THEN size + Max({size, id + 1 - size}) ELSE reserved,
              queued   |-> IF moved THEN Enqueued(queued, batches) ELSE queued,
              copied   |-> [k \in Loop |-> copied[k] \/
                               (moved /\ \E i \in DOMAIN batches :
                                   batches[i].loop = k /\ batches[i].data # <<>>)]]

\* SendBatch::Push of a frame for the loop l
PushFrame(b, l, frame) ==
    [loop |-> IF b.loop = NoLoop THEN l ELSE b.loop, data |-> Append(b.data, frame)]

\* MultiBatchWriter::Send
BatchSend(l) ==
    LET id  == index[l].id
        map == MapAccess(l)
    IN  /\ stage[l] = "alive"
        /\ FoldFunction(LAMBDA m, n : m + n, 0, pushed) < MaxFrames
        /\ pushed' = [pushed EXCEPT ![l] = @ + 1]
        /\ batches' = [map.batches EXCEPT ![id + 1] =
                          PushFrame(@, l, pushed[l] + 1)]
        /\ reserved' = map.reserved
        /\ queued' = map.queued
        /\ copied' = map.copied
        /\ UNCHANGED <<indexVars, executed>>

\* MultiBatchWriter::Flush
BatchFlush ==
    /\ batches # <<>>
    /\ queued' = Enqueued(queued, batches)
    /\ batches' = [i \in DOMAIN batches |-> Flushed(batches[i])]
    /\ UNCHANGED <<indexVars, reserved, executed, pushed, copied>>

\* ~MultiBatchWriter: Flush, then the map with ~SendBatch of every batch.  The
\* next writer starts with an empty map.
BatchDestroy ==
    LET left == [i \in DOMAIN batches |-> Flushed(batches[i])]
    IN  /\ batches # <<>>
        /\ queued' = Enqueued(Enqueued(queued, batches), left)
        /\ batches' = <<>>
        /\ reserved' = 0
        /\ UNCHANGED <<indexVars, executed, pushed, copied>>

\* CommandBatchSend::Execute
BatchExecute(l) ==
    /\ queued[l] # <<>>
    /\ executed' = [executed EXCEPT ![l] = @ \o Head(queued[l])]
    /\ queued' = [queued EXCEPT ![l] = Tail(@)]
    /\ UNCHANGED <<indexVars, batches, reserved, pushed, copied>>

LoopIndexNext ==
    \/ \E l \in Loop : LoopConstructed(l) \/ LoopDies(l) \/ LoopGone(l)
    \/ \E l \in Loop : BatchSend(l) \/ BatchExecute(l)
    \/ BatchFlush
    \/ BatchDestroy

LoopIndexSpec == LoopIndexInit /\ [][LoopIndexNext]_loopIndexVars

-----------------------------------------------------------------------------
(* Properties.                                                             *)

\* A LoopIndex resolves to the loop it was issued to for as long as that loop
\* has an owner and to no loop once it is gone: neither to a later loop whose
\* pointer NewId put into the released slot, nor to a dead one (LoopAutoIndex.cpp
\* NewId, ReleaseId, GetLoop).
IndexResolves ==
    /\ LoopIndexTypeOK
    /\ \A l \in Loop :
          /\ stage[l] = "alive" => GetLoop(index[l]) = l
          /\ stage[l] = "dying" => GetLoop(index[l]) = BadWeakPtr
          /\ stage[l] = "gone"  => GetLoop(index[l]) = NoLoop

\* What a loop has been given, what waits in its queue and what the writer still
\* holds for it
Pending(l) == FlattenSeq([i \in DOMAIN batches |->
                 IF batches[i].loop = l THEN batches[i].data ELSE <<>>])

Handed(l) == executed[l] \o FlattenSeq(queued[l]) \o Pending(l)

\* Every frame sent through a MultiBatchWriter reaches the loop of its peer, none
\* before an earlier frame to that loop, and once unless the map of the writer
\* was moved while the loop had frames pending; a batch belongs to the loop whose
\* index selects it, as the assertion of SendBatch::Push demands
\* (MultiBatchWriter.cpp Push, Flush; MapLoop.hpp Access).
BatchDelivers ==
    \A l \in Loop :
        /\ ToSet(Handed(l)) = 1 .. pushed[l]
        /\ \A i \in DOMAIN Handed(l) :
              Handed(l)[i] = 1 \/ \E j \in 1 .. i - 1 : Handed(l)[j] = Handed(l)[i] - 1
        /\ ~copied[l] => Len(Handed(l)) = pushed[l]
        /\ \A i \in DOMAIN batches : batches[i].loop = l => i = index[l].id + 1

=============================================================================
