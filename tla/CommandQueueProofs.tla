-------------------------- MODULE CommandQueueProofs --------------------------
(* The commands in the buffer of a CommandsBufferHandler never overlap, and    *)
(* the threads of a queue run its loop one at a time, for any blocks of       *)
(* memory, classes of commands, producers and workers.                        *)
EXTENDS CommandQueue, SequenceTheorems, TLAPS

\* What a slot of a buffer holds; what a command is named does not matter.
Slot == [id : {Id(p, n) : p \in Producer, n \in Nat}, kind : Kinds, offset : Nat]

Buffer == [address : Nat, totalBytes : Nat, commands : Seq(Slot), offsetOfFree : Nat]

\* A handler that has a block has one the pool gave, and without one no commands.
FromPool(b) ==
    IF IsValid(b) THEN [address |-> b.address, bytes |-> b.totalBytes] \in Blocks
    ELSE b.commands = <<>>

Sound(b) == b \in Buffer /\ Layout(b) /\ FromPool(b)

IInv ==
    /\ issued \in [Producer -> Nat]
    /\ handler \in [Producer -> Buffer]
    /\ \A p \in Producer : Sound(handler[p])

-----------------------------------------------------------------------------
\* Rounding up gives the next multiple of the alignment, less than one alignment
\* away.
LEMMA RoundingUp ==
    ASSUME NEW free \in Nat, NEW alignment \in Alignments
    PROVE  LET end    == free + alignment - 1
               offset == end - (end % alignment)
           IN  /\ offset \in Nat
               /\ offset % alignment = 0
               /\ free <= offset
               /\ free = 0 => offset = 0
  <1>1. CASE alignment = 8
    BY <1>1
  <1>2. CASE alignment = 16
    BY <1>2
  <1>3. CASE alignment = 32
    BY <1>3
  <1>4. CASE alignment = 64
    BY <1>4
  <1>5. CASE alignment = 128
    BY <1>5
  <1>6. CASE alignment = 256
    BY <1>6
  <1>7. CASE alignment = 512
    BY <1>7
  <1>8. CASE alignment = 1024
    BY <1>8
  <1>9. CASE alignment = 2048
    BY <1>9
  <1>10. CASE alignment = 4096
    BY <1>10
  <1> QED
    BY <1>1, <1>2, <1>3, <1>4, <1>5,
       <1>6, <1>7, <1>8, <1>9, <1>10 DEF Alignments

\* A multiple of the alignment, in a block that starts at a multiple of 16, is
\* aligned as far as the block is.
LEMMA AlignedInBlock ==
    ASSUME NEW address \in Nat, address % BlockAlignment = 0,
           NEW kind \in Kinds, kind.align \in Alignments,
           NEW offset \in Nat, offset % kind.align = 0
    PROVE  (address + offset) % Guaranteed(kind) = 0
  <1> USE DEF Guaranteed, BlockAlignment
  <1>1. CASE kind.align = 8
    BY <1>1
  <1>2. CASE kind.align = 16
    BY <1>2
  <1>3. CASE kind.align = 32
    BY <1>3
  <1>4. CASE kind.align = 64
    BY <1>4
  <1>5. CASE kind.align = 128
    BY <1>5
  <1>6. CASE kind.align = 256
    BY <1>6
  <1>7. CASE kind.align = 512
    BY <1>7
  <1>8. CASE kind.align = 1024
    BY <1>8
  <1>9. CASE kind.align = 2048
    BY <1>9
  <1>10. CASE kind.align = 4096
    BY <1>10
  <1> QED
    BY <1>1, <1>2, <1>3, <1>4, <1>5,
       <1>6, <1>7, <1>8, <1>9, <1>10 DEF Alignments

LEMMA NextOffset ==
    ASSUME NEW b \in Buffer, NEW alignment \in Alignments
    PROVE  LET offset == GetOffsetOfNextCommand(b, alignment)
           IN  /\ offset \in Nat
               /\ offset % alignment = 0
               /\ b.offsetOfFree <= offset
               /\ b.offsetOfFree = 0 => offset = 0
  <1>1. b.offsetOfFree \in Nat
    BY DEF Buffer
  <1> QED
    BY <1>1, RoundingUp DEF GetOffsetOfNextCommand

\* A buffer that has room is sound after the command is put into it.
LEMMA AllocateSound ==
    ASSUME NEW b, Sound(b), NEW kind \in Kinds, CanAllocate(b, kind),
           NEW p \in Producer, NEW n \in Nat
    PROVE  Sound(Allocate(b, kind, Id(p, n)))
  <1> DEFINE offset == GetOffsetOfNextCommand(b, kind.align)
             c      == [id |-> Id(p, n), kind |-> kind, offset |-> offset]
             len    == Len(b.commands)
             a      == Allocate(b, kind, Id(p, n))
  <1>1. /\ kind.size \in Nat /\ kind.size >= CommandMinSize
        /\ kind.align \in Alignments
    BY CommandsBufferAssumption
  <1>2. /\ b \in Buffer /\ b.commands \in Seq(Slot) /\ len \in Nat
        /\ b.totalBytes \in Nat /\ b.totalBytes # 0 /\ b.offsetOfFree \in Nat
        /\ b.address \in Nat /\ b.address % BlockAlignment = 0
    <2>1. [address |-> b.address, bytes |-> b.totalBytes] \in Blocks
      BY DEF Sound, FromPool, CanAllocate
    <2>2. b.address % BlockAlignment = 0
      BY <2>1, CommandsBufferAssumption
    <2> QED
      BY <2>2, LenProperties, Zenon DEF Sound, Buffer, CanAllocate, IsValid
  <1>3. /\ offset \in Nat
        /\ offset % kind.align = 0
        /\ b.offsetOfFree <= offset
        /\ (b.address + offset) % Guaranteed(kind) = 0
    BY <1>1, <1>2, NextOffset, AlignedInBlock
  <1>4. c \in Slot
    BY <1>3 DEF Slot
  <1>5. offset + kind.size <= b.totalBytes - MetadataSize * (len + 1)
    BY DEF CanAllocate, GetMetadataOffset
  <1> HIDE DEF offset, c
  <1>6. /\ a.totalBytes = b.totalBytes
        /\ a.address = b.address
        /\ a.commands = Append(b.commands, c)
        /\ a.offsetOfFree = offset + kind.size
        /\ a \in Buffer
    <2>1. a = [address      |-> b.address,
               totalBytes   |-> b.totalBytes,
               commands     |-> Append(b.commands, c),
               offsetOfFree |-> offset + kind.size]
      <3>1. a = [b EXCEPT !.commands = Append(b.commands, c),
                          !.offsetOfFree = offset + kind.size]
        BY Zenon DEF Allocate, offset, c
      <3> QED
        BY <1>2, <3>1, Zenon DEF Buffer
    <2>2. Append(b.commands, c) \in Seq(Slot) /\ offset + kind.size \in Nat
      BY <1>1, <1>2, <1>3, <1>4, AppendProperties
    <2> HIDE DEF a
    <2> QED
      BY <1>2, <2>1, <2>2 DEF Buffer
  <1>7. /\ Len(a.commands) = len + 1
        /\ \A i \in 1 .. len : a.commands[i] = b.commands[i]
        /\ a.commands[len + 1] = c
        /\ a.commands # <<>>
    BY <1>2, <1>4, <1>6, AppendProperties
  <1>8. /\ c.offset = offset /\ c.kind = kind /\ End(c) = offset + kind.size
    BY DEF c, End
  <1> HIDE DEF a, len
  <1>9. \A i \in 1 .. len :
           /\ (b.address + b.commands[i].offset) % Guaranteed(b.commands[i].kind) = 0
           /\ (IF i = 1 THEN 0 ELSE End(b.commands[i - 1])) <= b.commands[i].offset
    BY DEF Sound, Layout, len
  <1>10. b.offsetOfFree = IF len = 0 THEN 0 ELSE End(b.commands[len])
    BY <1>2, EmptySeq DEF Sound, Layout, len
  <1>11. \A i \in 1 .. Len(a.commands) :
            /\ (a.address + a.commands[i].offset) % Guaranteed(a.commands[i].kind) = 0
            /\ (IF i = 1 THEN 0 ELSE End(a.commands[i - 1])) <= a.commands[i].offset
    <2> SUFFICES ASSUME NEW i \in 1 .. len + 1
                 PROVE  /\ (a.address + a.commands[i].offset) % Guaranteed(a.commands[i].kind) = 0
                        /\ (IF i = 1 THEN 0 ELSE End(a.commands[i - 1]))
                              <= a.commands[i].offset
      BY <1>7
    <2>1. CASE i = len + 1
      BY <1>2, <1>3, <1>6, <1>7, <1>8, <1>10, <2>1
    <2>2. CASE i \in 1 .. len
      <3>1. a.commands[i] = b.commands[i]
            /\ (i # 1 => a.commands[i - 1] = b.commands[i - 1])
        BY <1>2, <1>7, <2>2
      <3> QED
        BY <1>6, <1>9, <2>2, <3>1, Zenon
    <2> QED
      BY <1>2, <2>1, <2>2
  <1>12. a.offsetOfFree = End(a.commands[Len(a.commands)])
    BY <1>6, <1>7, <1>8
  <1>13. a.offsetOfFree <= a.totalBytes - MetadataSize * Len(a.commands)
    BY <1>5, <1>6, <1>7
  <1>14. GetMetadataOffset(a, Len(a.commands)) >= 0
    BY <1>1, <1>2, <1>3, <1>5, <1>6, <1>7
       DEF GetMetadataOffset, MetadataSize, CommandMinSize
  <1>15. Layout(a)
    BY <1>7, <1>11, <1>12, <1>13, <1>14 DEF Layout
  <1>16. FromPool(a)
    BY <1>2, <1>6 DEF FromPool, IsValid, Sound
  <1> QED
    BY <1>6, <1>15, <1>16 DEF Sound, a

\* A new buffer is sound and has room for every command.
LEMMA NewBufferSound ==
    ASSUME NEW block \in Blocks, NEW kind \in Kinds
    PROVE  Sound(NewBuffer(block)) /\ CanAllocate(NewBuffer(block), kind)
  <1> DEFINE b == NewBuffer(block)
  <1>1. /\ block \in [address : Nat, bytes : Nat]
        /\ kind.size \in Nat /\ kind.align \in Alignments
        /\ kind.size >= CommandMinSize /\ kind.size + MetadataSize <= block.bytes
    BY CommandsBufferAssumption
  <1>2. b = [address |-> block.address, totalBytes |-> block.bytes,
             commands |-> <<>>, offsetOfFree |-> 0]
    BY DEF NewBuffer
  <1>3. b \in Buffer
    BY <1>1, <1>2, EmptySeq DEF Buffer
  <1>4. GetOffsetOfNextCommand(b, kind.align) = 0
    BY <1>1, <1>2, <1>3, NextOffset
  <1> HIDE DEF b
  <1>5. CanAllocate(b, kind)
    BY <1>1, <1>2, <1>4, EmptySeq
       DEF CanAllocate, IsValid, GetMetadataOffset, MetadataSize, CommandMinSize
  <1>6. Layout(b)
    BY <1>1, <1>2, EmptySeq DEF Layout, GetMetadataOffset, MetadataSize, CommandMinSize
  <1>7. FromPool(b)
    <2>1. block = [address |-> b.address, bytes |-> b.totalBytes]
      BY <1>1, <1>2
    <2> QED
      BY <1>2, <2>1 DEF FromPool
  <1> QED
    BY <1>3, <1>5, <1>6, <1>7 DEF Sound, b

\* A block without commands has room for every command.
LEMMA EmptyHasRoom ==
    ASSUME NEW b, Sound(b), IsValid(b), b.commands = <<>>, NEW kind \in Kinds
    PROVE  CanAllocate(b, kind)
  <1>1. /\ b \in Buffer /\ b.offsetOfFree = 0
        /\ [address |-> b.address, bytes |-> b.totalBytes] \in Blocks
    BY DEF Sound, FromPool, Layout
  <1>2. /\ kind.size \in Nat /\ kind.align \in Alignments
        /\ b.totalBytes \in Nat /\ kind.size + MetadataSize <= b.totalBytes
    BY <1>1, CommandsBufferAssumption DEF Buffer
  <1>3. GetOffsetOfNextCommand(b, kind.align) = 0
    BY <1>1, <1>2, NextOffset
  <1> QED
    BY <1>2, <1>3, EmptySeq DEF CanAllocate, GetMetadataOffset, MetadataSize

LEMMA NoBufferSound == Sound(NoBuffer)
  BY EmptySeq DEF Sound, FromPool, NoBuffer, Buffer, Layout, IsValid, MetadataSize

-----------------------------------------------------------------------------
\* For any blocks, classes of commands, producers and workers: the buffer of every
\* handler holds its commands in order and apart from each other and from the entries,
\* at addresses aligned up to the 16 bytes that MemoryPool guarantees, whatever is
\* enqueued, flushed and executed.
THEOREM BuffersAreSound == Spec => []LayoutSound
  <1>1. Init => IInv
    BY NoBufferSound DEF Init, IInv, Sound
  <1>2. IInv /\ [Next]_vars => IInv'
    <2> SUFFICES ASSUME IInv, [Next]_vars PROVE IInv'
      OBVIOUS
    <2>1. ASSUME NEW p \in Producer, NEW kind \in Kinds, NEW late \in BOOLEAN,
                 NEW block \in Blocks, HandlerEnqueue(p, kind, late, block)
          PROVE  IInv'
      <3> DEFINE room  == CanAllocate(handler[p], kind) /\ ~(late /\ HasCommands(p))
                 empty == IsValid(handler[p]) /\ ~HasCommands(p)
                 b     == IF room \/ empty THEN handler[p] ELSE NewBuffer(block)
                 id    == Id(p, issued[p] + 1)
      <3>1. Sound(b) /\ CanAllocate(b, kind)
        <4>1. Sound(handler[p])
          BY DEF IInv
        <4>2. CASE room
          BY <4>1, <4>2
        <4>3. CASE ~room /\ empty
          BY <4>1, <4>3, EmptyHasRoom DEF HasCommands
        <4>4. CASE ~room /\ ~empty
          BY <4>4, NewBufferSound
        <4> QED
          BY <4>2, <4>3, <4>4
      <3>2. issued[p] + 1 \in Nat
        BY DEF IInv
      <3> HIDE DEF b
      <3>3. Sound(Allocate(b, kind, id))
        BY <3>1, <3>2, AllocateSound
      <3>4. handler' = [handler EXCEPT ![p] = Allocate(b, kind, id)]
            /\ issued' = [issued EXCEPT ![p] = @ + 1]
        BY <2>1, Zenon DEF HandlerEnqueue, Issue, b
      <3>5. issued' \in [Producer -> Nat]
        BY <3>4 DEF IInv
      <3> HIDE DEF id
      <3> QED
        BY <3>3, <3>4, <3>5 DEF IInv, Sound
    <2>2. ASSUME NEW p \in Producer, ProducerFlush(p) PROVE IInv'
      BY <2>2, NoBufferSound DEF ProducerFlush, IInv, Sound
    <2>3. ASSUME NEW p \in Producer, ProducerEnqueue(p) \/ ProducerSchedule(p) PROVE IInv'
      BY <2>3 DEF ProducerEnqueue, ProducerSchedule, Issue, IInv
    <2>4. ASSUME NEW t, AwaitSuspendReturns(t) PROVE UNCHANGED producing
      BY <2>4 DEF AwaitSuspendReturns
    <2>5. ASSUME NEW w \in Worker, LoopStep(w) PROVE UNCHANGED producing
      BY <2>5, Zenon DEF LoopStep, LoopStart, LoopCheck, LoopStop, LoopWait, LoopRecheck,
         LoopStore, LoopTest, LoopLeave, TryDequeueBulk, ExecuteAgain, ExecuteReturns,
         ExecuteOne, AwaitSuspendReturns
    <2>6. ASSUME NEW w \in Worker, RunAsyncExecution(w) PROVE UNCHANGED producing
      BY <2>6 DEF RunAsyncExecution
    <2>7. ASSUME NEW next, QueueStopAsyncExecution(next) PROVE UNCHANGED producing
      BY <2>7 DEF QueueStopAsyncExecution
    <2>8. WaitStopAsyncExecution \/ Destroy => UNCHANGED producing
      BY DEF WaitStopAsyncExecution, Destroy
    <2>9. UNCHANGED producing => IInv'
      BY DEF producing, IInv
    <2>10. UNCHANGED vars => UNCHANGED producing
      BY DEF vars, producing
    <2> QED
      BY <2>1, <2>2, <2>3, <2>4, <2>5, <2>6, <2>7, <2>8, <2>9, <2>10
         DEF Next, ProducerNext, OwnerNext
  <1>3. IInv => LayoutSound
    BY DEF IInv, Sound, LayoutSound
  <1> QED
    BY <1>1, <1>2, <1>3, PTL DEF Spec
-----------------------------------------------------------------------------
(* The threads of the queue.                                                 *)

Places == InLoop \cup {"none", "start", "check", "stop", "wait", "recheck",
                       "store", "ended"}

ThreadTypes ==
    /\ asyncExecutionFlags \subseteq {IS_RUNNING, QUEUE_STOP}
    /\ worker \in [Worker -> Places]
    /\ {overlapped, fatal, orderly} \subseteq BOOLEAN

\* At most one thread is in its loop and at most one on its way there.
OneEach ==
    \A v, w \in Worker :
        (worker[v] \in InLoop /\ worker[w] \in InLoop) \/ (Starting(v) /\ Starting(w))
            => v = w

\* IS_RUNNING stands for the thread in its loop.  That thread has been told to stop
\* if it leaves, or if another is on its way.
FlagsTell ==
    /\ IS_RUNNING \in asyncExecutionFlags <=> \E v \in Worker : worker[v] \in InLoop
    /\ \A v \in Worker :
          worker[v] \in InLoop /\ (worker[v] = "leave" \/ \E w \in Worker : Starting(w))
              => QUEUE_STOP \in asyncExecutionFlags

\* A thread that has found the loop stopped goes in alone.
WayIsFree ==
    \A v, w \in Worker : worker[w] \in {"recheck", "store"} => worker[v] \notin InLoop

\* An owner that waits has started nobody, and the queue it destroyed has no thread.
OwnerAlone ==
    /\ owner \in {"waiting", "destroying", "destroyed"} =>
          \A w \in Worker : ~Starting(w)
    /\ owner = "destroyed" => \A w \in Worker : worker[w] \in {"none", "ended"}

Orderly == OneEach /\ FlagsTell /\ WayIsFree /\ OwnerAlone /\ ~overlapped /\ ~fatal
TInv == ThreadTypes /\ (orderly => Orderly)

\* A thread moves between two places of its loop, and the flags stay.
LEMMA StaysInLoop ==
    ASSUME TInv, orderly, NEW w \in Worker, NEW there \in InLoop,
           worker[w] \in InLoop, Goto(w, there),
           there = "leave" => QUEUE_STOP \in asyncExecutionFlags,
           UNCHANGED <<asyncExecutionFlags, overlapped, fatal, ownerVars>>
    PROVE  TInv'
  BY DEF TInv, ThreadTypes, Places, Orderly, OneEach, FlagsTell, WayIsFree, OwnerAlone,
     Starting, InLoop, Goto, ownerVars, IS_RUNNING, QUEUE_STOP

\* A thread on its way moves on, or gives up; it finds the way free when it gets to
\* its last two steps.
LEMMA StaysOutside ==
    ASSUME TInv, orderly, NEW w \in Worker,
           NEW there \in {"check", "stop", "wait", "recheck", "store", "ended"},
           Starting(w), Goto(w, there),
           there \in {"recheck", "store"} => IS_RUNNING \notin asyncExecutionFlags,
           UNCHANGED <<asyncExecutionFlags, overlapped, fatal, ownerVars>>
    PROVE  TInv'
  BY DEF TInv, ThreadTypes, Places, Orderly, OneEach, FlagsTell, WayIsFree, OwnerAlone,
     Starting, InLoop, Goto, ownerVars, IS_RUNNING, QUEUE_STOP

\* A step that moves no thread and changes no flag keeps the invariant.
LEMMA TurnsUntouched ==
    ASSUME TInv, UNCHANGED <<running, ownerVars>>
    PROVE  TInv'
  BY DEF running, ownerVars, TInv, ThreadTypes, Orderly, OneEach, FlagsTell, WayIsFree,
     OwnerAlone, Starting

\* Every step of a worker keeps the invariant.
LEMMA WorkerKeeps ==
    ASSUME TInv, orderly, NEW w \in Worker, LoopStep(w)
    PROVE  TInv'
  <1>1. CASE LoopStart(w)
    BY <1>1, StaysOutside DEF LoopStart, Alive, Starting, InLoop
  <1>2. CASE LoopCheck(w)
    BY <1>2, StaysOutside DEF LoopCheck, Alive, Starting, InLoop
  <1>3. CASE LoopStop(w)
    BY <1>3 DEF LoopStop, Alive, TInv, ThreadTypes, Places, Orderly, OneEach, FlagsTell,
       WayIsFree, OwnerAlone, Starting, InLoop, Goto, ownerVars, IS_RUNNING, QUEUE_STOP
  <1>4. CASE LoopWait(w)
    BY <1>4, StaysOutside DEF LoopWait, Alive, Starting, InLoop
  <1>5. CASE LoopRecheck(w)
    <2>1. IS_RUNNING \notin asyncExecutionFlags
      BY <1>5 DEF LoopRecheck, Alive, TInv, Orderly, FlagsTell, WayIsFree
    <2>2. UNCHANGED fatal
      BY <1>5, <2>1 DEF LoopRecheck, TInv, ThreadTypes
    <2> QED
      BY <1>5, <2>1, <2>2, StaysOutside DEF LoopRecheck, Alive, Starting, InLoop
  <1>6. CASE LoopStore(w)
    <2>1. \A v \in Worker : worker[v] \notin InLoop
      BY <1>6 DEF LoopStore, Alive, TInv, Orderly, WayIsFree
    <2>2. UNCHANGED overlapped
      BY <1>6, <2>1 DEF LoopStore, TInv, ThreadTypes
    <2>3. \A v \in Worker : Starting(v) => v = w
      BY <1>6 DEF LoopStore, Alive, TInv, Orderly, OneEach, Starting, InLoop
    <2> QED
      BY <1>6, <2>1, <2>2, <2>3 DEF LoopStore, Alive, TInv, ThreadTypes, Places, Orderly,
         OneEach, FlagsTell, WayIsFree, OwnerAlone, Starting, InLoop, Goto, ownerVars,
         IS_RUNNING, QUEUE_STOP
  <1>7. CASE LoopTest(w)
    <2>1. asyncExecutionFlags # {IS_RUNNING} => QUEUE_STOP \in asyncExecutionFlags
      BY <1>7 DEF LoopTest, Alive, TInv, ThreadTypes, Orderly, FlagsTell, InLoop
    <2> QED
      BY <1>7, <2>1, StaysInLoop DEF LoopTest, Alive, InLoop
  <1>8. CASE LoopLeave(w)
    BY <1>8 DEF LoopLeave, Alive, TInv, ThreadTypes, Places, Orderly, OneEach, FlagsTell,
       WayIsFree, OwnerAlone, Starting, InLoop, Goto, ownerVars, STOPPED, IS_RUNNING,
       QUEUE_STOP
  <1>9. CASE ExecuteReturns(w)
    BY <1>9, StaysInLoop DEF ExecuteReturns, BulkDone, Alive, InLoop
  <1>10. CASE ExecuteOne(w)
    <2>1. PICK there \in {"execute", "run"} : Goto(w, there)
      BY <1>10 DEF ExecuteOne
    <2> QED
      BY <1>10, <2>1, StaysInLoop DEF ExecuteOne, Alive, InLoop
  <1>11. CASE UNCHANGED <<running, ownerVars>>
    BY <1>11, TurnsUntouched
  <1>12. CASE \/ ExecuteAgain(w) \/ AwaitSuspendReturns(w)
              \/ \E t \in Thread : TryDequeueBulk(w, t)
    BY <1>11, <1>12, Zenon DEF ExecuteAgain, AwaitSuspendReturns, TryDequeueBulk
  <1> QED
    BY <1>1, <1>2, <1>3, <1>4, <1>5, <1>6, <1>7, <1>8, <1>9, <1>10, <1>12 DEF LoopStep

\* The calls of the owner keep it, as long as they are orderly.
LEMMA OwnerKeeps ==
    ASSUME TInv, orderly, orderly',
           \/ \E w \in Worker : RunAsyncExecution(w)
           \/ \E next \in {"idle", "waiting", "destroying"} : QueueStopAsyncExecution(next)
           \/ WaitStopAsyncExecution
           \/ Destroy
    PROVE  TInv'
  <1> USE DEF TInv, ThreadTypes, Places, Orderly, OneEach, FlagsTell, WayIsFree,
              OwnerAlone, Starting, InLoop, IS_RUNNING, QUEUE_STOP
  <1>1. ASSUME NEW w \in Worker, RunAsyncExecution(w) PROVE TInv'
    <2>1. OrderlyStart
      BY <1>1 DEF RunAsyncExecution
    <2> QED
      BY <1>1, <2>1 DEF RunAsyncExecution, OrderlyStart, Goto
  <1>2. ASSUME NEW next \in {"idle", "waiting", "destroying"},
               QueueStopAsyncExecution(next)
        PROVE  TInv'
    <2>1. OrderlyStop
      BY <1>2 DEF QueueStopAsyncExecution
    <2> QED
      BY <1>2, <2>1 DEF QueueStopAsyncExecution, OrderlyStop
  <1>3. CASE WaitStopAsyncExecution
    BY <1>3 DEF WaitStopAsyncExecution, running
  <1>4. CASE Destroy
    BY <1>4 DEF Destroy, running
  <1> QED
    BY <1>1, <1>2, <1>3, <1>4

\* Steps that are neither a worker's own nor the owner's change no thread.
LEMMA OthersUnchanged ==
    ASSUME [Next]_vars
    PROVE  \/ \E w \in Worker : LoopStep(w) \/ RunAsyncExecution(w)
           \/ \E next \in {"idle", "waiting", "destroying"} : QueueStopAsyncExecution(next)
           \/ WaitStopAsyncExecution
           \/ Destroy
           \/ UNCHANGED <<running, ownerVars>>
  <1>1. ASSUME NEW p \in Producer, ProducerNext(p)
        PROVE  UNCHANGED <<running, ownerVars>>
    BY <1>1, Zenon DEF ProducerNext, ProducerEnqueue, ProducerSchedule, AwaitSuspendReturns,
       HandlerEnqueue, ProducerFlush
  <1>2. UNCHANGED vars => UNCHANGED <<running, ownerVars>>
    BY DEF vars, running, ownerVars
  <1> QED
    BY <1>1, <1>2, Zenon DEF Next, OwnerNext

\* The types hold in every program, and one that is not orderly stays so.
LEMMA ThreadTypesKept ==
    ASSUME ThreadTypes, [Next]_vars
    PROVE  ThreadTypes' /\ (orderly' => orderly)
  <1> USE DEF ThreadTypes, Places, InLoop, Goto, IS_RUNNING, QUEUE_STOP, STOPPED
  <1>1. ASSUME NEW w \in Worker, LoopStep(w) PROVE ThreadTypes' /\ (orderly' => orderly)
    <2>1. ASSUME NEW there \in Places, Goto(w, there) PROVE worker' \in [Worker -> Places]
      BY <2>1
    <2>2. worker' \in [Worker -> Places]
      BY <1>1, <2>1, Zenon DEF LoopStep, LoopStart, LoopCheck, LoopStop, LoopWait, LoopRecheck,
         LoopStore, LoopTest, LoopLeave, TryDequeueBulk, ExecuteAgain, ExecuteReturns,
         ExecuteOne, AwaitSuspendReturns, running
    <2>3. asyncExecutionFlags' \subseteq {IS_RUNNING, QUEUE_STOP}
      BY <1>1, Zenon
         DEF LoopStep, LoopStart, LoopCheck, LoopStop, LoopWait, LoopRecheck,
         LoopStore, LoopTest, LoopLeave, TryDequeueBulk, ExecuteAgain, ExecuteReturns,
         ExecuteOne, AwaitSuspendReturns, running
    <2>4. overlapped' \in BOOLEAN /\ fatal' \in BOOLEAN /\ orderly' = orderly
      BY <1>1, Zenon
         DEF LoopStep, LoopStart, LoopCheck, LoopStop, LoopWait, LoopRecheck,
         LoopStore, LoopTest, LoopLeave, TryDequeueBulk, ExecuteAgain, ExecuteReturns,
         ExecuteOne, AwaitSuspendReturns, running, ownerVars
    <2> QED
      BY <2>2, <2>3, <2>4
  <1>2. ASSUME NEW w \in Worker, RunAsyncExecution(w)
        PROVE  ThreadTypes' /\ (orderly' => orderly)
    <2>1. orderly' \in BOOLEAN /\ (orderly' => orderly)
      BY <1>2, Zenon DEF RunAsyncExecution
    <2> QED
      BY <1>2, <2>1 DEF RunAsyncExecution
  <1>3. ASSUME NEW next, QueueStopAsyncExecution(next)
        PROVE  ThreadTypes' /\ (orderly' => orderly)
    <2>1. orderly' \in BOOLEAN /\ (orderly' => orderly)
      BY <1>3, Zenon DEF QueueStopAsyncExecution
    <2> QED
      BY <1>3, <2>1 DEF QueueStopAsyncExecution
  <1>4. CASE WaitStopAsyncExecution \/ Destroy
    BY <1>4 DEF WaitStopAsyncExecution, Destroy, running
  <1>5. CASE UNCHANGED <<running, ownerVars>>
    BY <1>5 DEF running, ownerVars
  <1> QED
    BY <1>1, <1>2, <1>3, <1>4, <1>5, OthersUnchanged, Zenon

\* For any number of threads and calls: when a start finds the threads that still run
\* told to stop, and a stop finds no thread on its way in, one loop runs at a time, no
\* LOG_FATAL is reached and the destructor leaves no thread in its loop.
THEOREM LoopsTakeTurns == Spec => []OneLoopAtATime
  <1>1. Init => TInv
    BY Zenon
       DEF Init, TInv, ThreadTypes, Places, Orderly, OneEach, FlagsTell, WayIsFree,
       OwnerAlone, Starting, InLoop, STOPPED
  <1>2. TInv /\ [Next]_vars => TInv'
    <2> SUFFICES ASSUME TInv, [Next]_vars PROVE TInv'
      OBVIOUS
    <2>1. ThreadTypes' /\ (orderly' => orderly)
      BY ThreadTypesKept DEF TInv
    <2>2. CASE ~orderly'
      BY <2>1, <2>2 DEF TInv
    <2>3. CASE orderly'
      <3>1. CASE UNCHANGED <<running, ownerVars>>
        BY <3>1, TurnsUntouched
      <3> QED
        BY <2>1, <2>3, <3>1, OthersUnchanged, WorkerKeeps, OwnerKeeps, Zenon
    <2> QED
      BY <2>2, <2>3
  <1>3. TInv => OneLoopAtATime
    BY DEF TInv, Orderly, OwnerAlone, OneLoopAtATime
  <1> QED
    BY <1>1, <1>2, <1>3, PTL DEF Spec
=============================================================================
