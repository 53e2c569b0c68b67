---------------------------- MODULE CommandQueue ----------------------------
(***************************************************************************)
(* A CommandExecutionQueue with threads of its own: commands are enqueued  *)
(* one by one or gathered in buffers by a CommandsBufferHandler, coroutines *)
(* schedule themselves, worker threads run ExecuteLoop, and the owner of   *)
(* the queue starts and stops them and destroys the queue.                 *)
(* (src/CommandExecutionQueue.cpp, src/CommandsBufferHandler.cpp,          *)
(* CommandsBufferHandler.hpp, Command.hpp)                                 *)
(*                                                                         *)
(* The concurrent queue is ordered for each enqueuing thread only: it has  *)
(* a sub-queue for each, and a bulk dequeue takes from one after another.  *)
(* Every access to asyncExecutionFlags is a step of its own.  The owner    *)
(* may make its calls at any time; it destroys the queue when the          *)
(* producers have finished with it, and what a thread does with a queue    *)
(* that is destroyed is not modelled.                                      *)
(*                                                                         *)
(* await_suspend writes into the frame of its coroutine after it has       *)
(* enqueued it.  When another thread has resumed the coroutine by then the *)
(* write is undefined behaviour, and the model ends there.                 *)
(***************************************************************************)
EXTENDS CommandsBuffer, FiniteSets

CONSTANTS
    Producer,       \* threads that enqueue commands
    Worker,         \* threads RunAsyncExecution starts, one for each call
    MaxCommands,    \* commands a producer enqueues
    MaxBulk         \* 1024: what one TryDequeueBulk takes at most

ASSUME CommandQueueAssumption == MaxCommands \in Nat /\ MaxBulk \in Nat \ {0}

VARIABLES
    handler,        \* currentCommandsBuffer of every producer's handler
    queue,          \* what every thread has in the concurrent queue
    asyncExecutionFlags,
    worker,         \* where in ExecuteLoop a worker is
    unvisited,      \* sub-queues a worker's TryDequeueBulk has not come to
    batch,          \* commands a worker has dequeued
    suspending,     \* the coroutine a thread has enqueued in the await_suspend
                    \* that it has not left yet
    owner,          \* what the owner of the queue is doing
    \* History: numbers of the commands made, commands in the order they were
    \* executed, commands released; whether two loops have run at the same
    \* time, a LOG_FATAL was reached, the owner's calls were orderly, and
    \* await_suspend wrote to a coroutine that had been resumed.
    issued, executed, released,
    overlapped, fatal, orderly, touched

producing == <<handler, issued>>
taking    == <<unvisited, batch>>
history   == <<executed, released>>
running   == <<asyncExecutionFlags, worker, overlapped, fatal>>
coroutines == <<suspending, touched>>
ownerVars == <<owner, orderly>>
vars == <<handler, queue, asyncExecutionFlags, worker, unvisited, batch,
          suspending, owner, issued, executed, released, overlapped, fatal,
          orderly, touched>>

IS_RUNNING == "IS_RUNNING"
QUEUE_STOP == "QUEUE_STOP"
STOPPED    == {}

Thread == Producer \cup Worker

\* The n-th command of a producer
Id(p, n) == [by |-> p, n |-> n]

\* What is in the queue: CommandHandles, of one command or coroutine or of
\* CommandExecuteCommandsBuffer
Single(type, id) == [type |-> type, ids |-> <<id>>]
Buffered(b) ==
    [type |-> "buffer", ids |-> [i \in 1 .. Len(b.commands) |-> b.commands[i].id]]

\* The ids in a sequence of handles
Ids(items) ==
    UNION {{items[i].ids[j] : j \in 1 .. Len(items[i].ids)} : i \in 1 .. Len(items)}

Init ==
    /\ handler = [p \in Producer |-> NoBuffer]
    /\ queue = [t \in Thread |-> <<>>]
    /\ asyncExecutionFlags = STOPPED
    /\ worker = [w \in Worker |-> "none"]
    /\ unvisited = [w \in Worker |-> {}]
    /\ batch = [w \in Worker |-> <<>>]
    /\ suspending = [t \in Thread |-> {}]
    /\ owner = "idle"
    /\ issued = [p \in Producer |-> 0]
    /\ executed = <<>>
    /\ released = {}
    /\ overlapped = FALSE
    /\ fatal = FALSE
    /\ orderly = TRUE
    /\ touched = FALSE

-----------------------------------------------------------------------------
(* Producers, until the owner destroys the queue.                          *)

MayEnqueue(p) ==
    /\ owner \notin {"destroying", "destroyed"}
    /\ suspending[p] = {}
    /\ issued[p] < MaxCommands

Issue(p) == issued' = [issued EXCEPT ![p] = @ + 1]

\* EnqueueCommand of a CommandHandle
EnqueueCommand(t, item) == queue' = [queue EXCEPT ![t] = Append(@, item)]

\* EnqueueCommand of a single command
ProducerEnqueue(p) ==
    /\ MayEnqueue(p)
    /\ Issue(p)
    /\ EnqueueCommand(p, Single("command", Id(p, issued[p] + 1)))
    /\ UNCHANGED <<handler, taking, running, history, coroutines, ownerVars>>

\* The start of await_suspend: the coroutine is enqueued
AwaitSuspend(t, type, id) ==
    /\ EnqueueCommand(t, Single(type, id))
    /\ suspending' = [suspending EXCEPT ![t] = {[id |-> id, type |-> type]}]

\* Its rest: queue = nullptr and objectHolder = nullptr, which lie in the frame
\* of the coroutine
AwaitSuspendReturns(t) ==
    /\ owner # "destroyed"
    /\ suspending[t] # {}
    /\ suspending' = [suspending EXCEPT ![t] = {}]
    /\ touched' = \E i \in 1 .. Len(executed) : executed[i] \in suspending[t]
    /\ UNCHANGED <<producing, queue, taking, running, history, ownerVars>>

\* co_await Schedule() in a coroutine that runs on a producer's thread
ProducerSchedule(p) ==
    /\ MayEnqueue(p)
    /\ Issue(p)
    /\ AwaitSuspend(p, "coroutine", Id(p, issued[p] + 1))
    /\ UNCHANGED <<handler, taking, running, history, touched, ownerVars>>

\* FlushBuffer with commands in the buffer: EnqueueCommandsBuffer moves it into
\* the queue
HasCommands(p) == handler[p].commands # <<>>

ProducerFlush(p) ==
    /\ HasCommands(p)
    /\ suspending[p] = {}
    /\ EnqueueCommand(p, Buffered(handler[p]))
    /\ handler' = [handler EXCEPT ![p] = NoBuffer]
    /\ UNCHANGED <<issued, taking, running, history, coroutines, ownerVars>>

\* Mutant: a command that finds no room is enqueued on its own
HandlerEnqueueAlone(p, kind, late, block) ==
    LET room == CanAllocate(handler[p], kind) \/ ~HasCommands(p)
        b    == IF IsValid(handler[p]) THEN handler[p] ELSE NewBuffer(block)
        id   == Id(p, issued[p] + 1)
    IN  /\ MayEnqueue(p)
        /\ Issue(p)
        /\ IF room
           THEN /\ handler' = [handler EXCEPT ![p] = Allocate(b, kind, id)]
                /\ UNCHANGED queue
           ELSE /\ EnqueueCommand(p, [type |-> "buffer", ids |-> <<id>>])
                /\ UNCHANGED handler
        /\ UNCHANGED <<taking, running, history, coroutines, ownerVars>>

\* CommandsBufferHandler::EnqueueCommand; late: forceEnqueueTimepoint has passed.
\* AllocateBuffer flushes the buffer, and keeps an empty one.
HandlerEnqueue(p, kind, late, block) ==
    LET room  == CanAllocate(handler[p], kind) /\ ~(late /\ HasCommands(p))
        empty == IsValid(handler[p]) /\ ~HasCommands(p)
        b     == IF room \/ empty THEN handler[p] ELSE NewBuffer(block)
    IN  /\ MayEnqueue(p)
        /\ Issue(p)
        /\ handler' = [handler EXCEPT ![p] =
                          Allocate(b, kind, Id(p, issued[p] + 1))]
        /\ IF ~room /\ HasCommands(p)
           THEN EnqueueCommand(p, Buffered(handler[p]))
           ELSE UNCHANGED queue
        /\ UNCHANGED <<taking, running, history, coroutines, ownerVars>>

-----------------------------------------------------------------------------
(* ExecuteLoop of a worker thread.                                         *)

InLoop == {"loop", "execute", "run", "leave"}

\* The flags are read and the worker goes on
Goto(w, there) == worker' = [worker EXCEPT ![w] = there]

Alive(w, here) ==
    worker[w] = here /\ owner # "destroyed" /\ suspending[w] = {}

\* if (asyncExecutionFlags & IS_RUNNING)
LoopStart(w) ==
    /\ Alive(w, "start")
    /\ Goto(w, IF IS_RUNNING \in asyncExecutionFlags THEN "check" ELSE "store")
    /\ UNCHANGED <<producing, queue, taking, asyncExecutionFlags, overlapped,
                   fatal, history, coroutines, ownerVars>>

\* if ((asyncExecutionFlags & QUEUE_STOP) == 0): already running
LoopCheck(w) ==
    /\ Alive(w, "check")
    /\ Goto(w, IF QUEUE_STOP \in asyncExecutionFlags THEN "stop" ELSE "ended")
    /\ UNCHANGED <<producing, queue, taking, asyncExecutionFlags, overlapped,
                   fatal, history, coroutines, ownerVars>>

\* WaitStopAsyncExecution: QueueStopAsyncExecution, and then the wait
LoopStop(w) ==
    /\ Alive(w, "stop")
    /\ Goto(w, "wait")
    /\ asyncExecutionFlags' = asyncExecutionFlags \cup {QUEUE_STOP}
    /\ UNCHANGED <<producing, queue, taking, overlapped, fatal, history,
                   coroutines, ownerVars>>

\* Mutant: no wait
LoopWaitNot(w) ==
    /\ Alive(w, "wait")
    /\ Goto(w, "store")
    /\ UNCHANGED <<producing, queue, taking, asyncExecutionFlags, overlapped,
                   fatal, history, coroutines, ownerVars>>

LoopWait(w) ==
    /\ Alive(w, "wait")
    /\ IS_RUNNING \notin asyncExecutionFlags
    /\ Goto(w, "recheck")
    /\ UNCHANGED <<producing, queue, taking, asyncExecutionFlags, overlapped,
                   fatal, history, coroutines, ownerVars>>

\* The LOG_FATAL of a loop that is still running
LoopRecheck(w) ==
    /\ Alive(w, "recheck")
    /\ Goto(w, IF IS_RUNNING \in asyncExecutionFlags THEN "ended" ELSE "store")
    /\ fatal' = (fatal \/ IS_RUNNING \in asyncExecutionFlags)
    /\ UNCHANGED <<producing, queue, taking, asyncExecutionFlags, overlapped,
                   history, coroutines, ownerVars>>

\* asyncExecutionFlags = IS_RUNNING
LoopStore(w) ==
    /\ Alive(w, "store")
    /\ Goto(w, "loop")
    /\ asyncExecutionFlags' = {IS_RUNNING}
    /\ overlapped' = (overlapped \/ \E v \in Worker : worker[v] \in InLoop)
    /\ UNCHANGED <<producing, queue, taking, fatal, history, coroutines, ownerVars>>

\* Mutant: a stop request is not looked at
LoopTestRunning(w) ==
    /\ Alive(w, "loop")
    /\ Goto(w, IF IS_RUNNING \in asyncExecutionFlags THEN "execute" ELSE "leave")
    /\ unvisited' = [unvisited EXCEPT ![w] = Thread]
    /\ UNCHANGED <<producing, queue, batch, asyncExecutionFlags, overlapped,
                   fatal, history, coroutines, ownerVars>>

\* while (asyncExecutionFlags.load() == IS_RUNNING)
LoopTest(w) ==
    /\ Alive(w, "loop")
    /\ Goto(w, IF asyncExecutionFlags = {IS_RUNNING} THEN "execute" ELSE "leave")
    /\ unvisited' = [unvisited EXCEPT ![w] = Thread]
    /\ UNCHANGED <<producing, queue, batch, asyncExecutionFlags, overlapped,
                   fatal, history, coroutines, ownerVars>>

\* asyncExecutionFlags = STOPPED
LoopLeave(w) ==
    /\ Alive(w, "leave")
    /\ Goto(w, "ended")
    /\ asyncExecutionFlags' = STOPPED
    /\ UNCHANGED <<producing, queue, taking, overlapped, fatal, history,
                   coroutines, ownerVars>>

\* Mutant: only a full bulk is taken
TryDequeueBulkFull(w, t) ==
    /\ Alive(w, "execute")
    /\ t \in unvisited[w]
    /\ unvisited' = [unvisited EXCEPT ![w] = @ \ {t}]
    /\ LET n == IF Len(queue[t]) >= MaxBulk THEN MaxBulk ELSE 0
       IN  /\ batch' = [batch EXCEPT ![w] = @ \o SubSeq(queue[t], 1, n)]
           /\ queue' = [queue EXCEPT ![t] = SubSeq(@, n + 1, Len(@))]
    /\ UNCHANGED <<producing, running, history, coroutines, ownerVars>>

Smaller(a, b) == IF a < b THEN a ELSE b

\* TryDequeueBulk at the sub-queue of one thread: as much of it as there is room for
TryDequeueBulk(w, t) ==
    /\ Alive(w, "execute")
    /\ t \in unvisited[w]
    /\ unvisited' = [unvisited EXCEPT ![w] = @ \ {t}]
    /\ LET n == Smaller(Len(queue[t]), MaxBulk - Len(batch[w]))
       IN  /\ batch' = [batch EXCEPT ![w] = @ \o SubSeq(queue[t], 1, n)]
           /\ queue' = [queue EXCEPT ![t] = SubSeq(@, n + 1, Len(@))]
    /\ UNCHANGED <<producing, running, history, coroutines, ownerVars>>

\* A bulk has been taken and executed
BulkDone(w) == Alive(w, "execute") /\ unvisited[w] = {} /\ batch[w] = <<>>

\* Execute goes on with the next bulk ...
ExecuteAgain(w) ==
    /\ BulkDone(w)
    /\ unvisited' = [unvisited EXCEPT ![w] = Thread]
    /\ UNCHANGED <<producing, queue, batch, running, history, coroutines, ownerVars>>

\* ... or returns, after 1024 commands or a few bulks that were not full
ExecuteReturns(w) ==
    /\ BulkDone(w)
    /\ Goto(w, "loop")
    /\ UNCHANGED <<producing, queue, taking, asyncExecutionFlags, overlapped,
                   fatal, history, coroutines, ownerVars>>

\* The batch without the command that was executed
Executed(items) ==
    IF Len(Head(items).ids) = 1 THEN Tail(items)
    ELSE [items EXCEPT ![1].ids = Tail(@)]

\* Mutant: the coroutine is resumed, and then destroyed with its handle
ExecuteDestroys(w, item, id) ==
    /\ released' = released \cup {id}
    /\ IF item.type = "coroutine"
       THEN AwaitSuspend(w, "resumed", id)
       ELSE UNCHANGED <<queue, suspending>>

\* CommandHandle::Execute releases a command that was executed and lets go of
\* a coroutine that was resumed; the coroutine schedules itself once more
ExecuteHandle(w, item, id) ==
    IF item.type = "coroutine"
    THEN AwaitSuspend(w, "resumed", id) /\ UNCHANGED released
    ELSE released' = released \cup {id} /\ UNCHANGED <<queue, suspending>>

\* The next command of the batch, or of the buffer at its front (ExecuteAll)
ExecuteOne(w) ==
    /\ Alive(w, "run") \/ (Alive(w, "execute") /\ unvisited[w] = {})
    /\ batch[w] # <<>>
    /\ LET item == Head(batch[w])
           id   == Head(item.ids)
       IN  /\ executed' = Append(executed, [id |-> id, type |-> item.type])
           /\ ExecuteHandle(w, item, id)
    /\ batch' = [batch EXCEPT ![w] = Executed(@)]
    /\ Goto(w, IF batch'[w] = <<>> THEN "execute" ELSE "run")
    /\ UNCHANGED <<producing, unvisited, asyncExecutionFlags, overlapped, fatal,
                   touched, ownerVars>>

-----------------------------------------------------------------------------
(* The owner of the queue.                                                 *)

Starting(w) == worker[w] \notin InLoop \cup {"none", "ended"}

\* A start is orderly when the loops that still run were told to stop, a stop
\* when no thread is on its way into its loop.
OrderlyStart ==
    \A w \in Worker :
        \/ worker[w] \in {"none", "ended", "leave"}
        \/ worker[w] \in InLoop /\ QUEUE_STOP \in asyncExecutionFlags
OrderlyStop == \A w \in Worker : ~Starting(w)

\* RunAsyncExecution
RunAsyncExecution(w) ==
    /\ owner = "idle"
    /\ worker[w] = "none"
    /\ Goto(w, "start")
    /\ orderly' = (orderly /\ OrderlyStart)
    /\ UNCHANGED <<producing, queue, taking, asyncExecutionFlags, overlapped,
                   fatal, history, coroutines, owner>>

\* QueueStopAsyncExecution, alone or as the start of WaitStopAsyncExecution and
\* of the destructor
QueueStopAsyncExecution(next) ==
    /\ owner = "idle"
    /\ next = "destroying" =>
          \A p \in Producer : ~HasCommands(p) /\ suspending[p] = {}
    /\ asyncExecutionFlags' = asyncExecutionFlags \cup {QUEUE_STOP}
    /\ owner' = next
    /\ orderly' = (orderly /\ OrderlyStop)
    /\ UNCHANGED <<producing, queue, taking, worker, overlapped, fatal, history,
                   coroutines>>

\* while (IsRunningAsync())
WaitStopAsyncExecution ==
    /\ owner = "waiting"
    /\ IS_RUNNING \notin asyncExecutionFlags
    /\ owner' = "idle"
    /\ UNCHANGED <<producing, queue, taking, running, history, coroutines, orderly>>

\* The rest of the destructor: the handles left in the queue are destroyed, with
\* the commands of a buffer (CallDestructors) and with coroutines
Destroy ==
    /\ owner = "destroying"
    /\ IS_RUNNING \notin asyncExecutionFlags
    /\ owner' = "destroyed"
    /\ queue' = [t \in Thread |-> <<>>]
    /\ released' = released \cup UNION {Ids(queue[t]) : t \in Thread}
    /\ UNCHANGED <<producing, taking, running, executed, coroutines, orderly>>

-----------------------------------------------------------------------------
LoopStep(w) ==
    \/ LoopStart(w) \/ LoopCheck(w) \/ LoopStop(w) \/ LoopWait(w)
    \/ LoopRecheck(w) \/ LoopStore(w) \/ LoopTest(w) \/ LoopLeave(w)
    \/ \E t \in Thread : TryDequeueBulk(w, t)
    \/ ExecuteOne(w) \/ ExecuteAgain(w) \/ ExecuteReturns(w)
    \/ AwaitSuspendReturns(w)

ProducerNext(p) ==
    \/ ProducerEnqueue(p) \/ ProducerSchedule(p) \/ AwaitSuspendReturns(p)
    \/ \E kind \in Kinds, late \in BOOLEAN, block \in Blocks :
          HandlerEnqueue(p, kind, late, block)
    \/ ProducerFlush(p)

OwnerNext ==
    \/ \E w \in Worker : RunAsyncExecution(w)
    \/ \E next \in {"idle", "waiting", "destroying"} :
          QueueStopAsyncExecution(next)
    \/ WaitStopAsyncExecution
    \/ Destroy

Next ==
    /\ ~touched
    /\ \/ \E p \in Producer : ProducerNext(p)
       \/ \E w \in Worker : LoopStep(w)
       \/ OwnerNext

Spec == Init /\ [][Next]_vars

\* Threads that were started run; Execute comes to its end, since every bulk
\* counts against the 1024 commands or the 512 it may fall short by; the owner
\* polls while it waits.
Fairness ==
    /\ \A w \in Worker :
          /\ WF_vars(~touched /\ LoopStep(w))
          /\ SF_vars(~touched /\ ExecuteReturns(w))
    /\ WF_vars(~touched /\ (WaitStopAsyncExecution \/ Destroy))

FairSpec == Spec /\ Fairness

-----------------------------------------------------------------------------
InHandler(p) ==
    {handler[p].commands[i].id : i \in 1 .. Len(handler[p].commands)}

Issued == UNION {{Id(p, n) : n \in 1 .. issued[p]} : p \in Producer}

\* Buffers, queue, flags and threads.
TypeOK ==
    /\ \A p \in Producer : Len(handler[p].commands) <= MaxCommands
    /\ \A t \in Thread : Ids(queue[t]) \subseteq Issued
    /\ asyncExecutionFlags \subseteq {IS_RUNNING, QUEUE_STOP}
    /\ worker \in [Worker -> InLoop \cup {"none", "start", "check", "stop", "wait",
                                          "recheck", "store", "ended"}]
    /\ \A w \in Worker : Ids(batch[w]) \subseteq Issued
    /\ owner \in {"idle", "waiting", "destroying", "destroyed"}
    /\ issued \in [Producer -> 0 .. MaxCommands]
    /\ released \subseteq Issued
    /\ unvisited \in [Worker -> SUBSET Thread]
    /\ \A t \in Thread : {c.id : c \in suspending[t]} \subseteq Issued
    /\ {overlapped, fatal, orderly, touched} \subseteq BOOLEAN

\* The buffer of every CommandsBufferHandler holds its commands apart from each
\* other and from the entries, however sizes and alignments mix, and aligned as far
\* as the 16 bytes of MemoryPool go.
LayoutSound == \A p \in Producer : Layout(handler[p])

\* The handle of a command or coroutine is in the buffer of a handler, in the
\* queue, in the hands of one worker, or released: it is never lost, never in two
\* places, so never executed or released twice, whatever starts and stops overlap,
\* as long as no await_suspend has written to a coroutine that was resumed; and the
\* destructor releases what is left.
OwnedOnce ==
    /\ TypeOK
    /\ \A id \in Issued :
          Cardinality({p \in Producer : id \in InHandler(p)})
            + Cardinality({t \in Thread : id \in Ids(queue[t])})
            + Cardinality({w \in Worker : id \in Ids(batch[w])})
            + (IF id \in released THEN 1 ELSE 0) = 1
    /\ \A i, j \in 1 .. Len(executed) : executed[i] = executed[j] => i = j
    /\ owner = "destroyed" /\ orderly => released = Issued

\* While no two loops overlap, the commands a producer enqueues one by one are
\* executed in order, and so are the ones it gives to its handler, and its
\* coroutines are resumed for the first time.
InOrder ==
    ~overlapped =>
        \A i, j \in 1 .. Len(executed) :
            (/\ executed[i].type = executed[j].type
             /\ executed[i].type # "resumed"
             /\ executed[i].id.by = executed[j].id.by
             /\ executed[i].id.n < executed[j].id.n)
            => i < j

\* When the owner's calls are orderly, one loop runs at a time, also when a new
\* one is started while the last one is still stopping; the LOG_FATAL in
\* ExecuteLoop is not reached, and neither WaitStopAsyncExecution nor the
\* destructor returns while a thread is still in its loop.
OneLoopAtATime ==
    orderly =>
        /\ ~overlapped /\ ~fatal
        /\ owner = "destroyed" => \A w \in Worker : worker[w] \in {"none", "ended"}

\* When the owner's calls are orderly, WaitStopAsyncExecution and the destructor
\* return.
StopCompletes ==
    (owner \in {"waiting", "destroying"} /\ orderly)
        ~> (owner \notin {"waiting", "destroying"} \/ touched)

\* What a producer has enqueued is executed, a coroutine for the last time too
AllExecuted ==
    \A id \in Issued :
        \/ id \in InHandler(id.by)
        \/ \E i \in 1 .. Len(executed) :
              executed[i].id = id /\ executed[i].type # "coroutine"

\* Once the producers pause everything that was enqueued is executed, unless the
\* loop is told to stop: no command is left behind, not the ones of a flushed
\* buffer and not a coroutine that schedules itself again (TryDequeueBulk, Execute).
EnqueuedIsExecuted ==
    (~AllExecuted /\ asyncExecutionFlags = {IS_RUNNING})
        ~> (AllExecuted \/ asyncExecutionFlags # {IS_RUNNING} \/ touched)

\* Schedule may be called by every thread: a coroutine that awaits it is not
\* touched any more by the thread that suspended it once another one has resumed
\* it.
SuspendedLeftAlone == ~touched
=============================================================================
