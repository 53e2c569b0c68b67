------------------------------- MODULE LoopRun -------------------------------
(***************************************************************************)
(* The thread of a loop: RunAsync, the loop of uSockets it blocks in,      *)
(* wake-ups and the timer, stop requests, iterations by hand and Destroy   *)
(* (src/Loop.cpp, src/LoopUS.cpp).                                         *)
(*                                                                         *)
(* us_loop_run comes back only when no socket is open; between callbacks   *)
(* it sleeps until a socket, the timer or us_wakeup_loop has something.    *)
(* Hosts are seen as the number of their open sockets.  An iteration takes *)
(* the commands that are in the queue and executes them one by one; what   *)
(* later bulks of the same Execute take is taken by the next iteration.  A *)
(* command may be enqueued with a wake-up (EnqueueCommand) or without      *)
(* (Schedule, and the queue's own EnqueueCommandsBuffer).  Users enqueue   *)
(* until the loop is freed, and what a thread does with a freed loop is    *)
(* not modelled.                                                           *)
(***************************************************************************)
EXTENDS Integers

CONSTANTS
    Runner,         \* threads RunAsync starts, one for each call
    Opening,        \* commands that open a socket: Listen and Connect
    Plain           \* commands that do not

Owner    == "owner"
Executor == Runner \cup {Owner}

DestroyHosts == "CommandDestroyHosts"

Command == Opening \cup Plain

ASSUME LoopRunAssumption == Owner \notin Runner /\ DestroyHosts \notin Command

VARIABLES
    asyncRunnerFlags,
    runner,         \* where in _InternalSyncLoop a thread is
    commandQueue,
    batch,          \* commands a thread has dequeued and not executed yet
    outer,          \* batch of the Execute that runs CommandDestroyHosts, which
                    \* is in it, while that command executes the queue itself
    wakeup,         \* us_wakeup_loop was called since the last wakeup_cb
    sockets,        \* num_polls
    hostsDestroyed, \* CommandDestroyHosts was executed
    owner,          \* what the thread that owns the loop is doing
    waking,         \* QueueStopRunning has set its flag and not yet called
                    \* WakeUp: "no", "ifRunning", or "always" in WaitStopRunning
    \* History: commands enqueued, before Destroy, and executed; whether RunAsync
    \* was only called when no thread was left from an earlier call.
    enqueued, expected, executed,
    orderly

executing == <<commandQueue, batch, outer, executed, sockets, hostsDestroyed>>
usersVars == <<enqueued, expected>>
ownerVars == <<owner, waking>>
vars == <<asyncRunnerFlags, runner, commandQueue, batch, outer, wakeup, sockets,
          hostsDestroyed, owner, waking, enqueued, expected, executed, orderly>>

RUNNING    == "RUNNING"
QUEUE_STOP == "QUEUE_STOP"

Init ==
    /\ asyncRunnerFlags = {}
    /\ runner = [r \in Runner |-> "none"]
    /\ commandQueue = {}
    /\ batch = [x \in Executor |-> {}]
    /\ outer = [x \in Executor |-> {}]
    /\ wakeup = FALSE
    /\ sockets = 0
    /\ hostsDestroyed = FALSE
    /\ owner = "idle"
    /\ waking = "no"
    /\ enqueued = {}
    /\ expected = {}
    /\ executed = {}
    /\ orderly = TRUE

-----------------------------------------------------------------------------
(* Any thread.                                                             *)

\* EnqueueCommand, or Schedule and EnqueueCommandsBuffer: no wake-up
Enqueue(c, wake) ==
    /\ owner # "freed"
    /\ c \notin enqueued
    /\ enqueued' = enqueued \cup {c}
    /\ commandQueue' = commandQueue \cup {c}
    /\ wakeup' = (wakeup \/ wake)
    /\ UNCHANGED <<asyncRunnerFlags, runner, batch, outer, sockets,
                   hostsDestroyed, ownerVars, expected, executed, orderly>>

-----------------------------------------------------------------------------
(* Execute, on whatever thread.                                            *)

Busy(x) == batch[x] # {} \/ outer[x] # {}

\* TryDequeueBulk
TakeBatch(x) ==
    /\ batch' = [batch EXCEPT ![x] = commandQueue]
    /\ commandQueue' = {}
    /\ UNCHANGED <<outer, executed, sockets, hostsDestroyed>>

\* A command of the batch; without its host a Listen or Connect opens nothing
ExecuteCommand(x, c) ==
    /\ c \in batch[x] \ {DestroyHosts}
    /\ batch' = [batch EXCEPT ![x] = @ \ {c}]
    /\ executed' = executed \cup {c}
    /\ sockets' = IF c \in Opening /\ ~hostsDestroyed THEN sockets + 1 ELSE sockets
    /\ UNCHANGED <<commandQueue, outer, hostsDestroyed>>

\* Mutant: CommandDestroyHosts forgets the batch that it is in
ExecuteDestroyHostsAlone(x) ==
    /\ DestroyHosts \in batch[x]
    /\ outer' = [outer EXCEPT ![x] = {DestroyHosts}]
    /\ batch' = [batch EXCEPT ![x] = {}]
    /\ UNCHANGED <<commandQueue, executed, sockets, hostsDestroyed>>

\* CommandDestroyHosts: it executes what is in the queue ...
ExecuteDestroyHosts(x) ==
    /\ DestroyHosts \in batch[x]
    /\ outer' = [outer EXCEPT ![x] = batch[x]]
    /\ batch' = [batch EXCEPT ![x] = {}]
    /\ UNCHANGED <<commandQueue, executed, sockets, hostsDestroyed>>

DestroyHostsDrains(x) ==
    /\ outer[x] # {} /\ batch[x] = {}
    /\ commandQueue # {}
    /\ TakeBatch(x)

\* ... until it is empty, closes the sockets of all hosts, and the batch that it
\* is part of goes on
HostsDestroyed(x) ==
    /\ outer[x] # {} /\ batch[x] = {}
    /\ commandQueue = {}
    /\ batch' = [batch EXCEPT ![x] = outer[x] \ {DestroyHosts}]
    /\ outer' = [outer EXCEPT ![x] = {}]
    /\ executed' = executed \cup {DestroyHosts}
    /\ sockets' = 0
    /\ hostsDestroyed' = TRUE
    /\ UNCHANGED commandQueue

Execute(x) ==
    /\ owner # "freed"
    /\ \/ \E c \in Command : ExecuteCommand(x, c)
       \/ ExecuteDestroyHosts(x)
       \/ DestroyHostsDrains(x)
       \/ HostsDestroyed(x)
    /\ UNCHANGED <<asyncRunnerFlags, runner, wakeup, ownerVars, usersVars, orderly>>

-----------------------------------------------------------------------------
(* The loop on a thread of RunAsync.                                       *)

InLoop == {"run", "poll", "tail"}

Goto(r, there) == runner' = [runner EXCEPT ![r] = there]

At(r, here) == runner[r] = here /\ ~Busy(r)

Alive(r, here) == At(r, here) /\ owner # "freed"

\* Mutant: the flags are set, not or-ed: a stop request is overwritten
RunnerStartStores(r) ==
    /\ At(r, "start")
    /\ Goto(r, "test")
    /\ asyncRunnerFlags' = {RUNNING}
    /\ UNCHANGED <<executing, wakeup, ownerVars, usersVars, orderly>>

\* asyncRunnerFlags |= RUNNING
RunnerStart(r) ==
    /\ At(r, "start")
    /\ Goto(r, "test")
    /\ asyncRunnerFlags' = asyncRunnerFlags \cup {RUNNING}
    /\ UNCHANGED <<executing, wakeup, ownerVars, usersVars, orderly>>

\* while (IsQueuedStopAsync() == false)
RunnerTest(r) ==
    /\ At(r, "test")
    /\ Goto(r, IF QUEUE_STOP \in asyncRunnerFlags THEN "leave" ELSE "run")
    /\ UNCHANGED <<asyncRunnerFlags, executing, wakeup, ownerVars, usersVars,
                   orderly>>

\* us_loop_run: it ends without sockets, and calls pre_cb before it waits
LoopRunTop(r) ==
    /\ Alive(r, "run")
    /\ \/ /\ sockets = 0
          /\ Goto(r, "tail")
          /\ UNCHANGED executing
       \/ /\ sockets # 0
          /\ Goto(r, "poll")
          /\ TakeBatch(r)
    /\ UNCHANGED <<asyncRunnerFlags, wakeup, ownerVars, usersVars, orderly>>

\* Mutant: there is no timer
LoopWakesUntimed(r) ==
    /\ Alive(r, "poll")
    /\ wakeup
    /\ Goto(r, "run")
    /\ TakeBatch(r)
    /\ wakeup' = FALSE
    /\ UNCHANGED <<asyncRunnerFlags, ownerVars, usersVars, orderly>>

\* _Internal_wakeup_cb, _InternalOnTimerWakup or only _Internal_post_cb
LoopWakes(r) ==
    /\ Alive(r, "poll")
    /\ Goto(r, "run")
    /\ TakeBatch(r)
    /\ wakeup' = FALSE
    /\ UNCHANGED <<asyncRunnerFlags, ownerVars, usersVars, orderly>>

\* The other end closes a connection, and the loop handles it
SocketCloses(r) ==
    /\ Alive(r, "poll")
    /\ sockets > 0
    /\ sockets' = sockets - 1
    /\ UNCHANGED <<asyncRunnerFlags, runner, commandQueue, batch, outer, executed,
                   wakeup, hostsDestroyed, ownerVars, usersVars, orderly>>

\* The iteration after us_loop_run, and the sleep
RunnerTail(r) ==
    /\ Alive(r, "tail")
    /\ Goto(r, "test")
    /\ TakeBatch(r)
    /\ UNCHANGED <<asyncRunnerFlags, wakeup, ownerVars, usersVars, orderly>>

\* Mutant: the flag stays set
RunnerLeaveRunning(r) ==
    /\ At(r, "leave")
    /\ Goto(r, "ended")
    /\ UNCHANGED <<asyncRunnerFlags, executing, wakeup, ownerVars, usersVars,
                   orderly>>

\* asyncRunnerFlags &= ~RUNNING
RunnerLeave(r) ==
    /\ At(r, "leave")
    /\ Goto(r, "ended")
    /\ asyncRunnerFlags' = asyncRunnerFlags \ {RUNNING}
    /\ UNCHANGED <<executing, wakeup, ownerVars, usersVars, orderly>>

-----------------------------------------------------------------------------
(* The owner.                                                              *)

Ended == \A r \in Runner : runner[r] \in {"none", "ended"}

\* The owner has returned from what it did last
Free(here) == owner = here /\ waking = "no" /\ ~Busy(Owner)

\* RunAsync
RunAsync(r) ==
    /\ Free("idle")
    /\ runner[r] = "none"
    /\ Goto(r, "start")
    /\ asyncRunnerFlags' = {}
    /\ orderly' = (orderly /\ Ended)
    /\ UNCHANGED <<executing, wakeup, ownerVars, usersVars>>

\* SingleLoopIteration called by hand, by a program that does not call RunAsync;
\* with noWaitLoop, or without open sockets, it does not block
SingleLoopIteration ==
    /\ Free("idle")
    /\ Ended
    /\ TakeBatch(Owner)
    /\ wakeup' = FALSE
    /\ UNCHANGED <<asyncRunnerFlags, runner, ownerVars, usersVars, orderly>>

\* The first half of QueueStopRunning
QueueStop(wake) ==
    /\ asyncRunnerFlags' = asyncRunnerFlags \cup {QUEUE_STOP}
    /\ waking' = wake
    /\ UNCHANGED <<runner, executing, wakeup, usersVars, orderly>>

\* Its second half, and the WakeUp of WaitStopRunning behind it
WakesUp ==
    /\ waking # "no"
    /\ wakeup' = (wakeup \/ waking = "always" \/ RUNNING \in asyncRunnerFlags)
    /\ waking' = "no"
    /\ UNCHANGED <<asyncRunnerFlags, runner, executing, owner, usersVars, orderly>>

\* QueueStopRunning, alone or as the start of WaitStopRunning
QueueStopRunning(next) ==
    /\ Free("idle")
    /\ QueueStop("ifRunning")
    /\ owner' = next

\* The start of Destroy
Destroy ==
    /\ Free("idle")
    /\ expected' = enqueued
    /\ commandQueue' = commandQueue \cup {DestroyHosts}
    /\ wakeup' = TRUE
    /\ owner' = "destroying"
    /\ UNCHANGED <<asyncRunnerFlags, runner, batch, outer, sockets, hostsDestroyed,
                   waking, enqueued, executed, orderly>>

\* WaitStopRunning of Destroy
DestroyStops ==
    /\ Free("destroying")
    /\ QueueStop("ifRunning")
    /\ owner' = "stopping"

\* while (IsRunningAsync()): the request is repeated, and the loop woken up
WaitAgain ==
    /\ Free("waiting") \/ Free("stopping")
    /\ RUNNING \in asyncRunnerFlags
    /\ QUEUE_STOP \notin asyncRunnerFlags \/ ~wakeup
    /\ QueueStop("always")
    /\ UNCHANGED owner

WaitEnds ==
    /\ Free("waiting") \/ Free("stopping")
    /\ RUNNING \notin asyncRunnerFlags
    /\ owner' = IF owner = "waiting" THEN "idle" ELSE "draining"
    /\ UNCHANGED <<asyncRunnerFlags, runner, executing, wakeup, waking, usersVars,
                   orderly>>

\* The rest of Destroy: Execute and us_loop_run_once until the queue is empty ...
DestroyDrains ==
    /\ Free("draining") \/ Free("drained")
    /\ owner = "draining" \/ commandQueue # {}
    /\ TakeBatch(Owner)
    /\ owner' = "drained"
    /\ UNCHANGED <<asyncRunnerFlags, runner, wakeup, waking, usersVars, orderly>>

\* ... and us_loop_free
DestroyFrees ==
    /\ Free("drained")
    /\ commandQueue = {}
    /\ owner' = "freed"
    /\ UNCHANGED <<asyncRunnerFlags, runner, executing, wakeup, waking, usersVars,
                   orderly>>

-----------------------------------------------------------------------------
RunnerStep(r) ==
    \/ RunnerStart(r) \/ RunnerTest(r) \/ LoopRunTop(r) \/ LoopWakes(r)
    \/ RunnerTail(r) \/ RunnerLeave(r) \/ Execute(r)

OwnerStep ==
    \/ WakesUp \/ Execute(Owner)
    \/ DestroyStops \/ WaitAgain \/ WaitEnds \/ DestroyDrains \/ DestroyFrees

Next ==
    \/ \E c \in Command, wake \in BOOLEAN : Enqueue(c, wake)
    \/ \E r \in Runner : RunnerStep(r) \/ SocketCloses(r) \/ RunAsync(r)
    \/ SingleLoopIteration
    \/ \E next \in {"idle", "waiting"} : QueueStopRunning(next)
    \/ Destroy
    \/ OwnerStep

Spec == Init /\ [][Next]_vars

\* The thread of the loop runs; blocked in us_loop_run it is woken up by the
\* timer that Init sets.  A thread in WaitStopRunning or Destroy goes on.
Fairness ==
    /\ \A r \in Runner : WF_vars(RunnerStep(r))
    /\ WF_vars(OwnerStep)

FairSpec == Spec /\ Fairness

-----------------------------------------------------------------------------
\* Flags, threads and queue.
TypeOK ==
    /\ asyncRunnerFlags \subseteq {RUNNING, QUEUE_STOP}
    /\ runner \in [Runner -> InLoop \cup {"none", "start", "test", "leave", "ended"}]
    /\ commandQueue \subseteq enqueued \cup {DestroyHosts}
    /\ batch \in [Executor -> SUBSET (enqueued \cup {DestroyHosts})]
    /\ outer \in [Executor -> SUBSET (enqueued \cup {DestroyHosts})]
    /\ wakeup \in BOOLEAN /\ hostsDestroyed \in BOOLEAN /\ orderly \in BOOLEAN
    /\ sockets \in Nat
    /\ owner \in {"idle", "waiting", "destroying", "stopping", "draining",
                  "drained", "freed"}
    /\ waking \in {"no", "ifRunning", "always"}
    /\ expected \subseteq enqueued /\ enqueued \subseteq Command

\* The threads that are inside functions only the thread of the loop may call
InLoopCode ==
    {r \in Runner : runner[r] \in InLoop \/ Busy(r)}
        \cup (IF owner \in {"draining", "drained", "freed"} \/ Busy(Owner)
              THEN {Owner} ELSE {})

\* When RunAsync is not called again before the thread of the last call ended,
\* the code of the loop runs on one thread at a time: Destroy, which executes
\* commands and frees the loop on the thread of its caller, does so only when
\* the thread of the loop cannot enter the loop any more, even if it was started
\* just before and has not set RUNNING yet.
OneThreadInLoop ==
    TypeOK /\ (orderly => \A a, b \in InLoopCode : a = b)

\* When RunAsync was not called again before the thread of the last call ended,
\* Destroy executes everything that was enqueued before it was called, whichever
\* thread gets to it, before it frees the loop: also what the thread of the loop
\* had dequeued when it was told to stop, and what shares a batch with
\* CommandDestroyHosts.  Without that condition HasAny is no proof of it: a thread
\* of an earlier RunAsync may still hold a batch.
DestroyExecutesAll ==
    (owner = "freed" /\ orderly) => expected \cup {DestroyHosts} \subseteq executed

\* A command is executed as long as the loop runs, even if it came without a
\* wake-up and the loop sleeps with nothing to do.
EnqueuedIsExecuted ==
    \A c \in Command :
        (c \in commandQueue /\ \E r \in Runner : runner[r] \in InLoop)
            ~> (c \in executed \/ QUEUE_STOP \in asyncRunnerFlags
                  \/ owner = "freed")

\* Destroy returns, with whatever sockets are open, and so does WaitStopRunning
\* once no socket is open.
StopCompletes ==
    /\ (owner = "destroying" /\ orderly) ~> owner = "freed"
    /\ (owner = "waiting" /\ orderly) ~> (owner # "waiting" \/ sockets # 0)
=============================================================================
