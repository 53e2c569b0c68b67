---------------------------- MODULE LoopRunProofs ----------------------------
(* The code of a loop runs on one thread at a time, and Destroy loses no     *)
(* command, for any number of calls of RunAsync, commands and sockets.       *)
EXTENDS LoopRun, TLAPS

\* A thread executes commands only in the loop and behind it, the owner only when
\* it iterates by hand, when no thread of RunAsync is left, and in Destroy.
BusyWhere ==
    /\ \A r \in Runner : Busy(r) => runner[r] \in {"run", "poll", "test"}
    /\ Busy(Owner) => owner = "drained" \/ (owner = "idle" /\ Ended)

\* In an orderly program one thread of RunAsync is left at most.
OneLeft ==
    \A r, s \in Runner :
        runner[r] \notin {"none", "ended"} /\ runner[s] \notin {"none", "ended"}
            => r = s

\* A thread that is past its first step is announced by RUNNING.
Announced ==
    \A r \in Runner :
        runner[r] \in InLoop \cup {"test", "leave"} => RUNNING \in asyncRunnerFlags

\* Once Destroy got past its wait no thread is in the loop or holds commands, and
\* the stop request that keeps a late one out of it stands.
KeptOut ==
    /\ owner \in {"draining", "drained", "freed"} =>
          \A r \in Runner : runner[r] \notin InLoop /\ ~Busy(r)
    /\ owner \in {"waiting", "stopping", "draining", "drained", "freed"} =>
          QUEUE_STOP \in asyncRunnerFlags

Turns == BusyWhere /\ (orderly => OneLeft /\ Announced /\ KeptOut)

IInv == TypeOK /\ Turns

\* CommandDestroyHosts is in one place at most, and only it sets a batch aside.
DestroyHostsOnce ==
    /\ owner \in {"idle", "waiting"} =>
          /\ DestroyHosts \notin commandQueue
          /\ \A x \in Executor : DestroyHosts \notin batch[x] /\ outer[x] = {}
    /\ DestroyHosts \in commandQueue =>
          \A x \in Executor : DestroyHosts \notin batch[x] /\ outer[x] = {}
    /\ \A x, y \in Executor :
          /\ DestroyHosts \in batch[x] =>
                outer[y] = {} /\ (DestroyHosts \in batch[y] => x = y)
          /\ outer[x] # {} /\ outer[y] # {} => x = y

\* The commands that are executed or that somebody will execute
Pending(c) ==
    \/ c \in executed \cup commandQueue
    \/ \E x \in Executor : c \in batch[x] \cup outer[x]

\* What was enqueued is executed or pending; Destroy has put its command behind
\* what it must wait for, and does not end before they are executed.
Kept ==
    /\ \A c \in enqueued : Pending(c)
    /\ owner \notin {"idle", "waiting"} =>
          \A c \in expected \cup {DestroyHosts} : Pending(c)
    /\ DestroyExecutesAll

KeepsAll == DestroyHostsOnce /\ Kept
-----------------------------------------------------------------------------
\* Dequeuing and executing keep the types of what they change.
LEMMA TakeType ==
    ASSUME TypeOK, NEW x \in Executor, TakeBatch(x), UNCHANGED enqueued
    PROVE  /\ commandQueue' \subseteq enqueued' \cup {DestroyHosts}
           /\ batch' \in [Executor -> SUBSET (enqueued' \cup {DestroyHosts})]
           /\ outer' \in [Executor -> SUBSET (enqueued' \cup {DestroyHosts})]
           /\ hostsDestroyed' \in BOOLEAN
           /\ sockets' \in Nat
  BY DEF TypeOK, TakeBatch

LEMMA ExecuteType ==
    ASSUME TypeOK, NEW x \in Executor, Execute(x)
    PROVE  TypeOK'
  <1> USE DEF TypeOK, Execute, ownerVars, usersVars
  <1>1. ASSUME NEW c \in Command, ExecuteCommand(x, c) PROVE TypeOK'
    BY <1>1 DEF ExecuteCommand
  <1>2. CASE ExecuteDestroyHosts(x)
    BY <1>2 DEF ExecuteDestroyHosts
  <1>3. CASE DestroyHostsDrains(x)
    BY <1>3 DEF DestroyHostsDrains, TakeBatch
  <1>4. CASE HostsDestroyed(x)
    BY <1>4 DEF HostsDestroyed
  <1> QED
    BY <1>1, <1>2, <1>3, <1>4

\* The type invariant is inductive.
LEMMA TypeStep == TypeOK /\ [Next]_vars => TypeOK'
  <1> SUFFICES ASSUME TypeOK, [Next]_vars PROVE TypeOK'
    OBVIOUS
  <1> USE DEF executing, usersVars, ownerVars, InLoop, Goto, RUNNING, QUEUE_STOP
  <1>1. ASSUME NEW c \in Command, NEW wake \in BOOLEAN, Enqueue(c, wake) PROVE TypeOK'
    BY <1>1 DEF TypeOK, Enqueue
  <1>2. ASSUME NEW r \in Runner, RunnerStep(r) PROVE TypeOK'
    <2>0. r \in Executor
      BY DEF Executor
    <2>1. CASE RunnerStart(r)
      BY <2>1 DEF TypeOK, RunnerStart
    <2>2. CASE RunnerTest(r)
      BY <2>2 DEF TypeOK, RunnerTest
    <2>3. CASE LoopRunTop(r)
      <3>1. CASE UNCHANGED executing
        BY <2>3, <3>1 DEF TypeOK, LoopRunTop
      <3>2. CASE TakeBatch(r)
        BY <2>0, <2>3, <3>2, TakeType DEF TypeOK, LoopRunTop
      <3> QED
        BY <2>3, <3>1, <3>2 DEF LoopRunTop
    <2>4. CASE LoopWakes(r)
      BY <2>0, <2>4, TakeType, Zenon DEF TypeOK, LoopWakes
    <2>5. CASE RunnerTail(r)
      BY <2>0, <2>5, TakeType DEF TypeOK, RunnerTail
    <2>6. CASE RunnerLeave(r)
      BY <2>6 DEF TypeOK, RunnerLeave
    <2>7. CASE Execute(r)
      BY <2>0, <2>7, ExecuteType
    <2> QED
      BY <1>2, <2>1, <2>2, <2>3, <2>4, <2>5, <2>6, <2>7 DEF RunnerStep
  <1>3. ASSUME NEW r \in Runner, SocketCloses(r) PROVE TypeOK'
    BY <1>3 DEF TypeOK, SocketCloses
  <1>4. ASSUME NEW r \in Runner, RunAsync(r) PROVE TypeOK'
    <2>1. orderly' \in BOOLEAN
      BY <1>4, Zenon DEF RunAsync
    <2> QED
      BY <1>4, <2>1 DEF TypeOK, RunAsync
  <1>5. CASE SingleLoopIteration
    <2>1. Owner \in Executor
      BY DEF Executor
    <2> QED
      BY <1>5, <2>1, TakeType, Zenon DEF TypeOK, SingleLoopIteration
  <1>6. ASSUME NEW next \in {"idle", "waiting"}, QueueStopRunning(next) PROVE TypeOK'
    BY <1>6 DEF TypeOK, QueueStopRunning, QueueStop
  <1>7. CASE Destroy
    BY <1>7 DEF TypeOK, Destroy
  <1>8. CASE OwnerStep
    <2>0. Owner \in Executor
      BY DEF Executor
    <2>1. CASE WakesUp
      <3>1. wakeup' \in BOOLEAN
        BY <2>1, Zenon DEF WakesUp
      <3> QED
        BY <2>1, <3>1 DEF TypeOK, WakesUp
    <2>2. CASE Execute(Owner)
      BY <2>0, <2>2, ExecuteType
    <2>3. CASE DestroyStops
      BY <2>3 DEF TypeOK, DestroyStops, QueueStop
    <2>4. CASE WaitAgain
      BY <2>4 DEF TypeOK, WaitAgain, QueueStop
    <2>5. CASE WaitEnds
      BY <2>5 DEF TypeOK, WaitEnds
    <2>6. CASE DestroyDrains
      BY <2>0, <2>6, TakeType DEF TypeOK, DestroyDrains
    <2>7. CASE DestroyFrees
      BY <2>7 DEF TypeOK, DestroyFrees
    <2> QED
      BY <1>8, <2>1, <2>2, <2>3, <2>4, <2>5, <2>6, <2>7 DEF OwnerStep
  <1>9. CASE UNCHANGED vars
    BY <1>9 DEF TypeOK, vars
  <1> QED
    BY <1>1, <1>2, <1>3, <1>4, <1>5, <1>6, <1>7, <1>8, <1>9 DEF Next

-----------------------------------------------------------------------------
\* A thread that dequeues or executes commands changes what the others hold not at
\* all, and executing begins nothing.
LEMMA TakeFrame ==
    ASSUME TypeOK, NEW x \in Executor, TakeBatch(x)
    PROVE  \A y \in Executor : y # x => (Busy(y)' <=> Busy(y))
  BY DEF TypeOK, TakeBatch, Busy

LEMMA ExecuteFrame ==
    ASSUME TypeOK, NEW x \in Executor, Execute(x)
    PROVE  /\ Busy(x)
           /\ \A y \in Executor : Busy(y)' => Busy(y)
  <1> USE DEF TypeOK, Execute, Busy
  <1>1. ASSUME NEW c \in Command, ExecuteCommand(x, c)
        PROVE  Busy(x) /\ \A y \in Executor : Busy(y)' => Busy(y)
    BY <1>1 DEF ExecuteCommand
  <1>2. CASE ExecuteDestroyHosts(x)
    BY <1>2 DEF ExecuteDestroyHosts
  <1>3. CASE DestroyHostsDrains(x)
    BY <1>3 DEF DestroyHostsDrains, TakeBatch
  <1>4. CASE HostsDestroyed(x)
    BY <1>4 DEF HostsDestroyed
  <1> QED
    BY <1>1, <1>2, <1>3, <1>4

\* Execute changes nothing else that matters for whose turn it is.
LEMMA ExecuteTurns ==
    ASSUME IInv, NEW x \in Executor, Execute(x)
    PROVE  Turns'
  <1>1. /\ \A y \in Executor : Busy(y)' => Busy(y)
        /\ UNCHANGED <<asyncRunnerFlags, runner, owner, orderly>>
    BY ExecuteFrame DEF IInv, Execute, ownerVars
  <1>2. /\ \A r \in Runner : r \in Executor
        /\ Owner \in Executor
    BY DEF Executor
  <1> QED
    BY <1>1, <1>2 DEF IInv, Turns, BusyWhere, OneLeft, Announced, KeptOut, Ended

-----------------------------------------------------------------------------
\* Steps of a thread of RunAsync.
LEMMA RunnerKeeps ==
    ASSUME IInv, NEW r \in Runner, RunnerStep(r) \/ SocketCloses(r)
    PROVE  Turns'
  <1> USE DEF IInv, Turns, BusyWhere, OneLeft, Announced, KeptOut, InLoop, Goto, At,
              Alive, Ended, RUNNING, QUEUE_STOP
  <1>0. /\ \A s \in Runner : s \in Executor
        /\ Owner \in Executor /\ r # Owner
        /\ runner \in [Runner -> InLoop \cup {"none", "start", "test", "leave", "ended"}]
    BY LoopRunAssumption DEF Executor, TypeOK
  <1>1. CASE RunnerStart(r)
    <2>1. \A x \in Executor : Busy(x)' <=> Busy(x)
      BY <1>1 DEF RunnerStart, executing, Busy
    <2> QED
      BY <1>0, <1>1, <2>1 DEF RunnerStart, ownerVars
  <1>2. CASE RunnerTest(r)
    <2>1. \A x \in Executor : Busy(x)' <=> Busy(x)
      BY <1>2 DEF RunnerTest, executing, Busy
    <2> QED
      BY <1>0, <1>2, <2>1 DEF RunnerTest, ownerVars
  <1>3. CASE LoopRunTop(r)
    <2>1. \A x \in Executor : x # r => (Busy(x)' <=> Busy(x))
      <3>1. CASE UNCHANGED executing
        BY <3>1 DEF executing, Busy
      <3>2. CASE TakeBatch(r)
        BY <1>0, <3>2, TakeFrame
      <3> QED
        BY <1>3, <3>1, <3>2 DEF LoopRunTop
    <2>2. runner'[r] = "tail" => ~Busy(r)'
      BY <1>0, <1>3 DEF LoopRunTop, executing, Busy
    <2> QED
      BY <1>0, <1>3, <2>1, <2>2 DEF LoopRunTop, ownerVars
  <1>4. CASE LoopWakes(r)
    <2>1. \A x \in Executor : x # r => (Busy(x)' <=> Busy(x))
      BY <1>0, <1>4, TakeFrame DEF LoopWakes
    <2> QED
      BY <1>0, <1>4, <2>1 DEF LoopWakes, ownerVars
  <1>5. CASE RunnerTail(r)
    <2>1. \A x \in Executor : x # r => (Busy(x)' <=> Busy(x))
      BY <1>0, <1>5, TakeFrame DEF RunnerTail
    <2> QED
      BY <1>0, <1>5, <2>1 DEF RunnerTail, ownerVars
  <1>6. CASE RunnerLeave(r)
    <2>1. \A x \in Executor : Busy(x)' <=> Busy(x)
      BY <1>6 DEF RunnerLeave, executing, Busy
    <2> QED
      BY <1>0, <1>6, <2>1 DEF RunnerLeave, ownerVars
  <1>7. CASE Execute(r)
    BY <1>0, <1>7, ExecuteTurns
  <1>8. CASE SocketCloses(r)
    <2>1. \A x \in Executor : Busy(x)' <=> Busy(x)
      BY <1>8 DEF SocketCloses, Busy
    <2> QED
      BY <1>0, <1>8, <2>1 DEF SocketCloses, ownerVars
  <1> QED
    BY <1>1, <1>2, <1>3, <1>4, <1>5, <1>6, <1>7, <1>8 DEF RunnerStep
\* Steps of the users and the owner.
LEMMA OthersKeep ==
    ASSUME IInv, [Next]_vars,
           ~ \E r \in Runner : RunnerStep(r) \/ SocketCloses(r)
    PROVE  Turns'
  <1> USE DEF IInv, Turns, BusyWhere, OneLeft, Announced, KeptOut, InLoop, Goto, Free,
              Ended, RUNNING, QUEUE_STOP
  <1>0. /\ \A s \in Runner : s \in Executor /\ s # Owner
        /\ Owner \in Executor
        /\ runner \in [Runner -> InLoop \cup {"none", "start", "test", "leave", "ended"}]
        /\ orderly \in BOOLEAN
    BY LoopRunAssumption DEF Executor, TypeOK
  <1>1. ASSUME UNCHANGED <<batch, outer, runner, orderly>>,
               asyncRunnerFlags' \in {asyncRunnerFlags, asyncRunnerFlags \cup {QUEUE_STOP}},
               \/ owner' = owner
               \/ /\ ~Busy(Owner)
                  /\ owner' \in {"waiting", "stopping"} => QUEUE_STOP \in asyncRunnerFlags'
                  /\ owner' \in {"idle", "waiting", "destroying", "stopping"}
        PROVE  Turns'
    <2>1. \A x \in Executor : Busy(x)' <=> Busy(x)
      BY <1>1 DEF Busy
    <2> QED
      BY <1>0, <1>1, <2>1
  <1>2. ASSUME NEW c \in Command, NEW wake \in BOOLEAN, Enqueue(c, wake) PROVE Turns'
    BY <1>1, <1>2 DEF Enqueue, ownerVars
  <1>3. ASSUME NEW r \in Runner, RunAsync(r) PROVE Turns'
    <2>1. \A x \in Executor : Busy(x)' <=> Busy(x)
      BY <1>3 DEF RunAsync, executing, Busy
    <2>2. orderly' => orderly /\ Ended
      BY <1>3, Zenon DEF RunAsync
    <2>3. /\ runner' = [runner EXCEPT ![r] = "start"] /\ runner[r] = "none"
          /\ owner = "idle" /\ owner' = "idle" /\ ~Busy(Owner)
      BY <1>3 DEF RunAsync, ownerVars
    <2> QED
      BY <1>0, <2>1, <2>2, <2>3
  <1>4. CASE SingleLoopIteration
    <2>1. \A x \in Executor : x # Owner => (Busy(x)' <=> Busy(x))
      BY <1>0, <1>4, TakeFrame DEF SingleLoopIteration
    <2> QED
      BY <1>0, <1>4, <2>1 DEF SingleLoopIteration, ownerVars
  <1>5. ASSUME NEW next \in {"idle", "waiting"}, QueueStopRunning(next) PROVE Turns'
    BY <1>1, <1>5 DEF QueueStopRunning, QueueStop, executing
  <1>6. CASE Destroy
    BY <1>1, <1>6 DEF Destroy
  <1>7. CASE OwnerStep
    <2>1. CASE WakesUp
      BY <1>1, <2>1 DEF WakesUp, executing
    <2>2. CASE Execute(Owner)
      BY <1>0, <2>2, ExecuteTurns
    <2>3. CASE DestroyStops
      BY <1>1, <2>3 DEF DestroyStops, QueueStop, executing
    <2>4. CASE WaitAgain
      BY <1>1, <2>4 DEF WaitAgain, QueueStop, executing
    <2>5. CASE WaitEnds
      <3>1. \A x \in Executor : Busy(x)' <=> Busy(x)
        BY <2>5 DEF WaitEnds, executing, Busy
      <3> QED
        BY <1>0, <2>5, <3>1 DEF WaitEnds
    <2>6. CASE DestroyDrains
      <3>1. \A x \in Executor : x # Owner => (Busy(x)' <=> Busy(x))
        BY <1>0, <2>6, TakeFrame DEF DestroyDrains
      <3> QED
        BY <1>0, <2>6, <3>1 DEF DestroyDrains
    <2>7. CASE DestroyFrees
      <3>1. \A x \in Executor : Busy(x)' <=> Busy(x)
        BY <2>7 DEF DestroyFrees, executing, Busy
      <3> QED
        BY <1>0, <2>7, <3>1 DEF DestroyFrees
    <2> QED
      BY <1>7, <2>1, <2>2, <2>3, <2>4, <2>5, <2>6, <2>7 DEF OwnerStep
  <1>8. CASE UNCHANGED vars
    BY <1>1, <1>8 DEF vars
  <1> QED
    BY <1>2, <1>3, <1>4, <1>5, <1>6, <1>7, <1>8 DEF Next

-----------------------------------------------------------------------------
LEMMA IInvInit == Init => IInv
  <1> SUFFICES ASSUME Init PROVE IInv
    OBVIOUS
  <1>1. TypeOK
    BY Zenon DEF Init, TypeOK
  <1>2. \A x \in Executor : ~Busy(x)
    BY DEF Init, Busy
  <1>3. Turns
    BY <1>2 DEF Init, Turns, BusyWhere, OneLeft, Announced, KeptOut, InLoop, Executor
  <1> QED
    BY <1>1, <1>3 DEF IInv

LEMMA IInvStep == IInv /\ [Next]_vars => IInv'
  BY TypeStep, RunnerKeeps, OthersKeep DEF IInv

\* For any number of calls of RunAsync, commands and sockets: as long as RunAsync
\* is not called while a thread of an earlier call is left, the code of the loop
\* runs on one thread at a time, the thread in Destroy included.
THEOREM LoopHasOneThread == Spec => []OneThreadInLoop
  <1>1. IInv => OneThreadInLoop
    <2> SUFFICES ASSUME IInv, orderly, NEW a \in InLoopCode, NEW b \in InLoopCode
                 PROVE  a = b
      BY DEF IInv, OneThreadInLoop
    <2> QED
      BY DEF IInv, Turns, BusyWhere, OneLeft, KeptOut, InLoopCode, InLoop, Ended
  <1> QED
    BY IInvInit, IInvStep, <1>1, PTL DEF Spec

-----------------------------------------------------------------------------
\* A thread that dequeues holds what was in the queue, and loses nothing.
LEMMA TakeKeeps ==
    ASSUME TypeOK, DestroyHostsOnce, NEW x \in Executor, TakeBatch(x), batch[x] = {},
           owner' = owner
               \/ {owner, owner'} \cap {"idle", "waiting"} = {}
    PROVE  /\ DestroyHostsOnce'
           /\ \A c : Pending(c) => Pending(c)'
  <1>1. DestroyHostsOnce'
    BY Zenon DEF TypeOK, DestroyHostsOnce, TakeBatch
  <1>2. ASSUME NEW c, Pending(c) PROVE Pending(c)'
    BY <1>2 DEF TypeOK, Pending, TakeBatch
  <1> QED
    BY <1>1, <1>2

LEMMA ExecuteKeeps ==
    ASSUME TypeOK, DestroyHostsOnce, NEW x \in Executor, Execute(x)
    PROVE  /\ DestroyHostsOnce'
           /\ \A c : Pending(c) => Pending(c)'
           /\ executed \subseteq executed'
  <1> USE DEF Execute, ownerVars, usersVars
  <1>0. executed \subseteq executed'
    BY DEF ExecuteCommand, ExecuteDestroyHosts, DestroyHostsDrains, TakeBatch,
       HostsDestroyed
  <1>1. ASSUME NEW d \in Command, ExecuteCommand(x, d)
        PROVE  DestroyHostsOnce' /\ \A c : Pending(c) => Pending(c)'
    <2>1. DestroyHostsOnce'
      BY <1>1, LoopRunAssumption DEF TypeOK, DestroyHostsOnce, ExecuteCommand
    <2>2. ASSUME NEW c, Pending(c) PROVE Pending(c)'
      BY <1>1, <2>2 DEF TypeOK, Pending, ExecuteCommand
    <2> QED
      BY <2>1, <2>2
  <1>2. CASE ExecuteDestroyHosts(x)
    <2>1. DestroyHostsOnce'
      BY <1>2 DEF TypeOK, DestroyHostsOnce, ExecuteDestroyHosts
    <2>2. ASSUME NEW c, Pending(c) PROVE Pending(c)'
      BY <1>2, <2>2 DEF TypeOK, Pending, DestroyHostsOnce, ExecuteDestroyHosts
    <2> QED
      BY <1>0, <2>1, <2>2
  <1>3. CASE DestroyHostsDrains(x)
    BY <1>0, <1>3, TakeKeeps DEF DestroyHostsDrains
  <1>4. CASE HostsDestroyed(x)
    <2>1. DestroyHostsOnce'
      BY <1>4 DEF TypeOK, DestroyHostsOnce, HostsDestroyed
    <2>2. ASSUME NEW c, Pending(c) PROVE Pending(c)'
      BY <1>4, <2>2 DEF TypeOK, Pending, HostsDestroyed
    <2> QED
      BY <1>0, <2>1, <2>2
  <1> QED
    BY <1>0, <1>1, <1>2, <1>3, <1>4
\* What a step must not do to the commands: lose one, forget one that Destroy waits
\* for, or end Destroy before they are executed.
LEMMA KeptStep ==
    ASSUME Kept,
           \A c : Pending(c) => Pending(c)',
           executed \subseteq executed',
           \A c \in enqueued' : c \in enqueued \/ Pending(c)',
           \/ UNCHANGED expected
           \/ expected' = enqueued /\ Pending(DestroyHosts)',
           owner' \notin {"idle", "waiting"} =>
               \/ owner \notin {"idle", "waiting"}
               \/ expected' = enqueued /\ Pending(DestroyHosts)',
           orderly' => orderly,
           owner' = "freed" =>
               \/ owner = "freed" /\ UNCHANGED expected
               \/ orderly' => expected' \cup {DestroyHosts} \subseteq executed'
    PROVE  Kept'
  <1>1. (\A c \in enqueued : Pending(c))'
    BY DEF Kept
  <1>2. (owner \notin {"idle", "waiting"} =>
            \A c \in expected \cup {DestroyHosts} : Pending(c))'
    BY DEF Kept
  <1>3. DestroyExecutesAll'
    BY DEF Kept, DestroyExecutesAll
  <1> QED
    BY <1>1, <1>2, <1>3 DEF Kept

LEMMA KeepsAllStep ==
    ASSUME IInv, KeepsAll, [Next]_vars
    PROVE  KeepsAll'
  <1> USE DEF KeepsAll, IInv, executing, ownerVars, usersVars
  <1>0. /\ \A s \in Runner : s \in Executor
        /\ Owner \in Executor
    BY DEF Executor
  <1>1. ASSUME UNCHANGED <<commandQueue, batch, outer, executed, enqueued, expected>>,
               orderly' => orderly,
               \/ owner' = owner
               \/ owner' = "idle" /\ owner = "waiting"
               \/ owner' = "waiting" /\ owner = "idle"
               \/ /\ owner \notin {"idle", "waiting"}
                  /\ owner' \notin {"idle", "waiting", "freed"}
        PROVE  KeepsAll'
    <2>1. \A c : Pending(c) => Pending(c)'
      BY <1>1 DEF Pending
    <2>2. DestroyHostsOnce'
      BY <1>1 DEF DestroyHostsOnce
    <2>3. Kept'
      BY <1>1, <2>1, KeptStep
    <2> QED
      BY <2>2, <2>3
  <1>2. ASSUME NEW x \in Executor, TakeBatch(x), batch[x] = {}, UNCHANGED usersVars,
               UNCHANGED orderly, owner # "freed",
               \/ owner' = owner
               \/ owner \notin {"idle", "waiting"} /\ owner' = "drained"
        PROVE  KeepsAll'
    <2>1. DestroyHostsOnce' /\ \A c : Pending(c) => Pending(c)'
      BY <1>2, TakeKeeps
    <2>2. Kept'
      BY <1>2, <2>1, KeptStep DEF TakeBatch
    <2> QED
      BY <2>1, <2>2
  <1>3. ASSUME NEW x \in Executor, Execute(x) PROVE KeepsAll'
    <2>1. /\ DestroyHostsOnce'
          /\ \A c : Pending(c) => Pending(c)'
          /\ executed \subseteq executed'
      BY <1>3, ExecuteKeeps
    <2>2. Kept'
      BY <1>3, <2>1, KeptStep DEF Execute
    <2> QED
      BY <2>1, <2>2
  <1>4. ASSUME NEW d \in Command, NEW wake \in BOOLEAN, Enqueue(d, wake) PROVE KeepsAll'
    <2>1. DestroyHostsOnce'
      BY <1>4, LoopRunAssumption DEF Enqueue, DestroyHostsOnce
    <2>2. Pending(d)' /\ \A c : Pending(c) => Pending(c)'
      BY <1>4 DEF Enqueue, Pending
    <2>3. Kept'
      BY <1>4, <2>2, KeptStep DEF Enqueue
    <2> QED
      BY <2>1, <2>3
  <1>5. ASSUME NEW r \in Runner, RunnerStep(r) PROVE KeepsAll'
    <2>1. CASE RunnerStart(r) \/ RunnerTest(r) \/ RunnerLeave(r)
      BY <1>1, <2>1 DEF RunnerStart, RunnerTest, RunnerLeave
    <2>2. CASE LoopRunTop(r)
      BY <1>0, <1>1, <1>2, <2>2 DEF LoopRunTop, Alive, At, Busy
    <2>3. CASE LoopWakes(r) \/ RunnerTail(r)
      BY <1>0, <1>2, <2>3 DEF LoopWakes, RunnerTail, Alive, At, Busy
    <2>4. CASE Execute(r)
      BY <1>0, <1>3, <2>4
    <2> QED
      BY <1>5, <2>1, <2>2, <2>3, <2>4 DEF RunnerStep
  <1>6. ASSUME NEW r \in Runner, SocketCloses(r) PROVE KeepsAll'
    BY <1>1, <1>6 DEF SocketCloses
  <1>7. ASSUME NEW r \in Runner, RunAsync(r) PROVE KeepsAll'
    <2>1. orderly' => orderly
      BY <1>7, Zenon DEF RunAsync
    <2> QED
      BY <1>1, <1>7, <2>1 DEF RunAsync
  <1>8. CASE SingleLoopIteration
    BY <1>0, <1>2, <1>8 DEF SingleLoopIteration, Free, Busy
  <1>9. ASSUME NEW next \in {"idle", "waiting"}, QueueStopRunning(next) PROVE KeepsAll'
    BY <1>1, <1>9 DEF QueueStopRunning, QueueStop, Free
  <1>10. CASE Destroy
    <2>1. DestroyHostsOnce'
      BY <1>10 DEF Destroy, Free, DestroyHostsOnce
    <2>2. Pending(DestroyHosts)' /\ \A c : Pending(c) => Pending(c)'
      BY <1>10 DEF Destroy, Pending
    <2>3. Kept'
      BY <1>10, <2>2, KeptStep DEF Destroy
    <2> QED
      BY <2>1, <2>3
  <1>11. CASE OwnerStep
    <2>1. CASE WakesUp \/ DestroyStops \/ WaitAgain \/ WaitEnds
      BY <1>1, <2>1 DEF WakesUp, DestroyStops, WaitAgain, WaitEnds, QueueStop, Free
    <2>2. CASE Execute(Owner)
      BY <1>0, <1>3, <2>2
    <2>3. CASE DestroyDrains
      BY <1>0, <1>2, <2>3 DEF DestroyDrains, Free, Busy
    <2>4. CASE DestroyFrees
      <3>1. \A c : Pending(c) => Pending(c)'
        BY <2>4 DEF DestroyFrees, Pending
      <3>2. DestroyHostsOnce'
        BY <2>4 DEF DestroyFrees, Free, DestroyHostsOnce
      <3>3. ASSUME orderly PROVE expected \cup {DestroyHosts} \subseteq executed
        <4>1. \A x \in Executor : batch[x] = {} /\ outer[x] = {}
          BY <2>4, <3>3 DEF DestroyFrees, Free, Busy, Turns, KeptOut, Executor
        <4> QED
          BY <2>4, <4>1 DEF DestroyFrees, Free, Kept, Pending
      <3>4. Kept'
        BY <2>4, <3>1, <3>3, KeptStep DEF DestroyFrees, Free
      <3> QED
        BY <3>2, <3>4
    <2> QED
      BY <1>11, <2>1, <2>2, <2>3, <2>4 DEF OwnerStep
  <1>12. CASE UNCHANGED vars
    BY <1>1, <1>12 DEF vars
  <1> QED
    BY <1>4, <1>5, <1>6, <1>7, <1>8, <1>9, <1>10, <1>11, <1>12 DEF Next

\* For any number of calls of RunAsync, commands and sockets: as long as RunAsync is
\* not called while a thread of an earlier call is left, Destroy frees the loop only
\* after everything that was enqueued before it, and the destruction of the hosts,
\* has been executed, whichever thread had dequeued it.
THEOREM DestroyLosesNothing == Spec => []DestroyExecutesAll
  <1>1. Init => KeepsAll
    BY DEF Init, KeepsAll, DestroyHostsOnce, Kept, DestroyExecutesAll
  <1>2. KeepsAll => DestroyExecutesAll
    BY DEF KeepsAll, Kept
  <1>3. IInv /\ KeepsAll /\ [Next]_vars => KeepsAll'
    BY KeepsAllStep
  <1> QED
    BY IInvInit, IInvStep, <1>1, <1>2, <1>3, PTL DEF Spec
=============================================================================
