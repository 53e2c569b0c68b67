# A TLA+ model of ICon7

ICon7 is an asynchronous RPC library over uSockets. This directory specifies its
run-time machinery in TLA+: the tables, queues, buffers and protocols that
several threads and the network drive in orders no test enumerates. TLC checks
the specifications on small instances, and TLAPS proves the central ones for
every instance. Paths below are relative to the root of the repository.

## The system

Threads. User threads call `Peer::Send`, `RPCEnvironment::Call`, `Host::Connect`
and the like; these only enqueue commands. Each **Loop** has one thread that
executes the commands, runs the callbacks of uSockets, flushes peers and checks
timeouts. **Execution queues** are further threads that run functions and
callbacks registered with one.

| Part | Code | Module |
|---|---|---|
| Peer table: ids, versions, free list, offsets per host | `src/PeerManager.cpp` | `PeerManager`, abstract `PeerRegistry` |
| The same table seen by other threads | `src/PeerManager.cpp`, `src/Loop.cpp`, `src/PeerHandle.cpp` | `PeerLookup` |
| Peers to flush, and the walk over them | `src/PeersToFlush.cpp`, `src/Loop.cpp` | `PeerManager` |
| Send path of a TCP peer | `src/Peer.cpp`, `src/PeerUStcp.cpp` | `PeerSend`, abstract `ByteStream` |
| Hosts and the life of connections | `src/Host.cpp`, `src/HostUStcp.cpp`, `src/Command.cpp` | `HostLifecycle` (over `PeerRegistry`) |
| The thread of a loop: start, stop, destruction | `src/Loop.cpp`, `src/LoopUS.cpp` | `LoopRun` |
| Command queues and their threads | `src/CommandExecutionQueue.cpp`, `Command.hpp` | `CommandQueue` |
| Buffers of commands | `src/CommandsBuffer.cpp`, `CommandsBufferHandler` | `CommandsBuffer`, used by `CommandQueue` |
| Calls with a return | `RPCEnvironment`, `OnReturnCallback`, `MessageConverter.hpp` | `RpcCalls` (over first-in first-out streams) |
| Registered functions and dispatch | `RPCEnvironment`, `MessageConverter.hpp` | `RpcRegistry` |
| Index of the loops, frames batched per loop | `src/LoopAutoIndex.cpp`, `MapLoop.hpp`, `src/MultiBatchWriter.cpp` | `LoopIndex` |
| Frame headers | `src/FramingProtocol.cpp` | `FramingProtocol` |
| Cutting the stream into frames | `src/FrameDecoder.cpp` | `FrameDecoder` |
| Buffers of bytes | `ByteBuffer.hpp`, `src/ByteBuffer.cpp` | `ByteBuffer` |
| Hash map of the pending calls | `include/icon7/FlatHashMap.hpp` | `FlatHashMap`, abstract `KeyValueMap` |
| Dates and the text of timestamps | `src/Time.cpp` | `Calendar` |

How they fit together: a frame is built by `FramingProtocol`, queued and written
by `PeerSend`, which implements the `ByteStream` that `FrameDecoder` cuts into
frames again; `RpcCalls` uses the resulting lossless, ordered channel.
`HostLifecycle` uses the abstract `PeerRegistry`, which `PeerManager` is proved
to implement; `RpcCalls` uses a plain function for the pending calls, which
`FlatHashMap` is checked to implement. `PeerManager` takes an operation on the
table for one step; `PeerLookup` takes the same operations apart and shows that
the lock makes this sound. `CommandQueue` uses the layout of `CommandsBuffer` for
the buffers its producers fill. `LoopRun` executes commands, and `HostLifecycle`
is what those that concern hosts do.

## The modules

**PeerManager.** Variables are the vectors of the classes of the same name, as
sequences (indices are one higher, the code's -1 is 0). `Alloc`, `Release` and
`Insert` are calls of the loop thread; `FlushBegin` and `FlushVisit` are the loop
of `FlushPendingPeers`, one step per iteration, during which the visited peer
may leave the set. History variables remember the handle every peer was given
and how often the version of its slot has wrapped since.

**PeerSend.** `UserSend` and `UserDisconnect` belong to any thread. The loop
thread executes commands and runs `_InternalOnWritable`, split at every
`us_socket_write`, which takes any number of the bytes offered. Bytes are
numbered in the order they are accepted, so the wire must carry 1, 2, 3, ...

**HostLifecycle.** One action for every callback of uSockets (`OnOpenServer`,
`OnOpenClient`, `OnConnectError`, `OnEnd`, `OnClose`), every command and every
stage of `CommandDestroyHosts`. Handlers that go on to close further sockets
keep what is left to do in `work`. The queue is ordered per thread only, and
commands are dequeued in batches, as `moodycamel::ConcurrentQueue` does. A
`Connect` without a callback either leaves nobody to answer or ends the process
(`ExecuteConnectBare`), because `_InternalConnect` writes through the callback it
does not have. Flags and table are compared after every handler of the loop
thread, not between its assignments.

**RpcCalls.** The caller's `CommandCallSend`, the id generator, the pending
callbacks, the messages both ways, execution on the loop thread or by a worker,
replies, timeouts and the closing of either end. A worker replies through
`PeerData::Send` on its own thread; of this data race the model has three
outcomes: sent, lost, and the end of the callee's process.

**FramingProtocol**, **FrameDecoder.** The header arithmetic byte by byte, and
one iteration of the loop of `PushData` per step. In the decoder a byte is its
position in the stream, and what the bytes at a position would mean as a header
is an arbitrary constant function, so that a decoder that loses its place reads
nonsense.

**PeerLookup.** The loop thread and any number of readers, one step per access:
lock, the test of the size, the read of the slot, of the version, of the peer,
unlock; insertion and removal likewise.

**LoopRun.** The flags `RUNNING` and `QUEUE_STOP` with every access to them a step
of its own, the threads that `RunAsync` starts, where in `us_loop_run` they are,
the wake-up, the timer and the open sockets (uSockets ends its loop when there
are none); the owner in `QueueStopRunning`, `WaitStopRunning` and `Destroy`, which
goes on to execute commands on its own thread; iterations by hand. Whoever
executes commands first takes them out of the queue (`batch`) and then executes
them one by one; `CommandDestroyHosts` drains the queue while the batch it belongs
to waits (`outer`).

**CommandQueue**, **CommandsBuffer.** Producers enqueue single commands,
coroutines that schedule themselves again, and commands laid out in a buffer by
size and alignment, with the entries that find them at its other end. A block
lies at a multiple of 16 bytes, which is what `MemoryPool::Allocate` asserts.
Workers run `ExecuteLoop`, the owner starts, stops and destroys; a bulk dequeue
visits the sub-queue of every producing thread once, in any order, and takes what
there is room for. Every handle is in one place from its creation to its release.
`await_suspend` is two steps, the enqueueing of the coroutine and the assignments
behind it; `touched` notes that these came after the coroutine was resumed, and
the other properties speak of behaviours in which they did not.

**RpcRegistry.** The two tables of functions, the three ways a message may be
sent (loop, commands buffer, batch writer), and its execution at the other end,
at once or in a queue, from which it may find its converter deleted. A batch
writer whose map is moved sends what it has pending once more (`WriterMoves`).

**LoopIndex.** `NewId`, `ReleaseId` and `GetLoop` of the table of loops, the map
of a `MultiBatchWriter` with the copies a growing vector makes of its batches,
and their commands in the loops.

**ByteBuffer.** Blocks with pieces of text at addresses, writable objects that
own one and grow at both ends, readable ones that share it by a count in a header
that is written in front of the data.

**Calendar.** The arithmetic of `YMDFromTimestamp` and `TimestampFromYMD`, and the
text form with its groups of digits, because that reading it gives the time back is
one of the things checked; the state walks along the calendar day by day and is
compared with them.

**FlatHashMap.** Buckets, chains, swap-removal and rehash, with the hash as a
constant function.

Assumptions about the environment: uSockets calls `on_close` from within
`us_socket_close`, never twice for one socket, and not after a connect error; a
host is commanded by the thread that destroys it (`Owner`), before it does; a
command that another thread gives a host may lie behind `CommandDestroyHosts` in
the same batch, and the code does nothing about it; `onConnect` and
`onDisconnect` do not call `DisconnectAll` themselves. RPC functions are
registered and removed by the thread that receives, or while nobody receives; the
tables have no lock. A `MultiBatchWriter` is flushed before a loop it has frames
for goes. Where the code needs its caller to keep an order of calls, the model
does not forbid the others but notes them (`orderly` in `LoopRun` and
`CommandQueue`), and the properties that need the order say so.

## What TLC checks

| Run | Instance | Shows |
|---|---|---|
| `peer_manager` | 5 peers, 2 hosts, 3 versions | stale handles resolve to nothing (`HandleSafety`), free list, offsets and flush set agree with the table (`TablesExact`), the flush walk skips nobody (`FlushVisitsAll`), `PeerRegistry` is implemented |
| `peer_send` | 2 threads, 2 commands each, frames of 1, 2 and 5 bytes, buffer of 3 | the wire is a prefix of what was accepted (`StreamIntact`), pending data is scheduled, the "more follows" hint is exact, `ByteStream` is implemented, accepted bytes are sent unless the peer disconnects (`AcceptedIsSent`) |
| `host_lifecycle` | 3 connections, 2 hosts, 2 threads, 3 commands each | table and sockets agree and no fatal path is taken (`TableMatchesSockets`), callbacks come in pairs, flags tell the truth, a destroyed host is not used |
| `host_lifecycle_live` | 2 connections, 2 commands each | connects with a callback are answered and settle (`ConnectAnswered`), `Loop::Destroy` completes |
| `rpc_calls` | 3 calls, 2 return ids | a callback is in one place, runs once, with its own return; every call is answered |
| `command_queue` | 1 producer, 2 workers, 2 commands, buffers in a block of 64 bytes at address 48 | buffers are laid out soundly, a handle is owned once and in the end released, order per producer, one loop at a time, stops complete, everything enqueued is executed once the producers pause |
| `loop_run` | 2 calls of `RunAsync`, 3 commands, 2 of them open sockets | one thread at a time in the loop, `Destroy` executes all that came before it, the batch of a thread that stops included, commands are executed without a wake-up too, stops complete |
| `parts` | eight parts that work on their own, see below | `HeaderRoundTrip`, `DecodesStream`, `NamesResolve`, `DispatchedOnce`, `ChainsPartition`, `ImplementsMap`, `OwnersExact`, `BytesKept`, `IndexResolves`, `BatchDelivers`, `LookupExact`, `TimestampsExact` |
| `rpc_worker_reply` | as `rpc_calls` | *violated*: `PeerData` is used outside the loop thread |
| `connect_error_assert` | as `host_lifecycle_live` | *violated*: the assertion in `on_connect_error` |
| `connect_error_flag` | as `host_lifecycle_live` | *violated*: `HadConnectError()` after a failed attempt |
| `schedule_multithreaded` | as `command_queue` | *violated*: a coroutine that awaits `Schedule` is left alone once it is enqueued |

`MCParts` puts the instances of eight modules that share no state side by side. A
variable `part`, chosen initially and constant, says whose actions a behaviour
takes; so the states of the instances add up instead of multiplying.

| Part | Instance | Shows |
|---|---|---|
| `FramingProtocol` | sizes around every power of two to 2^28 | headers are read as written |
| `FrameDecoder` | 32 bytes, headers of every size, all chunkings | frames come out whole, in order and at once |
| `RpcRegistry` | a string and 2 numbers, 2 functions, 3 messages | a name finds the function it stands for; a message is executed once, or twice if the writer's map moved while it was pending, by the function its name stood for on arrival, with arguments that fit |
| `FlatHashMap` | 4 keys, 2 values, chains of 3, a rehash | chains partition the pairs, `KeyValueMap` is implemented |
| `ByteBuffer` | 2 writable and 2 readable objects, 2 blocks, up to 3 pieces of 7 and 40 bytes | a block lives exactly as long as something refers to it; growth, headers and copies keep the bytes |
| `LoopIndex` | 3 loops, 3 frames | an index finds its own loop or none; batched frames reach their loop in order, and once unless the map was moved with frames pending |
| `PeerLookup` | 2 readers, 3 peers | a lookup under the lock finds the peer of its handle or nothing |
| `Calendar` | 1600 days each from 1970, from 1996 and from 2098, all numbers of digits | dates and timestamps agree with the calendar; reading the text gives the time back |

Bounds. Sizes were chosen so that every special case of the code occurs: a slot
is reused often enough for its version to wrap (three versions for five peers);
frames lie below the direct-write threshold, between it and the buffer, and
above the buffer; there are fewer return ids than calls; the map rehashes with a
full chain; a commands buffer is filled exactly, with and without padding for
alignment; a second thread is started while the first is still on its way in or
out; a piece of 7 bytes fits in front of the data of a buffer once, one of 40
never, and three pieces make a buffer with data in it move to a larger block; the walks cross the end of a century that is a leap year and of one that
is not. `MaxCommands` bounds what user threads do; the rest of the state is
bounded by the numbers of peers, calls, keys and bytes. Deadlock is not checked
where these bounds let a behaviour end.

Fairness is, first, weak fairness of the steps of the loop thread: the loop blocks in the event
loop, but every `EnqueueCommand` wakes it up and a repeating timer runs its
iteration regardless (`src/LoopUS.cpp`). `peer_send` also assumes that a
socket offered bytes again and again sometimes takes some (strong fairness) and
that the connection opens or closes, `rpc_calls` that callbacks expire and
that the random choice of `CheckForTimeoutFunctionCalls` reaches every one,
`host_lifecycle_live` that a connection attempt succeeds or fails at some time.
`loop_run` assumes the steps of a started thread, which in the poll are due to the
timer at the latest, and those of an owner inside `WaitStopRunning` or `Destroy`.
`command_queue` assumes the same of its workers and its owner, and that `Execute`
returns in the end (strong fairness), because every bulk counts against the number
of commands or against the 512 that it may fall short by. Which sub-queue a bulk
dequeue takes from first is left open; a producer that never pauses may keep it
from the others, so `EnqueuedIsExecuted` is about a time when they pause. Threads that only enqueue, the peer at the
other end and the workers of `rpc_calls` are never assumed fair.

### Findings

* `src/HostUStcp.cpp:284` asserts that a peer whose connection attempt failed has
  no handle; `_InternalConnect` has always given it one.
* `BIT_ERROR_CONNECT` is never set, so `HadConnectError()`, which the tests
  consult, is always false. A failed attempt is seen as `IsClosed()`.
* Functions with an execution queue reply through `PeerData::Send` on the worker
  thread, while `PeerData` is documented as in-loop only.
* `Schedule` is one of the "multithreaded safe functions" (`Loop.hpp:42`), but what
  it returns writes to itself, in the frame of the coroutine, after it has enqueued
  the coroutine (`src/CommandExecutionQueue.cpp:41-43`). Called on a thread that is
  not the one that executes the queue, it may write to a coroutine that goes on or
  has ended.

By reading, without a run: the C fragment in `README.md:104-108` takes
`size_masks[bytesOfSize-1]` although the two bits already hold the header size
less one; the text around it and the code agree with each other.

What the models state as it is, because no text of the repository says otherwise:

* `LoopAutoIndexImpl::NewId` does not stop at the free slot it finds: it writes the
  loop into all of them and still appends a new one, so ids are never reused
  (`NewId` in `LoopIndex`). Versions keep old indices apart all the same.
* A `MultiBatchWriter` whose map grows past its capacity with frames pending sends
  those frames twice: `SendBatch` is copied, and its destructor flushes
  (`MapAccess`). `BatchDelivers` says that nothing else duplicates a frame.
* `RemoveRegisteredMessage` of a number clears the entry before it reads the
  converter to delete, which therefore leaks; of a string it deletes a converter
  that a queued `ExecuteRPC` may still use (`DispatchedOnce`).
* A new execution thread overwrites a stop request that came before it stored
  `IS_RUNNING`. This is one of the orders of calls that `orderly` excludes.
* `Connect` without a callback writes its peer through a null pointer
  (`src/HostUStcp.cpp:131`).
* Commands of an alignment above 16 are aligned within a commands buffer, but the
  buffer itself is only aligned to 16.

And two that do disagree with a text: `Loop.hpp:42` lists both functions among the
"multithreaded safe functions".

* `RunAsync` clears `QUEUE_STOP` and `RUNNING`: called again before the last thread
  ended, it lets two threads into the loop, and `Destroy` no longer waits for the
  first, which may hold a batch of commands. `OneThreadInLoop` and
  `DestroyExecutesAll` fail without `orderly`.
* `GetLocalPeerData` takes no lock; without the lock `LookupExact` fails.

## What TLAPS proves

All for every value of the constants, under the named assumptions of the modules
(`PeerManagerAssumption` and so on, which only give the constants their types).

* **PeerManagerProofs**: `HandlesAreSafe`, `TablesAgree`, `FlushVisitsEveryPeer`.
  None of the invariants is inductive alone. `IInv` joins them with what ties a
  handle to its slot: every issued handle is at most as new as its slot (epoch
  and version, ordered), a live peer has exactly the slot's version, ids on the
  free list are the empty slots, and while a flush is in progress the unvisited
  ids are the ones below the loop index. There is one lemma per action, over
  lemmas on swap-removal and on the sparse set.
* **PeerRegistryProofs**: `TableImplementsRegistry`, the refinement of `PeerRegistry`
  by `PeerManager`. From `IInv` the lemma `ViewsAgree` reads what the hosts
  enumerate, what the handles lead to and what is to be flushed off the handles of
  the live peers; `Alloc`, `Release` and `Insert` are then one step of the registry
  each, and an iteration of the flush is one or a stutter.
* **FramingProtocolProofs**: `HeadersAreRead`, for all sizes from 1 to 2^28. The
  core is the lemma `WrittenIsRead`, by cases on the size of the header, from the
  decomposition of a number into digits (`Digits`).
* **FrameDecoderProofs**: `DecoderCorrect`, for every stream and every chunking.
  `IInv` says that the buffer is the part of the stream after the frames handed
  out and that `headerSize` and `frameSize` are the ones of its first byte as soon
  as they are known.
* **PeerLookupProofs**: `LookupsAreExact`, for any number of readers and peers. The
  inductive invariant excludes a writer while a reader holds the lock and says, for
  every step of a reader, what it has established so far: the slot exists, holds a
  peer, that peer has the handle that is looked up.
* **LoopRunProofs**: `LoopHasOneThread`, for any number of `RunAsync` calls. The
  invariant says that of orderly calls at most one thread has not ended (`OneLeft`);
  that such a thread past its start shows `RUNNING` (`Announced`); that, once the
  owner is past its wait, `QUEUE_STOP` is set, so that a thread that comes late finds
  it (`KeptOut`); and that a thread has a batch only where it may (`BusyWhere`).
  `DestroyLosesNothing`: the invariant `Kept` says that what was enqueued is executed,
  in the queue or in a batch, whoever calls `RunAsync` when; `DestroyHostsOnce` that
  `CommandDestroyHosts` is one of these once `Destroy` has begun and is never in two
  places. When the loop is freed the queue is empty, and by the first theorem, which
  needs `orderly`, no thread is left with a batch.
* **CommandQueueProofs**: `BuffersAreSound`, for all sizes of commands, all blocks
  of the memory pool and all alignments the code allows: the offset of the next
  command is aligned and past the last one, and a command is only placed if its end
  leaves room for one more entry. Its address is then aligned as well, up to the 16
  bytes that the block is (`AlignedInBlock`). `LoopsTakeTurns`, for any number of execution threads:
  the invariant `TInv` says that at most one thread is in its loop and one on its
  way to it; that `IS_RUNNING` stands for the one in the loop and `QUEUE_STOP` is
  set when it has to leave or another is on its way; that a thread past its wait
  finds nobody in the loop; and that nobody starts while the owner waits. It holds
  as long as the owner's calls are `orderly`.

Only model-checked: the liveness properties, and the refinements
`ImplementsByteStream` and `ImplementsMap`; all properties of `PeerSend`,
`HostLifecycle`, `RpcCalls`, `RpcRegistry`, `FlatHashMap`, `ByteBuffer`, `LoopIndex`
and `Calendar`; `OwnedOnce` and `InOrder` of `CommandQueue`. Liveness and the
recursive functions of `Calendar` and `ByteBuffer` are beyond the prover.

## Not modelled

* TLS happens inside uSockets. The experimental TCP+UDP transport is compiled only
  with `ICON7_ENBALE_EXPERIMENTAL_UDP`, which no build defines; there are no other
  kinds of hosts and peers.
* Serialization of arguments is the bitscpp library; arguments fit or do not.
* Memory pools are a front of rpmalloc: `ByteBuffer` and `CommandsBuffer` use a
  block of at least the size they ask for, at a multiple of 16 bytes. Statistics are counters that no decision reads.
* `CreateHost` while the loop runs on another thread, and unlocked use of the RPC
  tables, are data races on containers of the standard library: what they do to a
  concurrent iteration is not defined.
* `Set` and `Get` of `MapLoop`, `FlatCuckooHashMap` and `MapPeerHandle` are not
  instantiated; `Rehash` to a smaller size is not called.
* Logging, clocks and sleeping, DNS, hashing and random numbers are library calls.
* User callbacks that call back into the host they are called from.
