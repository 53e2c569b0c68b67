--------------------------- MODULE HostLifecycle ---------------------------
(***************************************************************************)
(* The life of the peers of the hosts of one Loop: connecting, accepting,  *)
(* on_open, on_connect_error, on_end, on_close, the Disconnect and Host    *)
(* commands, and Loop::Destroy (src/Host.cpp, src/HostUStcp.cpp,           *)
(* src/Command.cpp, src/Peer.cpp, src/PeerUStcp.cpp, src/Loop.cpp).        *)
(*                                                                         *)
(* The peer table is the abstract PeerRegistry, which PeerManager          *)
(* implements; a handle is stale exactly when its peer is not in resolves. *)
(* A handler of the loop thread is one step, except for the two that go on *)
(* closing sockets (DisconnectAll over its copy of the peers, on_end):     *)
(* what they still have to do is in work, and until it is done the loop    *)
(* thread does nothing else.  User threads interleave with all steps.      *)
(*                                                                         *)
(* User code keeps to this: host commands come from the thread that later  *)
(* calls Loop::Destroy (Owner), handles are used by every thread, and      *)
(* onConnect and onDisconnect do not call DisconnectAll directly.          *)
(*                                                                         *)
(* uSockets is external: us_socket_close runs on_close at once, for a      *)
(* connecting socket too, and does nothing for a closed one; a failed      *)
(* connection attempt runs on_connect_error and is closed without          *)
(* on_close.                                                               *)
(***************************************************************************)
EXTENDS Integers, FiniteSets, SequencesExt

CONSTANTS
    PeerData,       \* the PeerData objects the hosts ever create
    Host,
    HostOf,         \* PeerData::host
    Thread,         \* user threads
    Owner,          \* the one of them that owns the hosts and the loop
    NoHost,
    MaxCommands     \* bound: commands every thread enqueues

ASSUME HostLifecycleAssumption ==
    /\ HostOf \in [PeerData -> Host]
    /\ Owner \in Thread
    /\ NoHost \notin Host
    /\ IsFiniteSet(Thread)
    /\ MaxCommands \in Nat

VARIABLES
    fresh, members, resolves,   \* the peer table
    socket,         \* state of the us_socket_t made for a peer
    ext,            \* us_socket_ext of that socket points to the peer
    holds,          \* Peer::socket is not null
    peerFlags,
    up,             \* hosts with a socketContext, Loop::hosts
    listening,      \* hosts with listenSockets
    commands,       \* what each thread has in the loop's commandQueue
    issued,         \* how many commands each thread enqueued so far
    batch,          \* commands dequeued by Execute and not executed yet
    outer,          \* batch of the Execute that runs CommandDestroyHosts
    phase,          \* the loop thread: "running", or inside
                    \* CommandDestroyHosts "draining" or "destroying"; or
                    \* "crashed", with the process
    current,        \* the host in _InternalDestroy, or NoHost
    work,           \* calls the current handler still has to make
    \* History: callback runs per peer, connection attempts that failed,
    \* connect requests with a callback made and answered, LOG_FATAL reached.
    onConnects,
    onDisconnects,
    failed,
    answers,
    fatal

table    == <<fresh, members, resolves>>
sockets  == <<socket, ext, holds, peerFlags>>
hosts    == <<up, listening>>
users    == <<commands, issued>>
thread   == <<batch, outer, phase, current, work>>
history  == <<onConnects, onDisconnects, failed, answers, fatal>>
vars     == <<table, sockets, hosts, users, thread, history>>

Registry == INSTANCE PeerRegistry WITH pending <- {}

Idle == work = {} /\ current = NoHost /\ phase # "crashed"

IsOpen(p) == socket[p] \in {"connecting", "open"}

-----------------------------------------------------------------------------
(* User threads.                                                           *)

\* A destroy command is the last the owner issues.
Enqueue(t, command) ==
    /\ phase # "crashed"
    /\ issued[t] < MaxCommands
    /\ issued' = [issued EXCEPT ![t] =
                    IF command.op = "destroy" THEN MaxCommands ELSE @ + 1]
    /\ commands' = [commands EXCEPT ![t] = Append(@, command)]

\* Host::Connect with a callback, as by ConnectPromise, or with none,
\* ListenOnPort, StopListening and DisconnectAllAsync
UserHostCommand(op, h) ==
    /\ Enqueue(Owner, [op |-> op, host |-> h])
    /\ answers' = IF op = "connect" THEN [answers EXCEPT !.asked = @ + 1]
                                    ELSE answers
    /\ UNCHANGED <<table, sockets, hosts, thread, onConnects, onDisconnects,
                   failed, fatal>>

\* Loop::Destroy
UserDestroy ==
    /\ Enqueue(Owner, [op |-> "destroy"])
    /\ UNCHANGED <<table, sockets, hosts, thread, history>>

\* Peer::Disconnect, which sets the flag, and the static one of a handle; the
\* handle was given out by onConnected or onConnect and may be stale by now
UserDisconnect(t, p, byHandle) ==
    /\ p \notin fresh
    /\ Enqueue(t, [op |-> "disconnect", peer |-> p])
    /\ peerFlags' = IF byHandle
                    THEN peerFlags
                    ELSE [peerFlags EXCEPT ![p] = @ \cup {"DISCONNECTING"}]
    /\ UNCHANGED <<table, socket, ext, holds, hosts, thread, history>>

-----------------------------------------------------------------------------
(* Closing.                                                                *)

Flag(f, p, bits) == [f EXCEPT ![p] = @ \cup bits]

\* _InternalClearInternalDataOnClose, the flags it sets included in bits
ClearInternalDataOnClose(p, bits) ==
    /\ peerFlags' = Flag(peerFlags, p, bits \cup {"CLOSED"})
    /\ ext' = [ext EXCEPT ![p] = FALSE]
    /\ holds' = [holds EXCEPT ![p] = FALSE]

\* Host::_Internal_on_close_Finish
OnCloseFinish(p) ==
    IF p \in resolves
    THEN /\ onDisconnects' = [onDisconnects EXCEPT ![p] = @ + 1]
         /\ Registry!Unregister(p)
         /\ ClearInternalDataOnClose(p, {"DISCONNECTING"})
         /\ UNCHANGED fatal
    ELSE /\ fatal' = TRUE
         /\ UNCHANGED <<table, ext, holds, peerFlags, onDisconnects>>

\* us_socket_close, and the on_close that it runs
UsSocketClose(p) ==
    /\ socket' = [socket EXCEPT ![p] = "closed"]
    /\ IF IsOpen(p) /\ ext[p]
       THEN OnCloseFinish(p)
       ELSE UNCHANGED <<table, ext, holds, peerFlags, onDisconnects, fatal>>

\* Peer::_InternalDisconnect of a peer found in the table, which has a
\* sharedPeer: its flag, and us_socket_close of its socket
InternalDisconnect(p) ==
    IF holds[p]
    THEN UsSocketClose(p)
    ELSE /\ peerFlags' = Flag(peerFlags, p, {"DISCONNECTING", "CLOSED"})
         /\ UNCHANGED <<table, socket, ext, holds, onDisconnects, fatal>>

\* DisconnectAll at one peer of its copy
DisconnectNext(p) ==
    /\ [call |-> "_InternalDisconnect", peer |-> p] \in work
    /\ work' = work \ {[call |-> "_InternalDisconnect", peer |-> p]}
    /\ InternalDisconnect(p)
    /\ UNCHANGED <<hosts, users, batch, outer, phase, current, onConnects,
                   failed, answers>>

\* The us_socket_close at the end of on_end
CloseNext(p) ==
    /\ [call |-> "us_socket_close", peer |-> p] \in work
    /\ work' = work \ {[call |-> "us_socket_close", peer |-> p]}
    /\ UsSocketClose(p)
    /\ UNCHANGED <<hosts, users, batch, outer, phase, current, onConnects,
                   failed, answers>>

DisconnectAll(h) ==
    work' = {[call |-> "_InternalDisconnect", peer |-> p] : p \in members[h]}

-----------------------------------------------------------------------------
(* Socket callbacks.  The event loop runs none inside CommandDestroyHosts.  *)

InEventLoop == Idle /\ phase = "running"

\* MakePeer, and us_socket_ext of the new socket
MakePeer(p, state) ==
    /\ Registry!Register(p)
    /\ socket' = [socket EXCEPT ![p] = state]
    /\ ext' = [ext EXCEPT ![p] = TRUE]
    /\ holds' = [holds EXCEPT ![p] = TRUE]

\* on_open of an accepted connection
OnOpenServer(p) ==
    /\ InEventLoop
    /\ HostOf[p] \in listening
    /\ MakePeer(p, "open")
    /\ onConnects' = [onConnects EXCEPT ![p] = @ + 1]
    /\ peerFlags' = Flag(peerFlags, p, {"READY"})
    /\ UNCHANGED <<hosts, users, thread, onDisconnects, failed, answers, fatal>>

\* on_open of a connection that was made: on_open_Finish of the peer that
\* us_socket_ext points to
OnOpenClient(p) ==
    /\ InEventLoop
    /\ socket[p] = "connecting"
    /\ socket' = [socket EXCEPT ![p] = "open"]
    /\ onConnects' = [onConnects EXCEPT ![p] = @ + 1]
    /\ IF p \in resolves
       THEN peerFlags' = Flag(peerFlags, p, {"READY"}) /\ UNCHANGED fatal
       ELSE fatal' = TRUE /\ UNCHANGED peerFlags
    /\ UNCHANGED <<table, ext, holds, hosts, users, thread, onDisconnects,
                   failed, answers>>

\* Mutant of OnConnectError: the peer is not released.
OnConnectErrorKeepPeer(p) ==
    /\ InEventLoop
    /\ socket[p] = "connecting"
    /\ socket' = [socket EXCEPT ![p] = "closed"]
    /\ failed' = failed \cup {p}
    /\ UNCHANGED <<table, ext, holds, peerFlags, hosts, users, thread,
                   onConnects, onDisconnects, answers, fatal>>

\* Mutant of OnConnectError: the peer is released without its flag.
OnConnectErrorNoFlag(p) ==
    /\ InEventLoop
    /\ socket[p] = "connecting"
    /\ socket' = [socket EXCEPT ![p] = "closed"]
    /\ failed' = failed \cup {p}
    /\ Registry!Unregister(p)
    /\ ext' = [ext EXCEPT ![p] = FALSE]
    /\ holds' = [holds EXCEPT ![p] = FALSE]
    /\ UNCHANGED <<peerFlags, hosts, users, thread, onConnects, onDisconnects,
                   answers, fatal>>

\* on_connect_error, past its assert, and the close that follows it
OnConnectError(p) ==
    /\ InEventLoop
    /\ socket[p] = "connecting"
    /\ socket' = [socket EXCEPT ![p] = "closed"]
    /\ failed' = failed \cup {p}
    /\ IF ext[p]
       THEN Registry!Unregister(p) /\ ClearInternalDataOnClose(p, {})
       ELSE UNCHANGED <<table, ext, holds, peerFlags>>
    /\ UNCHANGED <<hosts, users, thread, onConnects, onDisconnects, answers, fatal>>

\* Mutant of OnEnd: it runs the callback and leaves the rest to on_close.
OnEndNotifyOnly(p) ==
    /\ InEventLoop
    /\ socket[p] = "open" /\ ext[p]
    /\ onDisconnects' = [onDisconnects EXCEPT ![p] = @ + 1]
    /\ work' = {[call |-> "us_socket_close", peer |-> p]}
    /\ UNCHANGED <<table, sockets, hosts, users, batch, outer, phase, current,
                   onConnects, failed, answers, fatal>>

\* on_end: the other side closed; it goes on with us_socket_close
OnEnd(p) ==
    /\ InEventLoop
    /\ socket[p] = "open" /\ ext[p]
    /\ OnCloseFinish(p)
    /\ work' = {[call |-> "us_socket_close", peer |-> p]}
    /\ UNCHANGED <<socket, hosts, users, batch, outer, phase, current,
                   onConnects, failed, answers>>

\* on_close of a connection that broke
OnClose(p) ==
    /\ InEventLoop
    /\ socket[p] = "open"
    /\ UsSocketClose(p)
    /\ UNCHANGED <<hosts, users, thread, onConnects, failed, answers>>

-----------------------------------------------------------------------------
(* Commands.                                                               *)

\* A bulk dequeue takes a prefix of the commands of every thread, in any
\* order of the threads; nothing is dequeued while hosts are destroyed
TryDequeueBulk ==
    /\ Idle
    /\ phase # "destroying"
    /\ batch = <<>>
    /\ \E order \in SetToSeqs(Thread),
          n \in [Thread -> 0 .. MaxCommands] :
          /\ \A t \in Thread : n[t] <= Len(commands[t])
          /\ \E t \in Thread : n[t] > 0
          /\ batch' = FlattenSeq([i \in DOMAIN order |->
                         SubSeq(commands[order[i]], 1, n[order[i]])])
          /\ commands' = [t \in Thread |->
                SubSeq(commands[t], n[t] + 1, Len(commands[t]))]
    /\ UNCHANGED <<table, sockets, hosts, issued, outer, phase, current, work,
                   history>>

Executes(op) ==
    /\ Idle
    /\ batch # <<>>
    /\ Head(batch).op = op
    /\ UNCHANGED users

\* us_socket_context_connect and MakePeer: the socket could be created, or not
ConnectSocket(h) ==
    \/ /\ \E p \in PeerData : HostOf[p] = h /\ MakePeer(p, "connecting")
       /\ UNCHANGED peerFlags
    \/ UNCHANGED <<table, sockets>>

\* Mutant of ExecuteConnect: onConnected is not run for a null socket.
ExecuteConnectSilent ==
    /\ Executes("connect")
    /\ batch' = Tail(batch)
    /\ ConnectSocket(Head(batch).host)
    /\ answers' = IF fresh' = fresh THEN answers ELSE [answers EXCEPT !.given = @ + 1]
    /\ UNCHANGED <<hosts, outer, phase, current, work, onConnects,
                   onDisconnects, failed, fatal>>

\* ExecuteConnect with a callback: onConnected is run or handed to its queue with
\* the handle or with none
ExecuteConnect ==
    /\ Executes("connect")
    /\ batch' = Tail(batch)
    /\ ConnectSocket(Head(batch).host)
    /\ answers' = [answers EXCEPT !.given = @ + 1]
    /\ UNCHANGED <<hosts, outer, phase, current, work, onConnects,
                   onDisconnects, failed, fatal>>

\* ExecuteConnect of Connect(address, port): onConnected is empty, and
\* _InternalConnect writes its peer through a null pointer, which ends the
\* process, or else _InternalConnect_Finish has nobody to answer
ExecuteConnectBare ==
    /\ Executes("connectBare")
    /\ batch' = Tail(batch)
    /\ ConnectSocket(Head(batch).host)
    /\ phase' \in {phase, "crashed"}
    /\ UNCHANGED <<hosts, outer, current, work, history>>

\* ExecuteListen, with or without success, and CommandStopListening
ExecuteListen ==
    /\ \/ /\ Executes("listen")
          /\ listening' \in {listening, listening \cup {Head(batch).host}}
       \/ /\ Executes("stopListening")
          /\ listening' = listening \ {Head(batch).host}
    /\ batch' = Tail(batch)
    /\ UNCHANGED <<table, sockets, up, outer, phase, current, work, history>>

\* CommandDisconnectAll
ExecuteDisconnectAll ==
    /\ Executes("disconnectAll")
    /\ batch' = Tail(batch)
    /\ DisconnectAll(Head(batch).host)
    /\ UNCHANGED <<table, sockets, hosts, outer, phase, current, history>>

\* ExecuteDisconnect: nothing happens when the handle is stale
ExecuteDisconnect ==
    /\ Executes("disconnect")
    /\ batch' = Tail(batch)
    /\ IF Head(batch).peer \in resolves
       THEN InternalDisconnect(Head(batch).peer)
       ELSE UNCHANGED <<table, sockets, onDisconnects, fatal>>
    /\ UNCHANGED <<hosts, outer, phase, current, work, onConnects, failed,
                   answers>>

\* CommandDestroyHosts: it empties the queue, in which the rest of the batch
\* it is part of no longer is, and then destroys the hosts
ExecuteDestroyHosts ==
    /\ Executes("destroy")
    /\ outer' = Tail(batch)
    /\ batch' = <<>>
    /\ phase' = "draining"
    /\ UNCHANGED <<table, sockets, hosts, current, work, history>>

Drained ==
    /\ Idle
    /\ phase = "draining"
    /\ batch = <<>>
    /\ \A t \in Thread : commands[t] = <<>>
    /\ phase' = "destroying"
    /\ UNCHANGED <<table, sockets, hosts, users, batch, outer, current, work,
                   history>>

\* Mutant of DestroyHost: the host leaves the loop before its peers are gone.
DestroyHostErases(h) ==
    /\ Idle
    /\ phase = "destroying"
    /\ h \in up
    /\ current' = h
    /\ up' = up \ {h}
    /\ listening' = listening \ {h}
    /\ DisconnectAll(h)
    /\ UNCHANGED <<table, sockets, users, batch, outer, phase, history>>

\* _InternalDestroy of a host: StopListening and DisconnectAll
DestroyHost(h) ==
    /\ Idle
    /\ phase = "destroying"
    /\ h \in up
    /\ current' = h
    /\ listening' = listening \ {h}
    /\ DisconnectAll(h)
    /\ UNCHANGED <<table, sockets, up, users, batch, outer, phase, history>>

\* Mutant of HostDestroyed: the host is not erased from Loop::hosts.
HostDestroyedStays(h) ==
    /\ current = h /\ work = {}
    /\ socket' = [p \in PeerData |->
                    IF HostOf[p] = h /\ IsOpen(p) THEN "closed" ELSE socket[p]]
    /\ current' = NoHost
    /\ UNCHANGED <<table, ext, holds, peerFlags, hosts, users, batch, outer,
                   phase, work, history>>

\* us_socket_context_close and the host leaves the loop; after the last one
\* the interrupted batch goes on
HostDestroyed(h) ==
    /\ current = h /\ work = {}
    /\ socket' = [p \in PeerData |->
                    IF HostOf[p] = h /\ IsOpen(p) THEN "closed" ELSE socket[p]]
    /\ up' = up \ {h}
    /\ current' = NoHost
    /\ IF up' = {}
       THEN phase' = "running" /\ batch' = outer /\ outer' = <<>>
       ELSE UNCHANGED <<phase, batch, outer>>
    /\ UNCHANGED <<table, ext, holds, peerFlags, listening, users, work, history>>

-----------------------------------------------------------------------------
Init ==
    /\ fresh = PeerData
    /\ members = [h \in Host |-> {}]
    /\ resolves = {}
    /\ socket = [p \in PeerData |-> "none"]
    /\ ext = [p \in PeerData |-> FALSE]
    /\ holds = [p \in PeerData |-> FALSE]
    /\ peerFlags = [p \in PeerData |-> {}]
    /\ up = Host
    /\ listening = {}
    /\ commands = [t \in Thread |-> <<>>]
    /\ issued = [t \in Thread |-> 0]
    /\ batch = <<>>
    /\ outer = <<>>
    /\ phase = "running"
    /\ current = NoHost
    /\ work = {}
    /\ onConnects = [p \in PeerData |-> 0]
    /\ onDisconnects = [p \in PeerData |-> 0]
    /\ failed = {}
    /\ answers = [asked |-> 0, given |-> 0]
    /\ fatal = FALSE

HostCommand == {"connect", "connectBare", "listen", "stopListening", "disconnectAll"}

UserNext ==
    \/ \E op \in HostCommand, h \in Host : UserHostCommand(op, h)
    \/ UserDestroy
    \/ \E t \in Thread, p \in PeerData, byHandle \in BOOLEAN :
          UserDisconnect(t, p, byHandle)

EventNext ==
    \E p \in PeerData :
        OnOpenServer(p) \/ OnOpenClient(p) \/ OnConnectError(p)
        \/ OnEnd(p) \/ OnClose(p)

LoopNext ==
    \/ TryDequeueBulk
    \/ ExecuteConnect
    \/ ExecuteConnectBare
    \/ ExecuteListen
    \/ ExecuteDisconnectAll
    \/ ExecuteDisconnect
    \/ ExecuteDestroyHosts
    \/ Drained
    \/ \E p \in PeerData : DisconnectNext(p) \/ CloseNext(p)
    \/ \E h \in Host : DestroyHost(h) \/ HostDestroyed(h)

Next == UserNext \/ EventNext \/ LoopNext

Spec == Init /\ [][Next]_vars

\* The loop thread, once woken, goes on until its queue is empty; a connection
\* attempt ends one way or the other.
Fairness ==
    /\ WF_vars(LoopNext)
    /\ WF_vars(\E p \in PeerData : OnOpenClient(p) \/ OnConnectError(p))

FairSpec == Spec /\ Fairness

-----------------------------------------------------------------------------
(* Properties.                                                             *)

Command ==
    [op : HostCommand, host : Host] \cup [op : {"destroy"}]
        \cup [op : {"disconnect"}, peer : PeerData]

TypeOK ==
    /\ fresh \subseteq PeerData
    /\ members \in [Host -> SUBSET PeerData]
    /\ resolves \subseteq PeerData
    /\ socket \in [PeerData -> {"none", "connecting", "open", "closed"}]
    /\ ext \in [PeerData -> BOOLEAN]
    /\ holds \in [PeerData -> BOOLEAN]
    /\ peerFlags \in [PeerData -> SUBSET {"READY", "DISCONNECTING", "CLOSED"}]
    /\ up \subseteq Host
    /\ listening \subseteq up
    /\ commands \in [Thread -> Seq(Command)]
    /\ issued \in [Thread -> 0 .. MaxCommands]
    /\ batch \in Seq(Command)
    /\ outer \in Seq(Command)
    /\ phase \in {"running", "draining", "destroying", "crashed"}
    /\ current \in Host \cup {NoHost}
    /\ work \subseteq [call : {"_InternalDisconnect", "us_socket_close"},
                       peer : PeerData]
    /\ onConnects \in [PeerData -> Nat]
    /\ onDisconnects \in [PeerData -> Nat]
    /\ failed \subseteq PeerData
    /\ answers \in [asked : Nat, given : Nat]
    /\ fatal \in BOOLEAN

\* The peers of the table are exactly those that hold a socket and that the
\* socket leads back to, and no socket outlives its peer except the one that
\* on_end is about to close.  So no callback reaches a released peer, ~Peer
\* never finds a socket, and on_open_Finish and on_close_Finish never take their
\* LOG_FATAL branch, though on_end closes the socket of a peer it has already
\* finished and Disconnect commands come with stale handles.
TableMatchesSockets ==
    /\ TypeOK
    /\ ~fatal
    /\ resolves = {p \in PeerData : ext[p]}
    /\ resolves = {p \in PeerData : holds[p]}
    /\ \A p \in resolves : IsOpen(p) /\ p \in members[HostOf[p]]
    /\ \A p \in PeerData : IsOpen(p) =>
          p \in resolves \/ [call |-> "us_socket_close", peer |-> p] \in work

\* onDisconnect runs at most once for a peer, and exactly once for a peer that
\* onConnect ran for and that is gone; a failed attempt runs neither.
CallbacksPaired ==
    \A p \in PeerData :
        /\ onConnects[p] <= 1 /\ onDisconnects[p] <= 1
        /\ onDisconnects[p] = 1 => p \notin resolves
        /\ onConnects[p] = 1 /\ p \notin resolves => onDisconnects[p] = 1
        /\ p \in failed => onConnects[p] = 0 /\ onDisconnects[p] = 0

\* A thread that polls the flags of a Peer it shares is told the truth: after
\* every handler of the loop thread IsClosed is set exactly for the peers that
\* have left the table, whichever way they ended, and IsReadyToUse for those that
\* onConnect ran for.
FlagsTruthful ==
    \A p \in PeerData \ fresh :
        /\ "CLOSED" \in peerFlags[p] <=> p \notin resolves
        /\ "READY" \in peerFlags[p] <=> onConnects[p] = 1

\* A destroyed host has no peer and no socket left, and no command that its owner
\* gave before Loop::Destroy still waits to use it, in the queue or in the batch
\* that CommandDestroyHosts is part of.
DestroyedHostUnused ==
    \A h \in Host \ up :
        /\ members[h] = {}
        /\ \A p \in PeerData : HostOf[p] = h => ~IsOpen(p)
        /\ \A c \in UNION ({ToSet(commands[t]) : t \in Thread}
                               \cup {ToSet(batch), ToSet(outer)}) :
              c.op \in HostCommand => c.host # h

\* Every connect request that has a callback is answered, with a handle or
\* without, unless a request that has none ends the process: a thread that waits
\* for the future of ConnectPromise is released, also when the loop is destroyed
\* meanwhile.  A thread that polls the flags of the peer it was given sees READY or
\* CLOSED in the end.
ConnectAnswered ==
    /\ \A n \in 1 .. MaxCommands :
          answers.asked >= n ~> (answers.given >= n \/ phase = "crashed")
    /\ \A p \in PeerData :
          p \in resolves ~> (\/ peerFlags[p] \cap {"READY", "CLOSED"} # {}
                             \/ phase = "crashed")

\* Loop::Destroy ends with all hosts destroyed and all their peers closed, unless
\* a Connect without a callback ends the process.
DestroyCompletes ==
    \A t \in Thread : (\E i \in DOMAIN commands[t] : commands[t][i].op = "destroy")
                         ~> ((up = {} /\ resolves = {}) \/ phase = "crashed")

\* assert(!peer->peerHandle) of on_connect_error: whenever that callback can
\* run, the peer that us_socket_ext leads to has no handle.
ConnectErrorHasNoHandle ==
    \A p \in PeerData :
        InEventLoop /\ socket[p] = "connecting" /\ ext[p] => p \notin resolves

\* HadConnectError is true for a peer whose connection attempt failed.
ConnectErrorReported ==
    \A p \in failed : "ERROR_CONNECT" \in peerFlags[p]

=============================================================================
