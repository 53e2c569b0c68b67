------------------------------ MODULE RpcCalls ------------------------------
(***************************************************************************)
(* Calls with a return value over one connection: RPCEnvironment::Call,    *)
(* CommandCallSend, the returningCallbacks of the calling peer, the        *)
(* execution of the call on the other side and its return message, late    *)
(* returns and timeouts (RPCEnvironment.hpp, src/RPCEnvironment.cpp,       *)
(* src/OnReturnCallback.cpp, MessageConverter.hpp, src/Peer.cpp).          *)
(*                                                                         *)
(* The two directions of the connection are the first-in first-out streams *)
(* that PeerSend implements.  Every Call is made once; a message carries   *)
(* the id of the call in the code, and here also which call it belongs to. *)
(* returningCallbacks is a function from the pending ids to the calls.     *)
(*                                                                         *)
(* A call is executed by the loop thread of the callee, or as an           *)
(* ExecuteRPC command by a worker thread when its function has an          *)
(* execution queue (Queued).  A worker enters PeerData::Send on its own    *)
(* thread and unsynchronised with the loop thread; inside holds the calls  *)
(* whose worker is in it.  Of the outcomes of this data race the model has *)
(* that the return message is sent, that it is lost, and that the process  *)
(* of the callee ends.                                                     *)
(***************************************************************************)
EXTENDS Integers, FiniteSets, SequencesExt

CONSTANTS
    Call,       \* calls user threads make
    Queued,     \* calls of functions that have an execution queue
    Deferred,   \* calls whose OnReturnCallback has an execution queue
    IdMod       \* 2^32: how many values a return id has

ASSUME RpcCallsAssumption ==
    /\ Queued \subseteq Call
    /\ Deferred \subseteq Call
    /\ IdMod \in Nat /\ IdMod > 1

VARIABLES
    commands,           \* calls whose CommandCallSend is in the loop's queue
    returnIdGen,
    returningCallbacks,
    caller, callee,     \* state of the two peers of the connection
    requests,           \* call messages on the way, [id, call]
    returns,            \* return messages on the way, [id, call]
    executing,          \* ExecuteRPC commands of worker threads
    inside,             \* threads inside PeerData::Send of the callee's peer
    callbackQueue,      \* callbacks handed to their execution queue
    \* History: calls made, what every callback was run with, and how often
    \* returnIdGen wrapped by the time a call got its id.
    made,
    outcomes,
    wraps,
    epoch

peers  == <<caller, callee>>
server == <<executing, inside>>
ids    == <<returnIdGen, wraps, epoch>>
vars   == <<commands, ids, returningCallbacks, peers, requests, returns,
            server, callbackQueue, made, outcomes>>

\* The outcome of a callback that timed out
Timeout == [kind |-> "timeout"]
Return(call) == [kind |-> "return", of |-> call]

-----------------------------------------------------------------------------
(* The caller.                                                             *)

\* RPCEnvironment::Call
UserCall(c) ==
    /\ c \notin made
    /\ made' = made \cup {c}
    /\ commands' = commands \cup {c}
    /\ UNCHANGED <<ids, returningCallbacks, peers, requests, returns, server,
                   callbackQueue, outcomes>>

\* Mutant: an id that is still pending is given again
ValidIdPending(id) == id # 0

\* An id _InternalGetNextValidReturnCallbackId stops at
ValidId(id) == id # 0 /\ id \notin DOMAIN returningCallbacks

\* Mutant: returnIdGen only moves on while its id is taken
IdStepsReuse ==
    CHOOSE n \in 0 .. IdMod - 1 :
        /\ ValidId((returnIdGen + n) % IdMod)
        /\ \A k \in 0 .. n - 1 : ~ValidId((returnIdGen + k) % IdMod)

\* How far _InternalGetNextValidReturnCallbackId moves returnIdGen
IdSteps ==
    CHOOSE n \in 1 .. IdMod :
        /\ ValidId((returnIdGen + n) % IdMod)
        /\ \A k \in 1 .. n - 1 : ~ValidId((returnIdGen + k) % IdMod)

\* CommandCallSend of a peer that exists: the callback is registered, and
\* PeerData::Send drops the message of a disconnecting peer.  Fewer calls are
\* pending than there are ids.
ExecuteCallSend(c) ==
    LET id == (returnIdGen + IdSteps) % IdMod
    IN  /\ c \in commands
        /\ caller # "closed"
        /\ Cardinality(DOMAIN returningCallbacks) < IdMod - 1
        /\ commands' = commands \ {c}
        /\ returnIdGen' = id
        /\ wraps' = IF returnIdGen + IdSteps >= IdMod THEN wraps + 1 ELSE wraps
        /\ epoch' = [epoch EXCEPT ![c] = wraps']
        /\ returningCallbacks' = (id :> c) @@ returningCallbacks
        /\ requests' = IF caller = "disconnecting"
                       THEN requests
                       ELSE Append(requests, [id |-> id, call |-> c])
        /\ UNCHANGED <<peers, returns, server, callbackQueue, made, outcomes>>

\* CommandCallSend when the peer is gone: the callback goes with the command
ExecuteCallNoPeer(c) ==
    /\ c \in commands
    /\ caller = "closed"
    /\ commands' = commands \ {c}
    /\ UNCHANGED <<ids, returningCallbacks, peers, requests, returns, server,
                   callbackQueue, made, outcomes>>

\* returningCallbacks.Remove
Removed(id) ==
    [i \in DOMAIN returningCallbacks \ {id} |-> returningCallbacks[i]]

\* OnReturnCallback::Execute and ExecuteTimeout: run or enqueue the callback
RunCallback(c, outcome) ==
    IF c \in Deferred
    THEN /\ callbackQueue' = callbackQueue \cup {[call |-> c, outcome |-> outcome]}
         /\ UNCHANGED outcomes
    ELSE /\ outcomes' = [outcomes EXCEPT ![c] = Append(@, outcome)]
         /\ UNCHANGED callbackQueue

\* OnReceiveReturn: a return whose callback expired is ignored
OnReceiveReturn ==
    /\ caller # "closed"
    /\ returns # <<>>
    /\ returns' = Tail(returns)
    /\ LET id == Head(returns).id
       IN  IF id \in DOMAIN returningCallbacks
           THEN /\ returningCallbacks' = Removed(id)
                /\ RunCallback(returningCallbacks[id], Return(Head(returns).call))
           ELSE UNCHANGED <<returningCallbacks, callbackQueue, outcomes>>
    /\ UNCHANGED <<commands, ids, peers, requests, server, made>>

\* Mutant: only callbacks of peers that are ready to use expire
CheckForTimeoutReady(id) ==
    /\ caller = "ready"
    /\ id \in DOMAIN returningCallbacks
    /\ returningCallbacks' = Removed(id)
    /\ RunCallback(returningCallbacks[id], Timeout)
    /\ UNCHANGED <<commands, ids, peers, requests, returns, server, made>>

\* CheckForTimeoutFunctionCalls picks an expired callback
CheckForTimeout(id) ==
    /\ caller # "closed"
    /\ id \in DOMAIN returningCallbacks
    /\ returningCallbacks' = Removed(id)
    /\ RunCallback(returningCallbacks[id], Timeout)
    /\ UNCHANGED <<commands, ids, peers, requests, returns, server, made>>

\* The execution queue of a callback
ExecuteCallback(d) ==
    /\ d \in callbackQueue
    /\ callbackQueue' = callbackQueue \ {d}
    /\ outcomes' = [outcomes EXCEPT ![d.call] = Append(@, d.outcome)]
    /\ UNCHANGED <<commands, ids, returningCallbacks, peers, requests, returns,
                   server, made>>

-----------------------------------------------------------------------------
(* The callee.                                                             *)

\* The return message, unless the peer is disconnecting
Reply(r) == returns' = IF callee = "ready" /\ caller # "closed"
                       THEN Append(returns, r)
                       ELSE returns

\* OnReceiveCall: an unknown function and malformed arguments are ignored;
\* otherwise the loop thread executes the function and replies, or hands it
\* to the execution queue
OnReceiveCall ==
    LET r == Head(requests)
    IN  /\ callee \in {"ready", "disconnecting"}
        /\ requests # <<>>
        /\ requests' = Tail(requests)
        /\ \/ UNCHANGED <<returns, executing>>
           \/ /\ r.call \in Queued
              /\ executing' = executing \cup {r}
              /\ UNCHANGED returns
           \/ /\ r.call \notin Queued
              /\ Reply(r)
              /\ UNCHANGED executing
        /\ UNCHANGED <<commands, ids, returningCallbacks, peers, inside,
                       callbackQueue, made, outcomes>>

\* A worker has executed the function and enters PeerData::Send of the peer
WorkerSend(r) ==
    /\ r \in executing
    /\ callee \in {"ready", "disconnecting"}
    /\ executing' = executing \ {r}
    /\ inside' = inside \cup {r}
    /\ UNCHANGED <<commands, ids, returningCallbacks, peers, requests, returns,
                   callbackQueue, made, outcomes>>

WorkerSent(r) ==
    /\ r \in inside
    /\ inside' = inside \ {r}
    /\ Reply(r) \/ UNCHANGED returns
    /\ UNCHANGED <<commands, ids, returningCallbacks, peers, requests,
                   executing, callbackQueue, made, outcomes>>

\* The peer of an ExecuteRPC command is gone: GetLocalPeerData() is null and
\* its use ends the process
WorkerSendNoPeer(r) ==
    /\ r \in executing
    /\ callee = "closed"
    /\ callee' = "crashed"
    /\ executing' = {}
    /\ inside' = {}
    /\ UNCHANGED <<commands, ids, returningCallbacks, caller, requests, returns,
                   callbackQueue, made, outcomes>>

-----------------------------------------------------------------------------
(* The connection.                                                         *)

\* Peer::Disconnect at either end
Disconnect ==
    /\ \/ caller = "ready" /\ caller' = "disconnecting" /\ UNCHANGED callee
       \/ callee = "ready" /\ callee' = "disconnecting" /\ UNCHANGED caller
    /\ UNCHANGED <<commands, ids, returningCallbacks, requests, returns, server,
                   callbackQueue, made, outcomes>>

\* on_close at the caller: the peer goes and with it the callbacks that are
\* pending; what it had not received is lost
CallerCloses ==
    /\ caller # "closed"
    /\ caller' = "closed"
    /\ returningCallbacks' = <<>>
    /\ returns' = <<>>
    /\ UNCHANGED <<commands, ids, callee, requests, server, callbackQueue, made,
                   outcomes>>

\* on_close at the callee, or the end of its process while a worker races
CalleeCloses ==
    /\ callee \in {"ready", "disconnecting"}
    /\ \/ callee' = "closed" /\ UNCHANGED server
       \/ inside # {} /\ callee' = "crashed" /\ executing' = {} /\ inside' = {}
    /\ requests' = <<>>
    /\ UNCHANGED <<commands, ids, returningCallbacks, caller, returns,
                   callbackQueue, made, outcomes>>

-----------------------------------------------------------------------------
Init ==
    /\ commands = {}
    /\ returnIdGen = 0
    /\ returningCallbacks = <<>>
    /\ caller = "ready"
    /\ callee = "ready"
    /\ requests = <<>>
    /\ returns = <<>>
    /\ executing = {}
    /\ inside = {}
    /\ callbackQueue = {}
    /\ made = {}
    /\ outcomes = [c \in Call |-> <<>>]
    /\ wraps = 0
    /\ epoch = [c \in Call |-> 0]

Next ==
    \/ \E c \in Call : UserCall(c) \/ ExecuteCallSend(c) \/ ExecuteCallNoPeer(c)
    \/ OnReceiveReturn
    \/ \E id \in DOMAIN returningCallbacks : CheckForTimeout(id)
    \/ \E d \in callbackQueue : ExecuteCallback(d)
    \/ OnReceiveCall
    \/ \E r \in executing : WorkerSend(r) \/ WorkerSendNoPeer(r)
    \/ \E r \in inside : WorkerSent(r)
    \/ Disconnect
    \/ CallerCloses
    \/ CalleeCloses

Spec == Init /\ [][Next]_vars

\* The loop of the caller wakes up on every command and on a timer, and picks
\* every pending callback again and again; callbacks expire.  Execution queues
\* of callbacks are running.
Fairness ==
    /\ \A c \in Call : WF_vars(ExecuteCallSend(c) \/ ExecuteCallNoPeer(c))
    /\ \A id \in 1 .. IdMod - 1 :
          WF_vars(id \in DOMAIN returningCallbacks /\ CheckForTimeout(id))
    /\ WF_vars(\E d \in callbackQueue : ExecuteCallback(d))

FairSpec == Spec /\ Fairness

-----------------------------------------------------------------------------
Message == [id : 1 .. IdMod - 1, call : Call]

\* What the tables of the two ends hold: return ids are never 0 (0 marks a
\* call without feedback), callbacks run with a return or a timeout.
TypeOK ==
    /\ commands \subseteq made /\ made \subseteq Call
    /\ returnIdGen \in 0 .. IdMod - 1
    /\ DOMAIN returningCallbacks \subseteq 1 .. IdMod - 1
    /\ \A id \in DOMAIN returningCallbacks : returningCallbacks[id] \in Call
    /\ caller \in {"ready", "disconnecting", "closed"}
    /\ callee \in {"ready", "disconnecting", "closed", "crashed"}
    /\ requests \in Seq(Message) /\ returns \in Seq(Message)
    /\ executing \subseteq Message /\ inside \subseteq Message
    /\ \A d \in callbackQueue : d.call \in Deferred
    /\ outcomes \in [Call -> Seq({Timeout} \cup {Return(c) : c \in Call})]
    /\ wraps \in Nat /\ epoch \in [Call -> Nat]

\* Everywhere the callback of a call can be
Places(c) ==
    {<<"command">> : x \in commands \cap {c}}
      \cup {<<"pending", id>> :
              id \in {i \in DOMAIN returningCallbacks : returningCallbacks[i] = c}}
      \cup {<<"queued", d.outcome>> : d \in {x \in callbackQueue : x.call = c}}
      \cup {<<"run", k>> : k \in DOMAIN outcomes[c]}

\* Until the calling peer is closed the callback of every call that was made is
\* in exactly one place: in its command, pending under one id, in its execution
\* queue, or run, once.  A pending callback is never overwritten by a later id
\* and a return that races the timeout does not run it again.
CallbackInOnePlace ==
    /\ TypeOK
    /\ \A c \in made :
          /\ Cardinality(Places(c)) <= 1
          /\ caller # "closed" => Places(c) # {}

\* A callback is run with the return value of its own call, unless the return
\* ids have wrapped around between the two calls: a return that comes after
\* the timeout of its call finds no callback, or it would be another's.
ReturnsMatchCalls ==
    \A c \in Call : \A k \in DOMAIN outcomes[c] :
        LET o == outcomes[c][k]
        IN  o.kind = "return" => o.of = c \/ epoch[o.of] # epoch[c]

\* Every call is answered: its callback is run with a return value or with a
\* timeout, whatever happens to the messages, the callee and the workers,
\* unless the calling peer closes first.
EveryCallAnswered ==
    \A c \in Call : c \in made ~> (outcomes[c] # <<>> \/ caller = "closed")

\* PeerData is a "Thead unsafe structure, only for internal in-loop
\* operations": no other thread is inside PeerData::Send.
PeerDataInLoopOnly == inside = {}
=============================================================================
