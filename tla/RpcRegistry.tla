---------------------------- MODULE RpcRegistry ----------------------------
(***************************************************************************)
(* The functions registered with an RPCEnvironment and the way of a        *)
(* message from RPCEnvironment::Send to the function it names: through the *)
(* command queue of the loop, a CommandsBufferHandler or a                 *)
(* MultiBatchWriter of the sender, over the wire, to the MessageConverter  *)
(* of its name, and through the execution queue of that function if it has *)
(* one.  Calls with a return value take the same way; what returns is the  *)
(* subject of RpcCalls.                                                    *)
(*                                                                         *)
(* A name is a string or a positive number below MaxName.  Functions are   *)
(* registered and removed by the thread that receives, or while nobody     *)
(* receives: the tables have no lock.                                      *)
(***************************************************************************)
EXTENDS Naturals, Sequences, SequencesExt, TLC

CONSTANTS StringName,   \* names that are strings
          UintName,     \* names that are numbers
          Converter,    \* MessageConverter objects, each created once
          QueueOf,      \* of a converter: "none", "fixed" or "getter"
          Message,      \* messages, each sent once
          NameOf,       \* of a message: the function it names
          Fits,         \* messages whose arguments fit every function
          NoConverter,  \* nullptr
          MaxName,      \* RpcName: 1024 * 1024
          MaxMoves      \* bound: how often the map of the writer is moved

ASSUME RpcRegistryAssumption ==
    /\ MaxName \in Nat
    /\ UintName \subseteq 1 .. MaxName - 1
    /\ StringName \cap UintName = {}
    /\ QueueOf \in [Converter -> {"none", "fixed", "getter"}]
    /\ NameOf \in [Message -> StringName \cup UintName]
    /\ Fits \subseteq Message
    /\ NoConverter \notin Converter
    /\ MaxMoves \in Nat

Name == StringName \cup UintName

VARIABLES strings,     \* registeredMessagesString
          uints,       \* registeredMessagesUint: entry n is at n + 1
          converter,   \* of a converter: "new", "alive" or "deleted"
          process,     \* "running", or "ended" by the use of a deleted converter
          staged,      \* messages of the sender: in its loop, handler and writer
          moves,       \* how often the map of the writer was moved
          wire,        \* messages on their way
          executing,   \* ExecuteRPC commands in the execution queues
          registered,  \* history: the function a name stands for
          doubled,     \* history: messages the writer held when its map was moved
          arrived,     \* history: the messages received, oldest first, each with
                       \* the function its name stood for
          ran          \* history: the executions, oldest first

tables      == <<strings, uints, converter, registered>>
way         == <<staged, moves, wire, doubled>>
registryVars == <<tables, process, way, executing, arrived, ran>>

Place == {"loop", "handler", "writer"}

RegistryTypeOK ==
    /\ \A s \in DOMAIN strings : s \in StringName /\ strings[s] \in Converter
    /\ uints \in Seq(Converter \cup {NoConverter})
    /\ converter \in [Converter -> {"new", "alive", "deleted"}]
    /\ process \in {"running", "ended"}
    /\ staged \in [Place -> Seq(Message)]
    /\ wire \in Seq(Message)
    /\ moves \in 0 .. MaxMoves /\ doubled \subseteq Message
    /\ arrived \in Seq([message : Message, function : Converter \cup {NoConverter}])
    /\ \A e \in ToSet(executing) \cup ToSet(ran) :
          /\ e.message \in Message /\ e.converter \in Converter
          /\ e.receipt \in DOMAIN arrived
    /\ \A n \in DOMAIN registered : n \in Name /\ registered[n] \in Converter

RegistryInit ==
    /\ strings = <<>> /\ uints = <<>> /\ registered = <<>>
    /\ converter = [c \in Converter |-> "new"]
    /\ process = "running"
    /\ staged = [p \in Place |-> <<>>]
    /\ moves = 0 /\ doubled = {}
    /\ wire = <<>> /\ executing = <<>> /\ arrived = <<>> /\ ran = <<>>

-----------------------------------------------------------------------------
(* The tables.                                                             *)

\* RegisterAnyMessage of a string: the first registration stays
RegisterString(s, c) ==
    /\ strings' = strings @@ (s :> c)
    /\ registered' = registered @@ (s :> c)
    /\ UNCHANGED uints

\* RegisterAnyMessage of a number: the last one stays, and the table grows with
\* empty entries up to it
RegisterUint(n, c) ==
    /\ uints' = [i \in 1 .. (IF Len(uints) <= n THEN n + 1 ELSE Len(uints)) |->
                    IF i = n + 1 THEN c
                    ELSE IF i <= Len(uints) THEN uints[i] ELSE NoConverter]
    /\ registered' = (n :> c) @@ registered
    /\ UNCHANGED strings

\* RegisterMessage and RegisterObjectMessage: a new converter
RegisterMessage(name, c) ==
    /\ process = "running"
    /\ converter[c] = "new"
    /\ converter' = [converter EXCEPT ![c] = "alive"]
    /\ IF name \in StringName THEN RegisterString(name, c) ELSE RegisterUint(name, c)
    /\ UNCHANGED <<process, way, executing, arrived, ran>>

\* Mutant: empty entries are dropped wherever they are
TrimmedAll(t) == SelectSeq(t, LAMBDA c : c # NoConverter)

\* The table without the empty entries at its end
Trimmed(t) ==
    SubSeq(t, 1, CHOOSE k \in 0 .. Len(t) :
                    /\ k = 0 \/ t[k] # NoConverter
                    /\ \A j \in k + 1 .. Len(t) : t[j] = NoConverter)

\* What RemoveRegisteredMessage deletes for a number: the entry is cleared
\* before it is read, so that nothing is
RemovedUint(n) == NoConverter

\* RemoveRegisteredMessage
RemoveRegisteredMessage(name) ==
    LET c == IF name \in UintName THEN RemovedUint(name)
             ELSE IF name \in DOMAIN strings THEN strings[name]
             ELSE NoConverter
    IN  /\ process = "running"
        /\ converter' = IF c = NoConverter THEN converter
                        ELSE [converter EXCEPT ![c] = "deleted"]
        /\ strings' = [s \in DOMAIN strings \ {name} |-> strings[s]]
        /\ uints' = IF name \in UintName
                    THEN Trimmed([i \in DOMAIN uints |->
                             IF i = name + 1 THEN NoConverter ELSE uints[i]])
                    ELSE uints
        /\ registered' = [n \in DOMAIN registered \ {name} |-> registered[n]]
        /\ UNCHANGED <<process, way, executing, arrived, ran>>

\* The lookup of OnReceiveCall
Lookup(name) ==
    IF name \in StringName
    THEN IF name \in DOMAIN strings THEN strings[name] ELSE NoConverter
    ELSE IF Len(uints) > name THEN uints[name + 1] ELSE NoConverter

-----------------------------------------------------------------------------
(* The way of a message.                                                   *)

Unsent == Message \ (UNION {ToSet(staged[p]) : p \in Place} \cup ToSet(wire)
                        \cup {arrived[k].message : k \in DOMAIN arrived})

\* RPCEnvironment::Send: to the loop of the peer, or into the handler or the
\* writer it is given
RpcSend(m, place) ==
    /\ process = "running"
    /\ m \in Unsent
    /\ staged' = [staged EXCEPT ![place] = Append(@, m)]
    /\ UNCHANGED <<tables, process, moves, wire, doubled, executing, arrived, ran>>

\* FlushBuffer of the handler, or Flush of the writer: the messages come behind
\* those of the loop
FlushStaged(place) ==
    /\ process = "running"
    /\ place # "loop"
    /\ staged[place] # <<>>
    /\ staged' = [staged EXCEPT !["loop"] = @ \o staged[place], ![place] = <<>>]
    /\ UNCHANGED <<tables, process, moves, wire, doubled, executing, arrived, ran>>

\* The writer is given a frame for another loop, and its map is moved to new
\* memory: ~SendBatch of the old one sends what is pending, and the copy keeps it
WriterMoves ==
    /\ process = "running"
    /\ staged["writer"] # <<>>
    /\ moves < MaxMoves
    /\ moves' = moves + 1
    /\ doubled' = doubled \cup ToSet(staged["writer"])
    /\ staged' = [staged EXCEPT !["loop"] = @ \o staged["writer"]]
    /\ UNCHANGED <<tables, process, wire, executing, arrived, ran>>

\* The loop of the sender executes the oldest command
LoopSends ==
    /\ process = "running"
    /\ staged["loop"] # <<>>
    /\ wire' = Append(wire, Head(staged["loop"]))
    /\ staged' = [staged EXCEPT !["loop"] = Tail(@)]
    /\ UNCHANGED <<tables, process, moves, doubled, executing, arrived, ran>>

\* ExecuteGetQueue: whether there is a queue.  A getter may return none.
ExecuteGetQueue(c) ==
    CASE QueueOf[c] = "fixed"  -> {TRUE}
      [] QueueOf[c] = "getter" -> {TRUE, FALSE}
      [] QueueOf[c] = "none"   -> {FALSE}

\* Mutant: the function is called whatever the reader has met
DeserializeAlways(e) == Append(ran, e)

\* DeserializeAndExecute: nothing is called when the arguments do not fit
DeserializeAndExecute(e) == IF e.message \in Fits THEN Append(ran, e) ELSE ran

\* OnReceiveCall
OnReceiveMessage ==
    LET m == Head(wire)
        c == Lookup(NameOf[m])
        e == [message |-> m, converter |-> c, receipt |-> Len(arrived) + 1]
    IN  /\ process = "running"
        /\ wire # <<>>
        /\ wire' = Tail(wire)
        /\ arrived' = Append(arrived,
              [message  |-> m,
               function |-> IF NameOf[m] \in DOMAIN registered
                            THEN registered[NameOf[m]] ELSE NoConverter])
        /\ IF c = NoConverter
           THEN UNCHANGED <<executing, ran>>
           ELSE \E queued \in ExecuteGetQueue(c) :
                   IF queued
                   THEN executing' = Append(executing, e) /\ UNCHANGED ran
                   ELSE ran' = DeserializeAndExecute(e) /\ UNCHANGED executing
        /\ UNCHANGED <<tables, process, staged, moves, doubled>>

\* ExecuteRPC::Execute in its queue.  The converter may have been deleted since:
\* it is used as it was left, or its use ends the process.
ExecuteRPC ==
    LET e == Head(executing)
    IN  /\ process = "running"
        /\ executing # <<>>
        /\ executing' = Tail(executing)
        /\ \/ ran' = DeserializeAndExecute(e) /\ UNCHANGED process
           \/ /\ converter[e.converter] = "deleted"
              /\ process' = "ended"
              /\ UNCHANGED ran
        /\ UNCHANGED <<tables, way, arrived>>

RegistryNext ==
    \/ \E name \in Name : RemoveRegisteredMessage(name)
                             \/ \E c \in Converter : RegisterMessage(name, c)
    \/ \E m \in Message, place \in Place : RpcSend(m, place)
    \/ \E place \in Place : FlushStaged(place)
    \/ WriterMoves
    \/ LoopSends
    \/ OnReceiveMessage
    \/ ExecuteRPC

RegistrySpec == RegistryInit /\ [][RegistryNext]_registryVars

-----------------------------------------------------------------------------
(* Properties.                                                             *)

\* After any registrations and removals a name finds the function it stands for:
\* the first one registered for a string, the last one for a number, none after
\* it was removed.  The tables hold no deleted converter, and a table of numbers
\* ends with an entry in use (RPCEnvironment.cpp RegisterAnyMessage,
\* RemoveRegisteredMessage).
NamesResolve ==
    /\ RegistryTypeOK
    /\ \A n \in Name :
          Lookup(n) = IF n \in DOMAIN registered THEN registered[n] ELSE NoConverter
    /\ \A n \in DOMAIN registered : converter[registered[n]] = "alive"
    /\ uints # <<>> => Last(uints) # NoConverter

\* A message is received once, unless the map of a MultiBatchWriter was moved while
\* it was pending there; and each time it is executed at most once, by the function
\* its name stood for when it was received, and only with arguments that fit it.
\* While its command waits it may be overtaken by the removal of a function with a
\* string for a name, of no other (RPCEnvironment.cpp OnReceiveCall,
\* MessageConverter.hpp, MultiBatchWriter.cpp).
DispatchedOnce ==
    /\ \A j, k \in DOMAIN arrived :
          arrived[j].message = arrived[k].message =>
              j = k \/ arrived[j].message \in doubled
    /\ \A i, j \in DOMAIN ran : ran[i].receipt = ran[j].receipt => i = j
    /\ \A e \in ToSet(ran) \cup ToSet(executing) :
          /\ arrived[e.receipt] = [message |-> e.message, function |-> e.converter]
          /\ converter[e.converter] = "deleted" => NameOf[e.message] \in StringName
    /\ \A e \in ToSet(ran) : e.message \in Fits
    /\ ToSet(ran) \cap ToSet(executing) = {}
    /\ \A k \in DOMAIN arrived :
          /\ arrived[k].function # NoConverter
          /\ arrived[k].message \in Fits
          /\ process = "running"
          => \E e \in ToSet(ran) \cup ToSet(executing) : e.receipt = k

=============================================================================
