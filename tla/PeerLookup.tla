----------------------------- MODULE PeerLookup -----------------------------
(***************************************************************************)
(* The peer table of a loop as other threads see it: the lookups of        *)
(* PeerManager that take the shared lock, step by step, while the loop     *)
(* thread, step by step as well, inserts and removes peers under the       *)
(* exclusive one.  PeerManager takes these operations as atomic; here is   *)
(* what makes that sound.                                                  *)
(*                                                                         *)
(* GetLocalPeerData takes no lock and is for the loop thread, the only one *)
(* that writes.  A PeerData is inserted once.  Versions do not wrap, and a *)
(* free id is any free id: PeerManager has both.                           *)
(***************************************************************************)
EXTENDS Naturals, Sequences, FiniteSets

CONSTANTS Reader,   \* threads that look handles up
          Data,     \* PeerData objects
          NoPeer    \* nullptr

ASSUME PeerLookupAssumption == NoPeer \notin Data

VARIABLES peers,       \* PeerManager::peers
          versions,    \* PeerManager::versions
          lockWriter,  \* the loop thread holds the mutex
          lockReaders, \* the threads that hold it shared
          writer,      \* the step of the loop thread, its id and its peer
          reader,      \* of a thread: its step, its handle, what it has found
          handleOf,    \* PeerData::peerHandle
          stored       \* history: the peers of the table between two operations

lookupVars == <<peers, versions, lockWriter, lockReaders, writer, reader,
                handleOf, stored>>

Handle   == [id : Nat, version : Nat]
NoHandle == [id |-> 0, version |-> 0]
Idle     == [at |-> "idle", id |-> 0, data |-> NoPeer]
NoLookup == [at |-> "idle", handle |-> NoHandle, found |-> NoPeer]

LookupTypeOK ==
    /\ peers \in Seq(Data \cup {NoPeer})
    /\ versions \in Seq(Nat \ {0})
    /\ lockWriter \in BOOLEAN
    /\ lockReaders \subseteq Reader
    /\ writer \in [at   : {"idle", "insert", "version", "handle", "remove", "bump"},
                   id   : Nat,
                   data : Data \cup {NoPeer}]
    /\ reader \in [Reader ->
                     [at     : {"idle", "size", "peer", "version", "read", "done"},
                      handle : Handle,
                      found  : Data \cup {NoPeer}]]
    /\ handleOf \in [Data -> Handle]
    /\ stored \subseteq Data

LookupInit ==
    /\ peers = <<>> /\ versions = <<>>
    /\ lockWriter = FALSE /\ lockReaders = {}
    /\ writer = Idle
    /\ reader = [r \in Reader |-> NoLookup]
    /\ handleOf = [d \in Data |-> NoHandle]
    /\ stored = {}

-----------------------------------------------------------------------------
(* The loop thread.                                                        *)

\* lock_guard: nobody else holds the mutex
LockExclusive == ~lockWriter /\ lockReaders = {} /\ lockWriter' = TRUE

FreeIds == {i \in DOMAIN peers : peers[i] = NoPeer}

\* PeerManager::Alloc of a peer that has no handle, from its lock ...
AllocLock(d) ==
    /\ writer.at = "idle"
    /\ handleOf[d] = NoHandle
    /\ LockExclusive
    /\ \E i \in IF FreeIds = {} THEN {Len(peers) + 1} ELSE FreeIds :
          writer' = [at |-> "insert", id |-> i, data |-> d]
    /\ UNCHANGED <<peers, versions, lockReaders, reader, handleOf, stored>>

\* ... the peer is put into the table, at its end if no id is free ...
AllocInsert ==
    /\ writer.at = "insert"
    /\ peers' = IF writer.id > Len(peers) THEN Append(peers, writer.data)
                ELSE [peers EXCEPT ![writer.id] = writer.data]
    /\ writer' = [writer EXCEPT !.at = "version"]
    /\ UNCHANGED <<versions, lockWriter, lockReaders, reader, handleOf, stored>>

\* ... a new id gets its first version ...
AllocVersion ==
    /\ writer.at = "version"
    /\ versions' = IF writer.id > Len(versions) THEN Append(versions, 1) ELSE versions
    /\ writer' = [writer EXCEPT !.at = "handle"]
    /\ UNCHANGED <<peers, lockWriter, lockReaders, reader, handleOf, stored>>

\* ... and the peer its handle
AllocUnlock ==
    /\ writer.at = "handle"
    /\ handleOf' = [handleOf EXCEPT ![writer.data] =
                       [id |-> writer.id, version |-> versions[writer.id]]]
    /\ stored' = stored \cup {writer.data}
    /\ writer' = Idle
    /\ lockWriter' = FALSE
    /\ UNCHANGED <<peers, versions, lockReaders, reader>>

\* PeerManager::Release of a peer that ExistsLocal finds, from its lock ...
ReleaseLock(d) ==
    /\ writer.at = "idle"
    /\ d \in stored
    /\ LockExclusive
    /\ writer' = [at |-> "remove", id |-> handleOf[d].id, data |-> d]
    /\ UNCHANGED <<peers, versions, lockReaders, reader, handleOf, stored>>

\* ... the entry is cleared ...
ReleaseRemove ==
    /\ writer.at = "remove"
    /\ peers' = [peers EXCEPT ![writer.id] = NoPeer]
    /\ writer' = [writer EXCEPT !.at = "bump"]
    /\ UNCHANGED <<versions, lockWriter, lockReaders, reader, handleOf, stored>>

\* ... and its id gets the next version
ReleaseUnlock ==
    /\ writer.at = "bump"
    /\ versions' = [versions EXCEPT ![writer.id] = @ + 1]
    /\ stored' = stored \ {writer.data}
    /\ writer' = Idle
    /\ lockWriter' = FALSE
    /\ UNCHANGED <<peers, lockReaders, reader, handleOf>>

-----------------------------------------------------------------------------
(* GetSharedPeer; ExistsShared and GetSharedHost take the same steps.      *)

At(r, step) == reader' = [reader EXCEPT ![r].at = step]

\* Mutant: the lookup takes no lock
LookupLockNone(r, handle) ==
    /\ reader[r].at = "idle"
    /\ lockReaders' = lockReaders
    /\ reader' = [reader EXCEPT ![r] = [at |-> "size", handle |-> handle, found |-> NoPeer]]
    /\ UNCHANGED <<peers, versions, lockWriter, writer, handleOf, stored>>

\* shared_lock
LookupLock(r, handle) ==
    /\ reader[r].at = "idle"
    /\ ~lockWriter
    /\ lockReaders' = lockReaders \cup {r}
    /\ reader' = [reader EXCEPT ![r] = [at |-> "size", handle |-> handle, found |-> NoPeer]]
    /\ UNCHANGED <<peers, versions, lockWriter, writer, handleOf, stored>>

\* ExistsLocal: an id beyond the table, ...
LookupSize(r) ==
    /\ reader[r].at = "size"
    /\ At(r, IF reader[r].handle.id \in DOMAIN versions THEN "peer" ELSE "done")
    /\ UNCHANGED <<peers, versions, lockWriter, lockReaders, writer, handleOf, stored>>

\* ... an empty entry ...
LookupPeer(r) ==
    /\ reader[r].at = "peer"
    /\ At(r, IF peers[reader[r].handle.id] = NoPeer THEN "done" ELSE "version")
    /\ UNCHANGED <<peers, versions, lockWriter, lockReaders, writer, handleOf, stored>>

\* ... and another version are no peer
LookupVersion(r) ==
    /\ reader[r].at = "version"
    /\ At(r, IF versions[reader[r].handle.id] = reader[r].handle.version
             THEN "read" ELSE "done")
    /\ UNCHANGED <<peers, versions, lockWriter, lockReaders, writer, handleOf, stored>>

\* GetLocalPeerData reads the entry, and the peer it shares is read from it
LookupRead(r) ==
    /\ reader[r].at = "read"
    /\ reader' = [reader EXCEPT ![r].at = "done",
                                ![r].found = peers[reader[r].handle.id]]
    /\ UNCHANGED <<peers, versions, lockWriter, lockReaders, writer, handleOf, stored>>

LookupUnlock(r) ==
    /\ reader[r].at = "done"
    /\ lockReaders' = lockReaders \ {r}
    /\ reader' = [reader EXCEPT ![r] = NoLookup]
    /\ UNCHANGED <<peers, versions, lockWriter, writer, handleOf, stored>>

\* The handles a thread may hold: those that were given out
Handles == {handleOf[d] : d \in Data}

LookupNext ==
    \/ \E d \in Data : AllocLock(d) \/ ReleaseLock(d)
    \/ AllocInsert \/ AllocVersion \/ AllocUnlock
    \/ ReleaseRemove \/ ReleaseUnlock
    \/ \E r \in Reader : \/ \E handle \in Handles : LookupLock(r, handle)
                         \/ LookupSize(r) \/ LookupPeer(r) \/ LookupVersion(r)
                         \/ LookupRead(r) \/ LookupUnlock(r)

LookupSpec == LookupInit /\ [][LookupNext]_lookupVars

-----------------------------------------------------------------------------
(* Properties.                                                             *)

\* A lookup under the shared lock finds the one peer its handle was given to if
\* that peer is in the table, and nothing if it is not, whatever the loop thread
\* does at the same time: never another peer that got the id later, never an entry
\* half written, never a table whose two halves differ in length
\* (PeerManager.cpp GetSharedPeer, ExistsShared, Alloc, Release).
LookupExact ==
    /\ LookupTypeOK
    /\ \A r \in Reader :
          /\ reader[r].at # "idle" => Len(peers) = Len(versions)
          /\ reader[r].at = "done" =>
                IF reader[r].found = NoPeer
                THEN \A d \in stored : handleOf[d] # reader[r].handle
                ELSE /\ reader[r].found \in stored
                     /\ \A d \in Data :
                           handleOf[d] = reader[r].handle <=> d = reader[r].found

=============================================================================
