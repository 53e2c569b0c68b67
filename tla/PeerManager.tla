---------------------------- MODULE PeerManager ----------------------------
(***************************************************************************)
(* The peer table of a Loop: PeerManager (slots, versions, free ids), the  *)
(* per-host PeerReferences vector that shares its offsets with it, and the *)
(* PeersToFlush sparse set kept beside it (src/PeerManager.cpp,            *)
(* src/PeersToFlush.cpp, Loop::FlushPendingPeers in src/Loop.cpp).         *)
(*                                                                         *)
(* All of it is written by the loop's thread only, so a call is one step.  *)
(* The one long handler, FlushPendingPeers, is a step per loop iteration   *)
(* guarded by its loop counter flushIndex; nothing else runs while it is   *)
(* positive.                                                               *)
(*                                                                         *)
(* Vectors are sequences, so every id, offset and index is one more than   *)
(* in the code and the code's -1 ("no offset") is 0.                       *)
(***************************************************************************)
EXTENDS Integers, SequencesExt

CONSTANTS
    PeerData,       \* the PeerData objects the hosts of the loop ever create
    Host,           \* the hosts of the loop
    HostOf,         \* PeerData::host, set by the constructor
    Null,           \* a null shared_ptr
    VersionMod      \* 2^32: how many values a version has

ASSUME PeerManagerAssumption ==
    /\ Null \notin PeerData
    /\ HostOf \in [PeerData -> Host]
    /\ VersionMod \in Nat /\ VersionMod > 1

VARIABLES
    peers,          \* PeerManager::peers, a PeerData or Null per id
    versions,       \* PeerManager::versions
    freeIds,        \* PeerManager::freeIds, a stack
    perHostOffset,  \* PeerManager::perHostOffset
    hostPeers,      \* PeerReferences::peers of every host
    peerHandle,     \* PeerData::peerHandle of every object
    toFlush,        \* PeerManager::peersToFlush, [peers, offsets]
    flushIndex,     \* i + 1 of the loop in FlushPendingPeers, 0 outside it
    \* History: the handle every object was given and the epoch of its slot
    \* then (what users keep a copy of), how often the version of a slot
    \* wrapped, and the ids that FlushPendingPeers has yet to visit.
    issued,
    issuedEpoch,
    epoch,
    unvisited

table == <<peers, versions, freeIds, epoch>>
flush == <<toFlush, flushIndex, unvisited>>
refs  == <<perHostOffset, hostPeers, peerHandle, issued, issuedEpoch>>
vars  == <<table, flush, refs>>

\* PeerHandle{}: id 0 and version 0.
NoHandle == [id |-> 1, version |-> 0]

Handle == [id : Nat \ {0}, version : 0 .. VersionMod - 1]

-----------------------------------------------------------------------------
(* Vectors.                                                                *)

\* v[i] = v.back(); v.pop_back()
SwapPop(v, i) == Front([v EXCEPT ![i] = Last(v)])

\* v.resize(n, -1) when v is shorter than n
Grown(v, n) ==
    [i \in 1 .. (IF Len(v) < n THEN n ELSE Len(v)) |->
        IF i <= Len(v) THEN v[i] ELSE 0]

-----------------------------------------------------------------------------
(* PeersToFlush.                                                           *)

InsertPeerToFlush(f, id) ==
    LET offsets == Grown(f.offsets, id)
    IN  IF offsets[id] > 0
        THEN [f EXCEPT !.offsets = offsets]
        ELSE [peers   |-> Append(f.peers, id),
              offsets |-> [offsets EXCEPT ![id] = Len(f.peers) + 1]]

\* Mutant of RemovePeerToFlush: it clears the vectors.
RemovePeerToFlushClears(f, id) ==
    IF Len(f.offsets) < id \/ f.offsets[id] = 0
    THEN f
    ELSE [peers |-> <<>>, offsets |-> [i \in DOMAIN f.offsets |-> 0]]

RemovePeerToFlush(f, id) ==
    IF Len(f.offsets) < id \/ f.offsets[id] = 0
    THEN f
    ELSE LET off     == f.offsets[id]
             cleared == [f.offsets EXCEPT ![id] = 0]
         IN  [peers   |-> SwapPop(f.peers, off),
              offsets |-> IF off # Len(f.peers)
                          THEN [cleared EXCEPT ![Last(f.peers)] = off]
                          ELSE cleared]

-----------------------------------------------------------------------------
(* PeerManager lookups.                                                    *)

ExistsLocal(h) ==
    /\ h.id <= Len(versions)
    /\ peers[h.id] # Null
    /\ h.version = versions[h.id]

GetLocalPeerData(h) == IF ExistsLocal(h) THEN peers[h.id] ELSE Null

Constructed(d) == issued[d] # NoHandle

Live(d) == peerHandle[d] # NoHandle

-----------------------------------------------------------------------------
(* PeerManager and PeerReferences operations.                              *)

\* Mutant of NextVersion: the version stays
NextVersionSame(v) == v

\* versions[id]++, skipping 0 on overflow
NextVersion(v) ==
    LET w == (v + 1) % VersionMod IN IF w = 0 THEN w + 1 ELSE w

\* Mutant of NextId: the slot is taken from the front, the back is popped.
NextIdFromFront == IF Len(freeIds) > 0 THEN Head(freeIds) ELSE Len(peers) + 1

\* The slot the next Alloc uses: freeIds.back() or one past the end
NextId == IF Len(freeIds) > 0 THEN Last(freeIds) ELSE Len(peers) + 1

\* PeerReferences::Alloc of a new object
Alloc(d) ==
    LET reuse  == Len(freeIds) > 0
        id     == NextId
        handle == [id |-> id, version |-> IF reuse THEN versions[id] ELSE 1]
        h      == HostOf[d]
        slot   == Len(hostPeers[h]) + 1
    IN  /\ flushIndex = 0
        /\ ~Constructed(d)
        /\ IF reuse
           THEN /\ freeIds' = Front(freeIds)
                /\ peers' = [peers EXCEPT ![id] = d]
                /\ perHostOffset' = [perHostOffset EXCEPT ![id] = slot]
                /\ UNCHANGED <<versions, epoch>>
           ELSE /\ peers' = Append(peers, d)
                /\ versions' = Append(versions, 1)
                /\ perHostOffset' = Append(perHostOffset, slot)
                /\ epoch' = Append(epoch, 0)
                /\ UNCHANGED freeIds
        /\ hostPeers' = [hostPeers EXCEPT ![h] = Append(@, d)]
        /\ peerHandle' = [peerHandle EXCEPT ![d] = handle]
        /\ issued' = [issued EXCEPT ![d] = handle]
        /\ issuedEpoch' =
              [issuedEpoch EXCEPT ![d] = IF reuse THEN epoch[id] ELSE 0]
        /\ UNCHANGED flush

\* PeerReferences::Release of the object's handle, then the
\* _InternalClearInternalDataOnClose that both of its callers run
Release(d) ==
    LET handle == peerHandle[d]
        id     == handle.id
        h      == HostOf[d]
        off    == perHostOffset[id]
        moved  == peerHandle[Last(hostPeers[h])].id
        clear  == [perHostOffset EXCEPT ![id] = 0]
    IN  /\ flushIndex = 0
        /\ ExistsLocal(handle)
        /\ freeIds' = Append(freeIds, id)
        /\ peers' = [peers EXCEPT ![id] = Null]
        /\ versions' = [versions EXCEPT ![id] = NextVersion(@)]
        /\ epoch' = [epoch EXCEPT ![id] =
                        IF (versions[id] + 1) % VersionMod = 0 THEN @ + 1 ELSE @]
        /\ toFlush' = RemovePeerToFlush(toFlush, id)
        /\ perHostOffset' = IF off # Len(hostPeers[h])
                            THEN [clear EXCEPT ![moved] = off]
                            ELSE clear
        /\ hostPeers' = [hostPeers EXCEPT ![h] = SwapPop(@, off)]
        /\ peerHandle' = [peerHandle EXCEPT ![d] = NoHandle]
        /\ UNCHANGED <<issued, issuedEpoch, flushIndex, unvisited>>

-----------------------------------------------------------------------------
(* The Loop's use of the sparse set.                                       *)

\* Loop::_InternalInsertPeerToFlush, called by PeerData::Send for a peer
\* with nothing pending
Insert(d) ==
    /\ flushIndex = 0
    /\ Live(d)
    /\ toFlush' = InsertPeerToFlush(toFlush, peerHandle[d].id)
    /\ UNCHANGED <<table, refs, flushIndex, unvisited>>

\* Mutant of FlushBegin: the loop starts one element too low.
FlushBeginBelowLast ==
    /\ flushIndex = 0
    /\ toFlush.peers # <<>>
    /\ flushIndex' = Len(toFlush.peers) - 1
    /\ unvisited' = ToSet(toFlush.peers)
    /\ UNCHANGED <<table, refs, toFlush>>

\* FlushPendingPeers enters its loop
FlushBegin ==
    /\ flushIndex = 0
    /\ toFlush.peers # <<>>
    /\ flushIndex' = Len(toFlush.peers)
    /\ unvisited' = ToSet(toFlush.peers)
    /\ UNCHANGED <<table, refs, toFlush>>

\* One iteration: the id at i is flushed, and removed when its slot is empty
\* or the peer has nothing pending any more (drained)
FlushVisit(drained) ==
    LET id == toFlush.peers[flushIndex]
    IN  /\ flushIndex > 0
        /\ toFlush' = IF peers[id] = Null \/ drained
                      THEN RemovePeerToFlush(toFlush, id)
                      ELSE toFlush
        /\ flushIndex' = flushIndex - 1
        /\ unvisited' = unvisited \ {id}
        /\ UNCHANGED <<table, refs>>

-----------------------------------------------------------------------------
Init ==
    /\ peers = <<>>
    /\ versions = <<>>
    /\ freeIds = <<>>
    /\ epoch = <<>>
    /\ perHostOffset = <<>>
    /\ hostPeers = [h \in Host |-> <<>>]
    /\ peerHandle = [d \in PeerData |-> NoHandle]
    /\ issued = [d \in PeerData |-> NoHandle]
    /\ issuedEpoch = [d \in PeerData |-> 0]
    /\ toFlush = [peers |-> <<>>, offsets |-> <<>>]
    /\ flushIndex = 0
    /\ unvisited = {}

Next ==
    \/ \E d \in PeerData : Alloc(d)
    \/ \E d \in PeerData : Release(d)
    \/ \E d \in PeerData : Insert(d)
    \/ FlushBegin
    \/ \E drained \in BOOLEAN : FlushVisit(drained)

Spec == Init /\ [][Next]_vars

-----------------------------------------------------------------------------
(* Properties.                                                             *)

TypeOK ==
    /\ peers \in Seq(PeerData \cup {Null})
    /\ versions \in Seq(1 .. VersionMod - 1)
    /\ epoch \in Seq(Nat)
    /\ freeIds \in Seq(Nat \ {0})
    /\ perHostOffset \in Seq(Nat)
    /\ hostPeers \in [Host -> Seq(PeerData)]
    /\ peerHandle \in [PeerData -> Handle]
    /\ issued \in [PeerData -> Handle]
    /\ issuedEpoch \in [PeerData -> Nat]
    /\ toFlush \in [peers : Seq(Nat \ {0}), offsets : Seq(Nat)]
    /\ flushIndex \in Nat
    /\ unvisited \in SUBSET (Nat \ {0})

\* A handle that a user kept leads to the peer it was issued for or to
\* nothing, however often PeerManager recycled the slot since, as long as
\* the slot's version counter has not wrapped.  A live peer's handle always
\* leads to that peer.
HandleSafety ==
    \A d \in PeerData : Constructed(d) =>
        LET found == GetLocalPeerData(issued[d])
        IN  /\ found \notin {d, Null} => epoch[issued[d].id] > issuedEpoch[d]
            /\ Live(d) => peerHandle[d] = issued[d] /\ found = d

\* freeIds holds every empty slot of PeerManager::peers exactly once, so
\* that Alloc never hands out an occupied slot (its assert) and no released
\* slot leaks.
FreeIdsExact ==
    /\ Len(versions) = Len(peers)
    /\ Len(perHostOffset) = Len(peers)
    /\ \A i, j \in DOMAIN freeIds : freeIds[i] = freeIds[j] => i = j
    /\ ToSet(freeIds) = {id \in DOMAIN peers : peers[id] = Null}

\* perHostOffset is the position of every live peer in the vector of its own
\* host and -1 for an empty slot, and those vectors hold nothing else: the
\* swap-with-last of PeerReferences::Release loses and duplicates no peer.
HostOffsetsExact ==
    /\ \A id \in DOMAIN peers :
          IF peers[id] = Null
          THEN perHostOffset[id] = 0
          ELSE /\ perHostOffset[id] \in DOMAIN hostPeers[HostOf[peers[id]]]
               /\ hostPeers[HostOf[peers[id]]][perHostOffset[id]] = peers[id]
    /\ \A h \in Host : \A i \in DOMAIN hostPeers[h] :
          LET d == hostPeers[h][i]
          IN  /\ HostOf[d] = h
              /\ ExistsLocal(peerHandle[d])
              /\ perHostOffset[peerHandle[d].id] = i

\* The two vectors of a PeersToFlush are inverse to each other.
Sparse(f) ==
    /\ \A i \in DOMAIN f.peers :
          /\ f.peers[i] \in DOMAIN f.offsets
          /\ f.offsets[f.peers[i]] = i
    /\ \A id \in DOMAIN f.offsets : f.offsets[id] # 0 =>
          /\ f.offsets[id] \in DOMAIN f.peers
          /\ f.peers[f.offsets[id]] = id

\* PeersToFlush is a sparse set over the ids of live peers: Insert and
\* Remove keep it one, and a released slot is never left in it for the next
\* peer that gets the slot.
FlushSetExact ==
    /\ Sparse(toFlush)
    /\ \A id \in ToSet(toFlush.peers) :
          id \in DOMAIN peers /\ peers[id] # Null

\* The vectors of PeerManager, PeerReferences and PeersToFlush, which no two
\* operations write in the same order, agree in every state: free list, per-host
\* vectors and flush set describe one and the same table of peers.
TablesExact == TypeOK /\ FreeIdsExact /\ HostOffsetsExact /\ FlushSetExact

\* FlushPendingPeers walks the vector it removes from downwards, so that the
\* element swapped into a hole has been visited: the ids below the loop
\* counter are at every moment exactly those not visited yet, none skipped
\* and none seen twice.
FlushVisitsAll ==
    /\ flushIndex <= Len(toFlush.peers)
    /\ unvisited = {toFlush.peers[i] : i \in 1 .. flushIndex}

-----------------------------------------------------------------------------
(* The inductive invariant.                                                *)

\* The (epoch, version) pair of a slot only grows: it equals that of the
\* peer in the slot and exceeds that of every peer that had the slot before.
HandlesOrdered ==
    /\ Len(epoch) = Len(peers)
    /\ \A id \in DOMAIN peers : peers[id] # Null =>
          /\ Live(peers[id])
          /\ peerHandle[peers[id]].id = id
    /\ \A d \in PeerData : Live(d) =>
          /\ peerHandle[d] = issued[d]
          /\ issued[d].id \in DOMAIN peers
          /\ peers[issued[d].id] = d
          /\ issued[d].version = versions[issued[d].id]
          /\ issuedEpoch[d] = epoch[issued[d].id]
    /\ \A d \in PeerData : Constructed(d) =>
          /\ issued[d].id \in DOMAIN peers
          /\ \/ Live(d)
             \/ issuedEpoch[d] < epoch[issued[d].id]
             \/ /\ issuedEpoch[d] = epoch[issued[d].id]
                /\ issued[d].version < versions[issued[d].id]

IInv ==
    /\ TypeOK
    /\ HandlesOrdered
    /\ FreeIdsExact
    /\ HostOffsetsExact
    /\ FlushSetExact
    /\ FlushVisitsAll

-----------------------------------------------------------------------------
Registry == INSTANCE PeerRegistry WITH
    fresh    <- {d \in PeerData : ~Constructed(d)},
    members  <- [h \in Host |-> ToSet(hostPeers[h])],
    resolves <- {d \in PeerData : Live(d) /\ GetLocalPeerData(peerHandle[d]) = d},
    pending  <- {peers[id] : id \in ToSet(toFlush.peers)}

\* The vectors, versions and offsets implement the abstract registry: what
\* a host enumerates, what handles resolve to and what is flushed agree.
ImplementsRegistry == Registry!Spec

=============================================================================
