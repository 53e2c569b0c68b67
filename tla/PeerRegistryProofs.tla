------------------------ MODULE PeerRegistryProofs ------------------------
(***************************************************************************)
(* The proof that PeerManager implements PeerRegistry.  The inductive      *)
(* invariant of PeerManagerProofs lets the three views of the table (what  *)
(* the hosts enumerate, what the handles lead to, what is to be flushed)   *)
(* be read off peerHandle and the flush set alone; a step of the           *)
(* operations on the vectors is then a step of the registry.               *)
(***************************************************************************)
EXTENDS PeerManagerProofs

\* The refinement mapping.
Fresh == {d \in PeerData : ~Constructed(d)}
Members == [h \in Host |-> ToSet(hostPeers[h])]
Resolves == {d \in PeerData : Live(d) /\ GetLocalPeerData(peerHandle[d]) = d}
Pending == {peers[id] : id \in ToSet(toFlush.peers)}

LiveSet == {d \in PeerData : Live(d)}
LiveOf(h) == {d \in PeerData : Live(d) /\ HostOf[d] = h}
LivePending ==
    {d \in PeerData : Live(d) /\ peerHandle[d].id \in ToSet(toFlush.peers)}

\* The three views describe the live peers.
OneView ==
    /\ Resolves = LiveSet
    /\ Members = [h \in Host |-> LiveOf(h)]
    /\ Pending = LivePending

\* The vectors of PeerReferences, the handles and PeersToFlush agree on which
\* peers are live.
LEMMA ViewsAgree == IInv => OneView
  <1> SUFFICES ASSUME IInv PROVE OneView
    OBVIOUS
  <1>1. \A d \in PeerData : Live(d) =>
           /\ peerHandle[d].id \in DOMAIN peers
           /\ peers[peerHandle[d].id] = d
           /\ peerHandle[d].version = versions[peerHandle[d].id]
    BY DEF IInv, HandlesOrdered
  <1>2. \A i \in DOMAIN peers : peers[i] # Null =>
           /\ peers[i] \in PeerData
           /\ Live(peers[i])
           /\ peerHandle[peers[i]].id = i
    BY DEF IInv, TypeOK, HandlesOrdered
  <1>3. Resolves = LiveSet
    <2>1. Len(versions) = Len(peers) /\ DOMAIN peers = 1 .. Len(peers)
      BY DEF IInv, TypeOK, FreeIdsExact
    <2>2. ASSUME NEW d \in PeerData, Live(d)
          PROVE  GetLocalPeerData(peerHandle[d]) = d
      <3>1. Len(peers) \in Nat /\ peerHandle[d].id \in 1 .. Len(peers)
        BY <1>1, <2>1, <2>2 DEF IInv, TypeOK
      <3> QED
        BY <1>1, <2>1, <2>2, <3>1, PeerManagerAssumption
           DEF GetLocalPeerData, ExistsLocal
    <2> QED
      BY <2>2 DEF Resolves, LiveSet
  <1>4. Members = [h \in Host |-> LiveOf(h)]
    <2> SUFFICES ASSUME NEW h \in Host PROVE ToSet(hostPeers[h]) = LiveOf(h)
      BY DEF Members
    <2>1. ASSUME NEW i \in DOMAIN hostPeers[h] PROVE hostPeers[h][i] \in LiveOf(h)
      <3> DEFINE d == hostPeers[h][i]
      <3>1. d \in PeerData /\ peerHandle[d] \in Handle
        BY DEF IInv, TypeOK
      <3>2. HostOf[d] = h /\ ExistsLocal(peerHandle[d])
        BY DEF IInv, HostOffsetsExact
      <3>3. peerHandle[d] # NoHandle
        BY <3>1, <3>2, ExistsFacts
      <3> QED
        BY <3>1, <3>2, <3>3 DEF LiveOf, Live
    <2>2. ASSUME NEW d \in PeerData, Live(d), HostOf[d] = h
          PROVE  \E i \in DOMAIN hostPeers[h] : hostPeers[h][i] = d
      BY <1>1, <2>2, PeerManagerAssumption DEF IInv, HostOffsetsExact
    <2> QED
      BY <2>1, <2>2 DEF ToSet, LiveOf
  <1>5. Pending = LivePending
    <2>1. \A id \in ToSet(toFlush.peers) : id \in DOMAIN peers /\ peers[id] # Null
      BY DEF IInv, FlushSetExact
    <2> QED
      BY <1>1, <1>2, <2>1 DEF Pending, LivePending
  <1> QED
    BY <1>3, <1>4, <1>5 DEF OneView

\* No two live peers share an id.
LEMMA LiveIdsDiffer ==
    ASSUME IInv, NEW d \in PeerData, NEW e \in PeerData, Live(d), Live(e),
           peerHandle[d].id = peerHandle[e].id
    PROVE  d = e
  BY DEF IInv, HandlesOrdered

-----------------------------------------------------------------------------
(* The steps.                                                              *)

\* PeerReferences::Alloc registers the peer with its host.
LEMMA AllocRegisters ==
    ASSUME IInv, OneView, OneView', NEW d \in PeerData, Alloc(d)
    PROVE  Registry!Register(d)
  <1> DEFINE id == NextId
             handle == [id |-> id, version |-> versions'[id]]
  <1>1. /\ id \in Nat \ {0} /\ id \in 1 .. Len(peers')
        /\ versions' \in Seq(1 .. VersionMod - 1)
        /\ Len(versions') = Len(peers')
        /\ id \in DOMAIN peers => peers[id] = Null
        /\ issued' = [issued EXCEPT ![d] = handle]
        /\ peerHandle' = [peerHandle EXCEPT ![d] = handle]
    BY AllocFacts
  <1>2. toFlush' = toFlush /\ issued[d] = NoHandle
    BY DEF Alloc, flush, Constructed
  <1> HIDE DEF id
  <1>3. handle # NoHandle
    BY <1>1, PeerManagerAssumption DEF NoHandle
  <1>4. ~Live(d)
    BY <1>2 DEF IInv, HandlesOrdered, Live
  <1>5. id \notin ToSet(toFlush.peers)
    BY <1>1 DEF IInv, FlushSetExact
  <1>6. /\ peerHandle'[d] = handle /\ issued'[d] = handle
        /\ \A e \in PeerData : e # d =>
              peerHandle'[e] = peerHandle[e] /\ issued'[e] = issued[e]
    BY <1>1 DEF IInv, TypeOK
  <1>7. Live(d)' /\ \A e \in PeerData : e # d => (Live(e)' <=> Live(e))
    BY <1>3, <1>6 DEF Live
  <1>8. d \in Fresh /\ Fresh' = Fresh \ {d}
    BY <1>2, <1>3, <1>6 DEF Fresh, Constructed
  <1>9. Resolves' = Resolves \cup {d}
    BY <1>7 DEF OneView, LiveSet
  <1>10. Members' = [Members EXCEPT ![HostOf[d]] = @ \cup {d}]
    <2>1. \A h \in Host :
             LiveOf(h)' = IF h = HostOf[d] THEN LiveOf(h) \cup {d} ELSE LiveOf(h)
      BY <1>7 DEF LiveOf
    <2> QED
      BY <2>1, PeerManagerAssumption DEF OneView
  <1>11. Pending' = Pending
    <2>1. LivePending' = LivePending
      BY <1>2, <1>4, <1>5, <1>6, <1>7 DEF LivePending
    <2> QED
      BY <2>1 DEF OneView
  <1> QED
    BY <1>8, <1>9, <1>10, <1>11
       DEF Registry!Register, Fresh, Members, Resolves, Pending

\* PeerReferences::Release takes the peer out of all three views.
LEMMA ReleaseUnregisters ==
    ASSUME IInv, OneView, OneView', NEW d \in PeerData, Release(d)
    PROVE  Registry!Unregister(d)
  <1> DEFINE id == peerHandle[d].id
  <1>1. peerHandle[d] # NoHandle /\ id \in Nat \ {0}
    BY ReleaseFacts DEF IInv, TypeOK, Handle
  <1>2. /\ toFlush' = RemovePeerToFlush(toFlush, id)
        /\ issued' = issued
        /\ peerHandle' = [peerHandle EXCEPT ![d] = NoHandle]
    BY DEF Release
  <1>3. toFlush \in FlushType /\ Sparse(toFlush)
    BY DEF IInv, TypeOK, FlushSetExact, FlushType
  <1>4. ToSet(toFlush'.peers) = ToSet(toFlush.peers) \ {id}
    BY Zenon, <1>1, <1>2, <1>3, RemoveFacts
  <1>5. /\ peerHandle'[d] = NoHandle
        /\ \A e \in PeerData : e # d => peerHandle'[e] = peerHandle[e]
    BY <1>2 DEF IInv, TypeOK
  <1>6. /\ Live(d) /\ ~Live(d)'
        /\ \A e \in PeerData : e # d => (Live(e)' <=> Live(e))
    BY <1>1, <1>5 DEF Live
  <1>7. Fresh' = Fresh
    BY <1>2 DEF Fresh, Constructed
  <1>8. d \in Resolves /\ Resolves' = Resolves \ {d}
    BY <1>6 DEF OneView, LiveSet
  <1>9. Members' = [Members EXCEPT ![HostOf[d]] = @ \ {d}]
    <2>1. \A h \in Host :
             LiveOf(h)' = IF h = HostOf[d] THEN LiveOf(h) \ {d} ELSE LiveOf(h)
      BY <1>6 DEF LiveOf
    <2> QED
      BY <2>1, PeerManagerAssumption DEF OneView
  <1>10. Pending' = Pending \ {d}
    <2>1. \A e \in PeerData : Live(e) /\ e # d => peerHandle[e].id # id
      BY <1>6, LiveIdsDiffer
    <2>2. LivePending' = {e \in PeerData :
             Live(e)' /\ peerHandle'[e].id \in ToSet(toFlush'.peers)}
      BY DEF LivePending, ToSet
    <2>3. LivePending' = LivePending \ {d}
      BY <1>4, <1>5, <1>6, <2>1, <2>2 DEF LivePending
    <2> QED
      BY <2>3 DEF OneView
  <1> QED
    BY <1>7, <1>8, <1>9, <1>10
       DEF Registry!Unregister, Fresh, Members, Resolves, Pending

\* A step of the flush set leaves the rest of the registry alone.
LEMMA FlushKeepsTable ==
    ASSUME OneView, OneView', UNCHANGED <<table, refs>>
    PROVE  /\ Fresh' = Fresh /\ Members' = Members /\ Resolves' = Resolves
           /\ Pending = LivePending
           /\ Pending' = {e \in PeerData :
                             Live(e) /\ peerHandle[e].id \in ToSet(toFlush'.peers)}
  <1>1. peerHandle' = peerHandle /\ issued' = issued /\ hostPeers' = hostPeers
    BY DEF refs
  <1>2. Fresh' = Fresh /\ Members' = Members
    BY <1>1 DEF Fresh, Members, Constructed, ToSet
  <1>3. Resolves' = Resolves
    BY <1>1 DEF OneView, LiveSet, Live
  <1>4. Pending' = {e \in PeerData :
                       Live(e) /\ peerHandle[e].id \in ToSet(toFlush'.peers)}
    BY <1>1 DEF OneView, LivePending, Live, ToSet
  <1> QED
    BY <1>2, <1>3, <1>4 DEF OneView

\* Loop::_InternalInsertPeerToFlush marks the peer as pending.
LEMMA InsertMarks ==
    ASSUME IInv, OneView, OneView', NEW d \in PeerData, Insert(d)
    PROVE  Registry!MarkPending(d)
  <1> DEFINE id == peerHandle[d].id
  <1>1. /\ toFlush' = InsertPeerToFlush(toFlush, id)
        /\ UNCHANGED <<table, refs>>
        /\ Live(d) /\ id \in Nat \ {0}
    BY DEF Insert, IInv, TypeOK, Handle
  <1>2. toFlush \in FlushType /\ Sparse(toFlush)
    BY DEF IInv, TypeOK, FlushSetExact, FlushType
  <1>3. ToSet(toFlush'.peers) = ToSet(toFlush.peers) \cup {id}
    BY <1>1, <1>2, InsertFacts
  <1>4. \A e \in PeerData : Live(e) /\ e # d => peerHandle[e].id # id
    BY <1>1, LiveIdsDiffer
  <1>5. Pending' = Pending \cup {d}
    BY <1>1, <1>3, <1>4, FlushKeepsTable DEF LivePending
  <1>6. d \in Resolves
    BY <1>1 DEF OneView, LiveSet
  <1>7. Fresh' = Fresh /\ Members' = Members /\ Resolves' = Resolves
    BY <1>1, FlushKeepsTable
  <1> QED
    BY <1>5, <1>6, <1>7
       DEF Registry!MarkPending, Fresh, Members, Resolves, Pending

\* An iteration of FlushPendingPeers takes the peer it visits out of the
\* pending ones or changes nothing the registry shows.
LEMMA FlushVisitDrains ==
    ASSUME IInv, OneView, OneView', NEW drained \in BOOLEAN, FlushVisit(drained)
    PROVE  \/ \E d \in PeerData : Registry!MarkDrained(d)
           \/ UNCHANGED Registry!vars
  <1> DEFINE id == toFlush.peers[flushIndex]
  <1>1. /\ UNCHANGED <<table, refs>>
        /\ toFlush' = toFlush \/ toFlush' = RemovePeerToFlush(toFlush, id)
    BY DEF FlushVisit
  <1>2. toFlush \in FlushType /\ Sparse(toFlush)
    BY DEF IInv, TypeOK, FlushSetExact, FlushType
  <1>3. flushIndex \in DOMAIN toFlush.peers
    BY DEF IInv, TypeOK, FlushVisitsAll, FlushVisit
  <1>4. id \in ToSet(toFlush.peers) /\ id \in Nat \ {0}
    BY <1>2, <1>3 DEF ToSet, FlushType
  <1>5. id \in DOMAIN peers /\ peers[id] # Null
    BY <1>4 DEF IInv, FlushSetExact
  <1>6. PICK d \in PeerData : Live(d) /\ peerHandle[d].id = id
    <2>1. peers[id] \in PeerData
      BY <1>5 DEF IInv, TypeOK
    <2>2. Live(peers[id]) /\ peerHandle[peers[id]].id = id
      BY <1>5 DEF IInv, HandlesOrdered
    <2> QED
      BY <2>1, <2>2 DEF Live
  <1>7. Fresh' = Fresh /\ Members' = Members /\ Resolves' = Resolves
    BY <1>1, FlushKeepsTable
  <1> HIDE DEF id
  <1>8. CASE toFlush' = toFlush
    <2>1. Pending' = Pending
      BY <1>1, <1>8, FlushKeepsTable DEF LivePending
    <2> QED
      BY Zenon, <1>7, <2>1 DEF Registry!vars, Fresh, Members, Resolves, Pending
  <1>9. CASE toFlush' = RemovePeerToFlush(toFlush, id)
    <2>1. ToSet(toFlush'.peers) = ToSet(toFlush.peers) \ {id}
      BY Zenon, <1>2, <1>4, <1>9, RemoveFacts
    <2>2. \A e \in PeerData : Live(e) /\ e # d => peerHandle[e].id # id
      BY <1>6, LiveIdsDiffer
    <2>3. d \in Pending /\ Pending' = Pending \ {d}
      BY <1>1, <1>4, <1>6, <2>1, <2>2, FlushKeepsTable DEF LivePending
    <2>4. Registry!MarkDrained(d)
      BY <1>7, <2>3 DEF Registry!MarkDrained, Fresh, Members, Resolves, Pending
    <2> QED
      BY <1>6, <2>4
  <1> QED
    BY <1>1, <1>8, <1>9

\* Entering the loop of FlushPendingPeers, or not moving at all, changes
\* nothing the registry shows.
LEMMA RegistryStutters ==
    ASSUME OneView, OneView', FlushBegin \/ UNCHANGED vars
    PROVE  UNCHANGED Registry!vars
  <1>1. UNCHANGED <<table, refs>> /\ toFlush' = toFlush
    BY DEF FlushBegin, vars, flush
  <1>2. Pending' = Pending
    BY Zenon, <1>1, FlushKeepsTable DEF LivePending
  <1>3. Fresh' = Fresh /\ Members' = Members /\ Resolves' = Resolves
    BY <1>1, FlushKeepsTable
  <1> QED
    BY Zenon, <1>2, <1>3 DEF Registry!vars, Fresh, Members, Resolves, Pending

-----------------------------------------------------------------------------
\* The vectors, versions and offsets of PeerManager, PeerReferences and
\* PeersToFlush implement the registry for any number of peers, hosts and
\* versions: what a host enumerates, what the handles lead to and what is
\* flushed are one set of peers, each of them registered once.
THEOREM TableImplementsRegistry == Spec => ImplementsRegistry
  <1>1. Init => Registry!Init
    BY DEF Init, Registry!Init, Constructed, Live, ToSet
  <1>2. IInv /\ OneView /\ OneView' /\ [Next]_vars
           => [Registry!Next]_(Registry!vars)
    <2> SUFFICES ASSUME IInv, OneView, OneView', [Next]_vars
                 PROVE  Registry!Next \/ UNCHANGED Registry!vars
      OBVIOUS
    <2>1. CASE \E d \in PeerData : Alloc(d)
      BY <2>1, AllocRegisters DEF Registry!Next
    <2>2. CASE \E d \in PeerData : Release(d)
      BY <2>2, ReleaseUnregisters DEF Registry!Next
    <2>3. CASE \E d \in PeerData : Insert(d)
      BY <2>3, InsertMarks DEF Registry!Next
    <2>4. CASE FlushBegin
      BY <2>4, RegistryStutters
    <2>5. CASE \E drained \in BOOLEAN : FlushVisit(drained)
      BY <2>5, FlushVisitDrains DEF Registry!Next
    <2>6. CASE UNCHANGED vars
      BY <2>6, RegistryStutters
    <2> QED
      BY <2>1, <2>2, <2>3, <2>4, <2>5, <2>6 DEF Next
  <1> QED
    BY <1>1, <1>2, Invariance, ViewsAgree, PTL
       DEF Spec, ImplementsRegistry, Registry!Spec

=============================================================================
