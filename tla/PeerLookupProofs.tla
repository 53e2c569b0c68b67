--------------------------- MODULE PeerLookupProofs ---------------------------
(* Lookups under the shared lock are exact, for any number of threads and    *)
(* peers.                                                                    *)
EXTENDS PeerLookup, SequenceTheorems, TLAPS

\* The mutex excludes: the loop thread holds it while it changes the table, and
\* then no other thread does.
Exclusion ==
    /\ lockWriter <=> writer.at # "idle"
    /\ lockWriter => lockReaders = {}
    /\ \A r \in Reader : reader[r].at # "idle" => r \in lockReaders

Allocating == writer.at \in {"insert", "version", "handle"}

\* What the loop thread is at, and how far the table is.
WriterAt ==
    /\ Allocating => writer.data \in Data \ stored /\ handleOf[writer.data] = NoHandle
    /\ writer.at = "insert" =>
          /\ writer.id \in 1 .. Len(peers) + 1
          /\ writer.id <= Len(peers) => peers[writer.id] = NoPeer
    /\ writer.at \in {"version", "handle"} =>
          writer.id \in DOMAIN peers /\ peers[writer.id] = writer.data
    /\ writer.at \in {"remove", "bump"} =>
          writer.data \in stored /\ writer.id = handleOf[writer.data].id
    /\ writer.at = "bump" => peers[writer.id] = NoPeer

\* Both halves of the table have the same length, but for a new id on its way.
SameLength ==
    IF writer.at = "version" /\ writer.id > Len(versions)
    THEN Len(peers) = Len(versions) + 1 /\ writer.id = Len(peers)
    ELSE Len(peers) = Len(versions)

\* A stored peer is where its handle says, with that version.
StoredFound ==
    \A d \in stored :
        /\ handleOf[d].id \in DOMAIN versions
        /\ versions[handleOf[d].id] = handleOf[d].version
        /\ ~(writer.at = "bump" /\ d = writer.data) => peers[handleOf[d].id] = d

\* An entry is the one of a stored peer, or of the peer that is being inserted.
EntryStored ==
    \A i \in DOMAIN peers :
        \/ peers[i] = NoPeer
        \/ peers[i] \in stored /\ handleOf[peers[i]].id = i
        \/ writer.at \in {"version", "handle"} /\ i = writer.id

\* The handle of a peer that is not in the table has no version any more.
Outdated ==
    \A d \in Data \ stored :
        \/ handleOf[d] = NoHandle
        \/ /\ handleOf[d].id \in DOMAIN versions
           /\ handleOf[d].version < versions[handleOf[d].id]

Table == WriterAt /\ SameLength /\ StoredFound /\ EntryStored /\ Outdated

Result(r) ==
    IF reader[r].found = NoPeer
    THEN \A d \in stored : handleOf[d] # reader[r].handle
    ELSE /\ reader[r].found \in stored
         /\ \A d \in Data : handleOf[d] = reader[r].handle <=> d = reader[r].found

\* What a thread has made sure of so far.
ReaderAt(r) ==
    /\ reader[r].at \notin {"idle", "done"} => reader[r].found = NoPeer
    /\ reader[r].at \in {"peer", "version", "read"} =>
          reader[r].handle.id \in DOMAIN versions
    /\ reader[r].at \in {"version", "read"} => peers[reader[r].handle.id] # NoPeer
    /\ reader[r].at = "read" =>
          versions[reader[r].handle.id] = reader[r].handle.version
    /\ reader[r].at = "done" => Result(r)

IInv == LookupTypeOK /\ Exclusion /\ Table /\ \A r \in Reader : ReaderAt(r)

-----------------------------------------------------------------------------
\* The steps of the loop thread and of the others.
WriterStep ==
    \/ \E d \in Data : AllocLock(d) \/ ReleaseLock(d)
    \/ AllocInsert \/ AllocVersion \/ AllocUnlock
    \/ ReleaseRemove \/ ReleaseUnlock

ReaderStep(r) ==
    \/ \E handle \in Handles : LookupLock(r, handle)
    \/ LookupSize(r) \/ LookupPeer(r) \/ LookupVersion(r)
    \/ LookupRead(r) \/ LookupUnlock(r)

\* Every step of the loop thread finds and leaves the other threads idle.
LEMMA WriterAlone ==
    ASSUME IInv, WriterStep
    PROVE  /\ \A r \in Reader : reader'[r].at = "idle"
           /\ UNCHANGED <<reader, lockReaders>>
           /\ lockReaders = {}
  <1> USE DEF IInv, LookupTypeOK, Exclusion
  <1>1. UNCHANGED <<reader, lockReaders>>
    BY DEF WriterStep, AllocLock, ReleaseLock, AllocInsert, AllocVersion, AllocUnlock,
           ReleaseRemove, ReleaseUnlock
  <1>2. lockReaders = {}
    BY DEF WriterStep, AllocLock, ReleaseLock, LockExclusive, AllocInsert, AllocVersion,
           AllocUnlock, ReleaseRemove, ReleaseUnlock
  <1> QED
    BY <1>1, <1>2

\* A step of the loop thread keeps types, the exclusion and the table.
LEMMA WriterKeeps ==
    ASSUME IInv, WriterStep
    PROVE  LookupTypeOK' /\ Exclusion' /\ Table'
  <1> USE PeerLookupAssumption DEF IInv, LookupTypeOK, Handle
  <1>0. /\ \A r \in Reader : reader'[r].at = "idle"
        /\ UNCHANGED <<reader, lockReaders>>
        /\ lockReaders = {}
    BY WriterAlone
  <1>1. ASSUME NEW d \in Data, AllocLock(d) PROVE LookupTypeOK' /\ Exclusion' /\ Table'
    <2>1. PICK i \in IF FreeIds = {} THEN {Len(peers) + 1} ELSE FreeIds :
             writer' = [at |-> "insert", id |-> i, data |-> d]
      BY <1>1 DEF AllocLock
    <2>2. i \in 1 .. Len(peers) + 1 /\ (i <= Len(peers) => peers[i] = NoPeer)
      BY <2>1 DEF FreeIds
    <2>3. d \notin stored
      BY <1>1 DEF AllocLock, Table, StoredFound, NoHandle
    <2>4. LookupTypeOK'
      BY <1>1, <2>1, <2>2 DEF AllocLock, LockExclusive
    <2>5. Exclusion'
      BY <1>0, <1>1, <2>1 DEF AllocLock, LockExclusive, Exclusion
    <2>6. Table'
      BY <1>1, <2>1, <2>2, <2>3 DEF AllocLock, Table, WriterAt, SameLength, StoredFound,
         EntryStored, Outdated, Allocating
    <2> QED
      BY <2>4, <2>5, <2>6
  <1>2. ASSUME NEW d \in Data, ReleaseLock(d) PROVE LookupTypeOK' /\ Exclusion' /\ Table'
    <2>1. LookupTypeOK'
      BY <1>2 DEF ReleaseLock, LockExclusive
    <2>2. Exclusion'
      BY <1>0, <1>2 DEF ReleaseLock, LockExclusive, Exclusion
    <2>3. Table'
      BY <1>2 DEF ReleaseLock, Table, WriterAt, SameLength, StoredFound, EntryStored,
         Outdated, Allocating
    <2> QED
      BY <2>1, <2>2, <2>3
  <1>3. CASE AllocInsert
    <2> USE DEF AllocInsert
    <2>1. peers' \in Seq(Data \cup {NoPeer}) /\ Len(peers') >= Len(peers)
          /\ Len(peers') = IF writer.id > Len(peers) THEN Len(peers) + 1 ELSE Len(peers)
      <3>1. writer.id \in 1 .. Len(peers) + 1 /\ writer.data \in Data \cup {NoPeer}
            /\ Len(peers) \in Nat
        BY <1>3 DEF Table, WriterAt
      <3>2. CASE writer.id > Len(peers)
        BY <1>3, <3>1, <3>2, AppendProperties
      <3>3. CASE ~(writer.id > Len(peers))
        BY <1>3, <3>1, <3>3, ExceptSeq
      <3> QED
        BY <3>2, <3>3
    <2>2. \A j \in DOMAIN peers' :
             peers'[j] = IF j = writer.id THEN writer.data ELSE peers[j]
      BY <1>3 DEF Table, WriterAt
    <2>3. writer.id \in DOMAIN peers'
      BY <1>3, <2>1 DEF Table, WriterAt
    <2>4. LookupTypeOK'
      BY <1>3, <2>1
    <2>5. Exclusion'
      BY <1>0, <1>3 DEF Exclusion
    <2>6. WriterAt'
      BY <1>3, <2>2, <2>3 DEF Table, WriterAt, Allocating
    <2>7. SameLength'
      BY <1>3, <2>1 DEF Table, SameLength, WriterAt
    <2>8. StoredFound' /\ Outdated'
      BY <1>3, <2>1, <2>2 DEF Table, SameLength, StoredFound, WriterAt, Outdated
    <2>9. EntryStored'
      BY <1>3, <2>1, <2>2 DEF Table, WriterAt, EntryStored
    <2> QED
      BY <2>4, <2>5, <2>6, <2>7, <2>8, <2>9 DEF Table
  <1>4. CASE AllocVersion
    <2> USE DEF AllocVersion
    <2>1. versions' \in Seq(Nat \ {0})
          /\ Len(versions') = IF writer.id > Len(versions) THEN Len(versions) + 1
                              ELSE Len(versions)
      <3>1. 1 \in Nat \ {0}
        OBVIOUS
      <3>2. CASE writer.id > Len(versions)
        BY <1>4, <3>1, <3>2, AppendProperties
      <3>3. CASE ~(writer.id > Len(versions))
        BY <1>4, <3>3
      <3> QED
        BY <3>2, <3>3
    <2>2. \A j \in DOMAIN versions : j \in DOMAIN versions' /\ versions'[j] = versions[j]
      BY <1>4
    <2>3. LookupTypeOK'
      BY <1>4, <2>1
    <2>4. Exclusion'
      BY <1>0, <1>4 DEF Exclusion
    <2>5. WriterAt' /\ SameLength' /\ EntryStored'
      BY <1>4, <2>1 DEF Table, WriterAt, SameLength, EntryStored, Allocating
    <2>6. StoredFound' /\ Outdated'
      BY <1>4, <2>2 DEF Table, StoredFound, Outdated
    <2> QED
      BY <2>3, <2>4, <2>5, <2>6 DEF Table
  <1>5. CASE AllocUnlock
    <2> USE DEF AllocUnlock
    <2>1. writer.id \in DOMAIN versions /\ writer.data \in Data \ stored
          /\ peers[writer.id] = writer.data
      BY <1>5 DEF Table, WriterAt, SameLength, Allocating
    <2>2. versions[writer.id] \in Nat \ {0}
      BY <2>1, ElementOfSeq
    <2>3. LookupTypeOK'
      BY <1>5, <2>1, <2>2 DEF Idle
    <2>4. Exclusion'
      BY <1>0, <1>5 DEF Exclusion, Idle
    <2>5. WriterAt' /\ SameLength'
      BY <1>5 DEF Table, WriterAt, SameLength, Allocating, Idle
    <2>6. StoredFound'
      BY <1>5, <2>1 DEF Table, StoredFound, Idle
    <2>7. EntryStored'
      BY <1>5, <2>1 DEF Table, EntryStored, Idle
    <2>8. Outdated'
      BY <1>5, <2>1 DEF Table, Outdated
    <2> QED
      BY <2>3, <2>4, <2>5, <2>6, <2>7, <2>8 DEF Table
  <1>6. CASE ReleaseRemove
    <2> USE DEF ReleaseRemove
    <2>1. writer.id \in DOMAIN peers /\ writer.data \in stored
          /\ writer.id = handleOf[writer.data].id /\ peers[writer.id] = writer.data
      BY <1>6 DEF Table, WriterAt, SameLength, StoredFound
    <2>2. peers' \in Seq(Data \cup {NoPeer}) /\ Len(peers') = Len(peers)
          /\ \A j \in DOMAIN peers : peers'[j] = IF j = writer.id THEN NoPeer ELSE peers[j]
      BY <1>6, <2>1
    <2>3. LookupTypeOK'
      BY <1>6, <2>2
    <2>4. Exclusion'
      BY <1>0, <1>6 DEF Exclusion
    <2>5. WriterAt' /\ SameLength' /\ EntryStored' /\ Outdated'
      BY <1>6, <2>1, <2>2 DEF Table, WriterAt, SameLength, EntryStored, Outdated,
         Allocating
    <2>6. StoredFound'
      BY <1>6, <2>1, <2>2 DEF Table, StoredFound, SameLength
    <2> QED
      BY <2>3, <2>4, <2>5, <2>6 DEF Table
  <1>7. CASE ReleaseUnlock
    <2> USE DEF ReleaseUnlock
    <2>1. writer.id \in DOMAIN versions /\ writer.data \in stored
          /\ writer.id = handleOf[writer.data].id /\ peers[writer.id] = NoPeer
          /\ versions[writer.id] = handleOf[writer.data].version
      BY <1>7 DEF Table, WriterAt, StoredFound
    <2>2. versions' \in Seq(Nat \ {0}) /\ Len(versions') = Len(versions)
          /\ DOMAIN versions' = DOMAIN versions
          /\ \A j \in DOMAIN versions :
                versions'[j] = IF j = writer.id THEN versions[j] + 1 ELSE versions[j]
      BY <1>7, <2>1, ElementOfSeq
    <2>3. LookupTypeOK'
      BY <1>7, <2>2 DEF Idle
    <2>4. Exclusion'
      BY <1>0, <1>7 DEF Exclusion, Idle
    <2>5. WriterAt' /\ SameLength'
      BY <1>7, <2>2 DEF Table, WriterAt, SameLength, Allocating, Idle
    <2>6. \A d \in stored' : handleOf[d].id # writer.id
      BY <1>7, <2>1 DEF Table, StoredFound
    <2>7. StoredFound'
      BY <1>7, <2>1, <2>2, <2>6 DEF Table, StoredFound, Idle
    <2>8. EntryStored'
      BY <1>7, <2>1 DEF Table, EntryStored, Idle
    <2>9. Outdated'
      <3> SUFFICES ASSUME NEW d \in Data, d \notin stored', handleOf[d] # NoHandle
                   PROVE  /\ handleOf[d].id \in DOMAIN versions'
                          /\ handleOf[d].version < versions'[handleOf[d].id]
        BY <1>7 DEF Outdated
      <3>1. CASE d = writer.data
        BY <2>1, <2>2, <3>1
      <3>2. CASE d # writer.data
        <4>1. handleOf[d].id \in DOMAIN versions
              /\ handleOf[d].version < versions[handleOf[d].id]
          BY <1>7, <3>2 DEF Table, Outdated
        <4>2. versions[handleOf[d].id] \in Nat
          BY <4>1, ElementOfSeq
        <4>3. handleOf[d].version \in Nat
          OBVIOUS
        <4>4. versions'[handleOf[d].id] \in
                 {versions[handleOf[d].id], versions[handleOf[d].id] + 1}
          BY <2>2, <4>1
        <4> QED
          BY <2>2, <4>1, <4>2, <4>3, <4>4
      <3> QED
        BY <3>1, <3>2
    <2> QED
      BY <2>3, <2>4, <2>5, <2>7, <2>8, <2>9 DEF Table
  <1> QED
    BY <1>1, <1>2, <1>3, <1>4, <1>5, <1>6, <1>7 DEF WriterStep

-----------------------------------------------------------------------------
LEMMA HandleEqual ==
    ASSUME NEW g \in Handle, NEW h \in Handle, g.id = h.id, g.version = h.version
    PROVE  g = h
  BY DEF Handle

\* While a thread looks a handle up, the table is whole: the entry of the handle
\* is the stored peer that has it, if its version is the one of the handle.
LEMMA TableWhole ==
    ASSUME LookupTypeOK, Table, writer.at = "idle", NEW h \in Handle
    PROVE  /\ Len(peers) = Len(versions)
           /\ \A d \in stored : handleOf[d] = h =>
                 /\ h.id \in DOMAIN versions
                 /\ peers[h.id] = d
                 /\ versions[h.id] = h.version
           /\ (/\ h.id \in DOMAIN versions
               /\ peers[h.id] # NoPeer
               /\ versions[h.id] = h.version)
              => (/\ peers[h.id] \in stored
                  /\ \A d \in Data : handleOf[d] = h <=> d = peers[h.id])
  <1> USE DEF LookupTypeOK, Table, Handle
  <1>1. Len(peers) = Len(versions)
    BY DEF SameLength
  <1>2. \A d \in stored : handleOf[d] = h =>
           h.id \in DOMAIN versions /\ peers[h.id] = d /\ versions[h.id] = h.version
    BY DEF StoredFound
  <1>3. ASSUME h.id \in DOMAIN versions, peers[h.id] # NoPeer, versions[h.id] = h.version
        PROVE  /\ peers[h.id] \in stored
               /\ \A d \in Data : handleOf[d] = h <=> d = peers[h.id]
    <2>1. h.id \in DOMAIN peers
      BY <1>1, <1>3
    <2>2. peers[h.id] \in stored /\ handleOf[peers[h.id]].id = h.id
      BY <1>3, <2>1 DEF EntryStored
    <2>3. handleOf[peers[h.id]] = h
      <3>1. handleOf[peers[h.id]] \in Handle
        BY <2>2
      <3>2. handleOf[peers[h.id]].version = h.version
        BY <1>3, <2>2 DEF StoredFound
      <3> QED
        BY <2>2, <3>1, <3>2, HandleEqual
    <2>4. ASSUME NEW d \in Data, handleOf[d] = h PROVE d = peers[h.id]
      <3>1. d \in stored
        BY <1>3, <2>4 DEF Outdated, NoHandle
      <3> QED
        BY <1>2, <2>4, <3>1
    <2> QED
      BY <2>2, <2>3, <2>4
  <1> QED
    BY <1>1, <1>2, <1>3

\* A step of another thread keeps all of the invariant.
LEMMA ReaderKeeps ==
    ASSUME IInv, NEW r \in Reader, ReaderStep(r)
    PROVE  IInv'
  <1> USE PeerLookupAssumption DEF IInv, LookupTypeOK
  <1>1. UNCHANGED <<peers, versions, lockWriter, writer, handleOf, stored>>
    BY DEF ReaderStep, LookupLock, LookupSize, LookupPeer, LookupVersion, LookupRead,
           LookupUnlock
  <1>2. \A s \in Reader : s # r => reader'[s] = reader[s]
    BY DEF ReaderStep, LookupLock, LookupSize, LookupPeer, LookupVersion, LookupRead,
           LookupUnlock, At
  <1>3. Table'
    BY <1>1 DEF Table, WriterAt, SameLength, StoredFound, EntryStored, Outdated,
       Allocating
  <1>4. \A s \in Reader : s # r => ReaderAt(s)'
    BY <1>1, <1>2 DEF ReaderAt, Result
  <1>5. ASSUME NEW handle \in Handles, LookupLock(r, handle) PROVE IInv'
    <2>1. handle \in Handle
      BY DEF Handles
    <2>2. LookupTypeOK'
      BY <1>1, <1>5, <2>1 DEF LookupLock
    <2>3. Exclusion'
      BY <1>1, <1>5 DEF Exclusion, LookupLock
    <2>4. ReaderAt(r)'
      BY <1>5 DEF ReaderAt, LookupLock
    <2> QED
      BY <1>3, <1>4, <2>2, <2>3, <2>4
  <1>6. ASSUME LookupSize(r) \/ LookupPeer(r) \/ LookupVersion(r) \/ LookupRead(r)
        PROVE  IInv'
    <2> DEFINE h == reader[r].handle
    <2>1. writer.at = "idle" /\ r \in lockReaders /\ reader[r].at # "idle"
      BY <1>6 DEF Exclusion, LookupSize, LookupPeer, LookupVersion, LookupRead
    <2>2. /\ Len(peers) = Len(versions)
          /\ \A d \in stored : handleOf[d] = h =>
                /\ h.id \in DOMAIN versions
                /\ peers[h.id] = d
                /\ versions[h.id] = h.version
          /\ (/\ h.id \in DOMAIN versions
              /\ peers[h.id] # NoPeer
              /\ versions[h.id] = h.version)
             => (/\ peers[h.id] \in stored
                 /\ \A d \in Data : handleOf[d] = h <=> d = peers[h.id])
      BY <2>1, TableWhole
    <2>3. LookupTypeOK' /\ Exclusion'
      <3>1. CASE LookupSize(r) \/ LookupPeer(r) \/ LookupVersion(r)
        <4>1. PICK step \in {"peer", "version", "read", "done"} :
                 reader' = [reader EXCEPT ![r].at = step]
          BY <3>1, Zenon DEF LookupSize, LookupPeer, LookupVersion, At
        <4>2. UNCHANGED lockReaders
          BY <3>1 DEF LookupSize, LookupPeer, LookupVersion
        <4>3. LookupTypeOK'
          BY <1>1, <4>1, <4>2
        <4>4. Exclusion'
          BY <1>1, <2>1, <4>1, <4>2 DEF Exclusion
        <4> QED
          BY <4>3, <4>4
      <3>2. CASE LookupRead(r)
        <4>1. h.id \in DOMAIN peers
          BY <2>2, <3>2 DEF LookupRead, ReaderAt
        <4>2. peers[h.id] \in Data \cup {NoPeer}
          BY <4>1, ElementOfSeq
        <4>3. LookupTypeOK'
          BY <1>1, <3>2, <4>2 DEF LookupRead
        <4>4. Exclusion'
          BY <1>1, <2>1, <3>2 DEF Exclusion, LookupRead
        <4> QED
          BY <4>3, <4>4
      <3> QED
        BY <1>6, <3>1, <3>2
    <2>4. ReaderAt(r)'
      <3>1. CASE LookupSize(r)
        BY <1>1, <2>2, <3>1 DEF LookupSize, At, ReaderAt, Result
      <3>2. CASE LookupPeer(r)
        BY <1>1, <2>2, <3>2 DEF LookupPeer, At, ReaderAt, Result
      <3>3. CASE LookupVersion(r)
        BY <1>1, <2>2, <3>3 DEF LookupVersion, At, ReaderAt, Result
      <3>4. CASE LookupRead(r)
        BY <1>1, <2>2, <3>4 DEF LookupRead, ReaderAt, Result
      <3> QED
        BY <1>6, <3>1, <3>2, <3>3, <3>4
    <2> QED
      BY <1>3, <1>4, <2>3, <2>4
  <1>7. CASE LookupUnlock(r)
    <2>1. LookupTypeOK'
      BY <1>1, <1>7 DEF LookupUnlock, NoLookup, NoHandle, Handle
    <2>2. Exclusion'
      BY <1>1, <1>2, <1>7 DEF Exclusion, LookupUnlock, NoLookup
    <2>3. ReaderAt(r)'
      BY <1>7 DEF ReaderAt, LookupUnlock, NoLookup
    <2> QED
      BY <1>3, <1>4, <2>1, <2>2, <2>3
  <1> QED
    BY <1>5, <1>6, <1>7 DEF ReaderStep

-----------------------------------------------------------------------------
\* For any number of threads and peers: a lookup under the shared lock finds the
\* one peer its handle was given to if that peer is in the table, and nothing
\* otherwise.
THEOREM LookupsAreExact == LookupSpec => []LookupExact
  <1>1. LookupInit => IInv
    <2> SUFFICES ASSUME LookupInit PROVE IInv
      OBVIOUS
    <2> USE DEF LookupInit, Idle, NoLookup, NoHandle
    <2>1. LookupTypeOK
      BY EmptySeq DEF LookupTypeOK, Handle
    <2>2. Exclusion /\ \A r \in Reader : ReaderAt(r)
      BY DEF Exclusion, ReaderAt
    <2>3. Table
      BY EmptySeq DEF Table, WriterAt, SameLength, StoredFound, EntryStored, Outdated,
         Allocating
    <2> QED
      BY <2>1, <2>2, <2>3 DEF IInv
  <1>2. IInv /\ [LookupNext]_lookupVars => IInv'
    <2> SUFFICES ASSUME IInv, [LookupNext]_lookupVars PROVE IInv'
      OBVIOUS
    <2>1. CASE WriterStep
      <3>1. \A r \in Reader : ReaderAt(r)'
        BY <2>1, WriterAlone DEF ReaderAt
      <3> QED
        BY <2>1, <3>1, WriterKeeps DEF IInv
    <2>2. ASSUME NEW r \in Reader, ReaderStep(r) PROVE IInv'
      BY <2>2, ReaderKeeps
    <2>3. CASE UNCHANGED lookupVars
      BY <2>3 DEF lookupVars, IInv, LookupTypeOK, Exclusion, Table, WriterAt, SameLength,
         StoredFound, EntryStored, Outdated, Allocating, ReaderAt, Result
    <2> QED
      BY <2>1, <2>2, <2>3 DEF LookupNext, WriterStep, ReaderStep
  <1>3. IInv => LookupExact
    BY DEF IInv, LookupExact, Exclusion, Table, SameLength, ReaderAt, Result
  <1> QED
    BY <1>1, <1>2, <1>3, PTL DEF LookupSpec
=============================================================================
