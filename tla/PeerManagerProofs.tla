------------------------- MODULE PeerManagerProofs -------------------------
(***************************************************************************)
(* Proofs about PeerManager for any number of peers, hosts and versions.   *)
(***************************************************************************)
EXTENDS PeerManager, SequenceTheorems, TLAPS

-----------------------------------------------------------------------------
(* The vector helpers.                                                     *)

\* vector::push_back adds one element at the end.
LEMMA AppendFacts ==
    ASSUME NEW S, NEW v \in Seq(S), NEW x \in S
    PROVE  /\ Append(v, x) \in Seq(S)
           /\ Len(Append(v, x)) = Len(v) + 1
           /\ DOMAIN Append(v, x) = 1 .. Len(v) + 1
           /\ \A j \in 1 .. Len(v) : Append(v, x)[j] = v[j]
           /\ Append(v, x)[Len(v) + 1] = x
  OBVIOUS

\* Assigning one element changes nothing else.
LEMMA ExceptFacts ==
    ASSUME NEW S, NEW v \in Seq(S), NEW i \in 1 .. Len(v), NEW x \in S
    PROVE  /\ [v EXCEPT ![i] = x] \in Seq(S)
           /\ Len([v EXCEPT ![i] = x]) = Len(v)
           /\ DOMAIN [v EXCEPT ![i] = x] = 1 .. Len(v)
           /\ \A j \in 1 .. Len(v) :
                 [v EXCEPT ![i] = x][j] = IF j = i THEN x ELSE v[j]
  OBVIOUS

\* vector::pop_back removes the last element.
LEMMA FrontFacts ==
    ASSUME NEW S, NEW v \in Seq(S), Len(v) > 0
    PROVE  /\ Front(v) \in Seq(S)
           /\ Len(Front(v)) = Len(v) - 1
           /\ DOMAIN Front(v) = 1 .. Len(v) - 1
           /\ \A j \in 1 .. Len(v) - 1 : Front(v)[j] = v[j]
           /\ Last(v) = v[Len(v)]
           /\ Last(v) \in S
  <1> DEFINE n == Len(v) - 1
  <1>1. n \in Nat /\ \A i \in 1 .. n + 1 : v[i] \in S
    OBVIOUS
  <1>2. /\ SubSeq(v, 1, n) \in Seq(S)
        /\ Len(SubSeq(v, 1, n)) = IF 1 <= n THEN n - 1 + 1 ELSE 0
        /\ \A i \in 1 .. n - 1 + 1 : SubSeq(v, 1, n)[i] = v[1 + i - 1]
    BY <1>1, SubSeqProperties
  <1>3. Front(v) = SubSeq(v, 1, n)
    BY DEF Front
  <1>4. Last(v) = v[Len(v)] /\ Last(v) \in S
    BY DEF Last
  <1>5. n = Len(v) - 1
    OBVIOUS
  <1> HIDE DEF n
  <1>6. Front(v) \in Seq(S) /\ Len(Front(v)) = n
    BY <1>1, <1>2, <1>3
  <1>7. \A j \in 1 .. n : Front(v)[j] = v[j]
    BY <1>1, <1>2, <1>3
  <1>8. DOMAIN Front(v) = 1 .. n
    BY <1>6
  <1> QED
    BY <1>4, <1>5, <1>6, <1>7, <1>8

\* Removal by swapping with the last element keeps all the others in place.
LEMMA SwapPopFacts ==
    ASSUME NEW S, NEW v \in Seq(S), NEW i \in 1 .. Len(v)
    PROVE  /\ SwapPop(v, i) \in Seq(S)
           /\ Len(SwapPop(v, i)) = Len(v) - 1
           /\ DOMAIN SwapPop(v, i) = 1 .. Len(v) - 1
           /\ \A j \in 1 .. Len(v) - 1 :
                 SwapPop(v, i)[j] = IF j = i THEN v[Len(v)] ELSE v[j]
  <1> DEFINE w == [v EXCEPT ![i] = Last(v)]
  <1>1. Len(v) > 0 /\ Last(v) = v[Len(v)] /\ Last(v) \in S
    BY FrontFacts
  <1>2. /\ w \in Seq(S)
        /\ Len(w) = Len(v)
        /\ \A j \in 1 .. Len(v) : w[j] = IF j = i THEN v[Len(v)] ELSE v[j]
    BY <1>1, ExceptFacts
  <1>3. SwapPop(v, i) = Front(w)
    BY DEF SwapPop
  <1> HIDE DEF w
  <1>4. /\ Front(w) \in Seq(S)
        /\ Len(Front(w)) = Len(w) - 1
        /\ DOMAIN Front(w) = 1 .. Len(w) - 1
        /\ \A j \in 1 .. Len(w) - 1 : Front(w)[j] = w[j]
    BY Zenon, <1>1, <1>2, FrontFacts
  <1> QED
    BY SMTT(30), <1>2, <1>3, <1>4

\* Growing a vector of offsets adds only "no offset" entries.
LEMMA GrownFacts ==
    ASSUME NEW v \in Seq(Nat), NEW n \in Nat
    PROVE  /\ Grown(v, n) \in Seq(Nat)
           /\ Len(Grown(v, n)) >= n
           /\ Len(Grown(v, n)) >= Len(v)
           /\ DOMAIN Grown(v, n) = 1 .. Len(Grown(v, n))
           /\ \A j \in 1 .. Len(Grown(v, n)) :
                 Grown(v, n)[j] = IF j <= Len(v) THEN v[j] ELSE 0
  <1> DEFINE m == IF Len(v) < n THEN n ELSE Len(v)
  <1>1. m \in Nat /\ m >= n /\ m >= Len(v)
    OBVIOUS
  <1>2. Grown(v, n) = [i \in 1 .. m |-> IF i <= Len(v) THEN v[i] ELSE 0]
    BY DEF Grown
  <1> HIDE DEF m
  <1>3. \A i \in 1 .. m : (IF i <= Len(v) THEN v[i] ELSE 0) \in Nat
    BY <1>1
  <1>4. Grown(v, n) \in Seq(Nat) /\ Len(Grown(v, n)) = m
    BY <1>1, <1>2, <1>3
  <1> QED
    BY <1>1, <1>2, <1>4

\* The next version is a nonzero version, and greater unless it wrapped.
LEMMA NextVersionFacts ==
    ASSUME NEW v \in 1 .. VersionMod - 1
    PROVE  /\ NextVersion(v) \in 1 .. VersionMod - 1
           /\ (v + 1) % VersionMod # 0 => NextVersion(v) = v + 1
  <1>1. VersionMod \in Nat /\ VersionMod > 1
    BY PeerManagerAssumption
  <1>2. CASE v + 1 = VersionMod
    <2>1. (v + 1) % VersionMod = 0
      BY <1>1, <1>2
    <2> QED
      BY <1>1, <2>1 DEF NextVersion
  <1>3. CASE v + 1 < VersionMod
    <2>1. (v + 1) % VersionMod = v + 1
      BY <1>1, <1>3
    <2> QED
      BY <1>1, <1>3, <2>1 DEF NextVersion
  <1> QED
    BY <1>1, <1>2, <1>3

-----------------------------------------------------------------------------
(* PeersToFlush as a sparse set.                                           *)

FlushType == [peers : Seq(Nat \ {0}), offsets : Seq(Nat)]

\* InsertPeerToFlush adds the id to the set and keeps the vectors inverse.
LEMMA InsertFacts ==
    ASSUME NEW f \in FlushType, Sparse(f), NEW id \in Nat \ {0}
    PROVE  /\ InsertPeerToFlush(f, id) \in FlushType
           /\ Sparse(InsertPeerToFlush(f, id))
           /\ ToSet(InsertPeerToFlush(f, id).peers) = ToSet(f.peers) \cup {id}
  <1> DEFINE P    == f.peers
             O    == f.offsets
             offs == Grown(O, id)
             g    == InsertPeerToFlush(f, id)
             n    == Len(P)
             m    == Len(offs)
  <1>1. P \in Seq(Nat \ {0}) /\ O \in Seq(Nat)
    BY DEF FlushType
  <1>2. /\ n \in Nat /\ DOMAIN P = 1 .. n
        /\ \A i \in 1 .. n : P[i] \in DOMAIN O /\ O[P[i]] = i
        /\ \A k \in DOMAIN O : O[k] # 0 => O[k] \in 1 .. n /\ P[O[k]] = k
    BY <1>1 DEF Sparse
  <1>3. /\ offs \in Seq(Nat)
        /\ m \in Nat /\ m >= id /\ m >= Len(O)
        /\ DOMAIN offs = 1 .. m
        /\ \A j \in 1 .. m : offs[j] = IF j <= Len(O) THEN O[j] ELSE 0
    BY SMTT(30), <1>1, GrownFacts
  <1>4. DOMAIN O = 1 .. Len(O) /\ Len(O) \in Nat
    BY <1>1
  <1>5. id \in 1 .. m
    BY <1>3
  <1>6. /\ offs[id] > 0 => g = [f EXCEPT !.offsets = offs]
        /\ ~(offs[id] > 0) => g = [peers   |-> Append(P, id),
                                   offsets |-> [offs EXCEPT ![id] = n + 1]]
    BY DEF InsertPeerToFlush
  <1> HIDE DEF P, O, offs, n, m, g
  <1>7. \A i \in 1 .. n : P[i] \in 1 .. m /\ offs[P[i]] = i
    <2> TAKE i \in 1 .. n
    <2>1. P[i] \in 1 .. Len(O) /\ O[P[i]] = i
      BY <1>2, <1>4
    <2>2. P[i] \in 1 .. m /\ P[i] <= Len(O)
      BY <1>3, <1>4, <2>1
    <2> QED
      BY <1>3, <2>1, <2>2
  <1>8. \A k \in 1 .. m : offs[k] # 0 => offs[k] \in 1 .. n /\ P[offs[k]] = k
    <2> SUFFICES ASSUME NEW k \in 1 .. m, offs[k] # 0
                 PROVE  offs[k] \in 1 .. n /\ P[offs[k]] = k
      OBVIOUS
    <2>1. k <= Len(O) /\ offs[k] = O[k]
      BY <1>3
    <2>2. k \in DOMAIN O
      BY <1>3, <1>4, <2>1
    <2> QED
      BY <1>2, <2>1, <2>2
  <1>9. CASE offs[id] > 0
    <2>1. g \in FlushType /\ g.peers = P /\ g.offsets = offs
      BY <1>3, <1>6, <1>9 DEF FlushType, P
    <2>2. Sparse(g)
      BY <1>2, <1>3, <1>7, <1>8, <2>1 DEF Sparse
    <2>3. offs[id] \in 1 .. n /\ P[offs[id]] = id
      BY <1>5, <1>8, <1>9
    <2>4. id \in ToSet(P)
      BY <1>2, <2>3 DEF ToSet
    <2> QED
      BY <2>1, <2>2, <2>4 DEF g, P
  <1>10. CASE ~(offs[id] > 0)
    <2> DEFINE p == Append(P, id)
               o == [offs EXCEPT ![id] = n + 1]
    <2>1. /\ p \in Seq(Nat \ {0})
          /\ DOMAIN p = 1 .. n + 1
          /\ \A j \in 1 .. n : p[j] = P[j]
          /\ p[n + 1] = id
      BY <1>1, AppendFacts DEF n
    <2>2. /\ o \in Seq(Nat)
          /\ DOMAIN o = 1 .. m
          /\ \A j \in 1 .. m : o[j] = IF j = id THEN n + 1 ELSE offs[j]
      BY <1>2, <1>3, <1>5, ExceptFacts DEF m
    <2>3. offs[id] = 0
      BY <1>3, <1>5, <1>10
    <2>4. g = [peers |-> p, offsets |-> o]
      BY <1>6, <1>10
    <2> HIDE DEF p, o
    <2>5. g \in FlushType /\ g.peers = p /\ g.offsets = o
      BY <2>1, <2>2, <2>4 DEF FlushType
    <2>6. \A i \in 1 .. n + 1 : p[i] \in 1 .. m /\ o[p[i]] = i
      <3> TAKE i \in 1 .. n + 1
      <3>1. CASE i = n + 1
        BY <1>5, <2>1, <2>2, <3>1
      <3>2. CASE i # n + 1
        <4>1. i \in 1 .. n
          BY <1>2, <3>2
        <4>2. p[i] = P[i] /\ P[i] \in 1 .. m /\ offs[P[i]] = i
          BY <1>7, <2>1, <4>1
        <4>3. P[i] # id
          BY <2>3, <4>1, <4>2
        <4> QED
          BY <2>2, <4>2, <4>3
      <3> QED
        BY <3>1, <3>2
    <2>7. \A k \in 1 .. m : o[k] # 0 => o[k] \in 1 .. n + 1 /\ p[o[k]] = k
      <3> SUFFICES ASSUME NEW k \in 1 .. m, o[k] # 0
                   PROVE  o[k] \in 1 .. n + 1 /\ p[o[k]] = k
        OBVIOUS
      <3>1. CASE k = id
        BY <1>2, <2>1, <2>2, <3>1
      <3>2. CASE k # id
        <4>1. o[k] = offs[k]
          BY <2>2, <3>2
        <4>2. offs[k] \in 1 .. n /\ P[offs[k]] = k
          BY <1>8, <4>1
        <4> QED
          BY <1>2, <2>1, <4>1, <4>2
      <3> QED
        BY <3>1, <3>2
    <2>8. ToSet(p) = ToSet(P) \cup {id}
      BY SMTT(30), <1>2, <2>1 DEF ToSet
    <2>9. Sparse(g)
      BY <2>1, <2>2, <2>5, <2>6, <2>7 DEF Sparse
    <2> QED
      BY <2>5, <2>8, <2>9 DEF g, P
  <1> QED
    BY <1>9, <1>10

\* RemovePeerToFlush takes the id out of the set, keeps the vectors inverse
\* and moves nothing that was in front of the removed id.
LEMMA RemoveFacts ==
    ASSUME NEW f \in FlushType, Sparse(f), NEW id \in Nat \ {0}
    PROVE  /\ RemovePeerToFlush(f, id) \in FlushType
           /\ Sparse(RemovePeerToFlush(f, id))
           /\ ToSet(RemovePeerToFlush(f, id).peers) = ToSet(f.peers) \ {id}
           /\ \A k \in 1 .. Len(f.peers) : f.peers[k] = id =>
                 /\ k - 1 <= Len(RemovePeerToFlush(f, id).peers)
                 /\ \A j \in 1 .. k - 1 :
                       RemovePeerToFlush(f, id).peers[j] = f.peers[j]
  <1> DEFINE P   == f.peers
             O   == f.offsets
             n   == Len(P)
             m   == Len(O)
             off == O[id]
             last == P[n]
             g   == RemovePeerToFlush(f, id)
  <1>1. P \in Seq(Nat \ {0}) /\ O \in Seq(Nat)
    BY DEF FlushType
  <1>2. /\ n \in Nat /\ DOMAIN P = 1 .. n
        /\ m \in Nat /\ DOMAIN O = 1 .. m
        /\ \A i \in 1 .. n : P[i] \in 1 .. m /\ O[P[i]] = i
        /\ \A k \in 1 .. m : O[k] # 0 => O[k] \in 1 .. n /\ P[O[k]] = k
    <2>1. n \in Nat /\ DOMAIN P = 1 .. n /\ m \in Nat /\ DOMAIN O = 1 .. m
      BY <1>1
    <2>2. QED
      BY <2>1 DEF Sparse
  <1>3. CASE m < id \/ off = 0
    <2>1. g = f
      BY <1>3 DEF RemovePeerToFlush
    <2> HIDE DEF P, O, n, m, g
    <2>2. \A i \in 1 .. n : P[i] # id
      BY <1>2, <1>3
    <2>3. id \notin ToSet(P)
      BY <1>2, <2>2 DEF ToSet
    <2> QED
      BY <2>1, <2>2, <2>3 DEF g, P, n
  <1>4. CASE ~(m < id \/ off = 0)
    <2> DEFINE p == SwapPop(P, off)
               c == [O EXCEPT ![id] = 0]
               o == IF off # n THEN [c EXCEPT ![Last(P)] = off] ELSE c
    <2>1. g = [peers |-> p, offsets |-> o]
      BY <1>4 DEF RemovePeerToFlush
    <2> HIDE DEF P, O, n, m, g
    <2>2. id \in 1 .. m /\ off # 0
      BY <1>2, <1>4
    <2>3. off \in 1 .. n /\ P[off] = id
      BY <1>2, <2>2
    <2>4. n > 0 /\ Last(P) = last
      BY <1>2, <2>3 DEF Last, n
    <2>5. last \in 1 .. m /\ O[last] = n
      BY <1>2, <2>4
    <2>6. /\ p \in Seq(Nat \ {0})
          /\ Len(p) = n - 1
          /\ DOMAIN p = 1 .. n - 1
          /\ \A j \in 1 .. n - 1 : p[j] = IF j = off THEN last ELSE P[j]
      BY Zenon, <1>1, <2>3, SwapPopFacts DEF n
    <2>7. /\ c \in Seq(Nat)
          /\ Len(c) = m
          /\ DOMAIN c = 1 .. m
          /\ \A j \in 1 .. m : c[j] = IF j = id THEN 0 ELSE O[j]
      BY <1>1, <2>2, ExceptFacts DEF m
    <2> HIDE DEF off, last, p, c
    <2>8. /\ o \in Seq(Nat)
          /\ DOMAIN o = 1 .. m
          /\ \A j \in 1 .. m : o[j] = IF off # n /\ j = last THEN off
                                      ELSE IF j = id THEN 0 ELSE O[j]
      <3>1. CASE off # n
        <4>1. o = [c EXCEPT ![last] = off]
          BY <2>4, <3>1
        <4>2. /\ [c EXCEPT ![last] = off] \in Seq(Nat)
              /\ DOMAIN [c EXCEPT ![last] = off] = 1 .. m
              /\ \A j \in 1 .. m :
                    [c EXCEPT ![last] = off][j] = IF j = last THEN off ELSE c[j]
          BY <2>3, <2>5, <2>7, ExceptFacts
        <4> QED
          BY Zenon, <2>7, <3>1, <4>1, <4>2
      <3>2. CASE off = n
        BY <2>7, <3>2
      <3> QED
        BY <3>1, <3>2
    <2> HIDE DEF o
    <2>9. g \in FlushType /\ g.peers = p /\ g.offsets = o
      BY <2>1, <2>6, <2>8 DEF FlushType
    <2>10. \A i \in 1 .. n : P[i] = id => i = off
      BY <1>2, <2>3
    <2>11. \A i \in 1 .. n - 1 : p[i] \in 1 .. m /\ o[p[i]] = i
      <3> TAKE i \in 1 .. n - 1
      <3>1. CASE i = off
        BY <2>5, <2>6, <2>8, <3>1
      <3>2. CASE i # off
        <4>1. i \in 1 .. n /\ i # n
          BY <1>2
        <4>2. p[i] = P[i] /\ P[i] \in 1 .. m /\ O[P[i]] = i
          BY <1>2, <2>6, <3>2, <4>1
        <4>3. P[i] # last
          BY <2>5, <4>1, <4>2
        <4>4. P[i] # id
          BY <2>10, <3>2, <4>1
        <4> QED
          BY <2>8, <4>2, <4>3, <4>4
      <3> QED
        BY <3>1, <3>2
    <2>12. \A k \in 1 .. m : o[k] # 0 => o[k] \in 1 .. n - 1 /\ p[o[k]] = k
      <3> SUFFICES ASSUME NEW k \in 1 .. m, o[k] # 0
                   PROVE  o[k] \in 1 .. n - 1 /\ p[o[k]] = k
        OBVIOUS
      <3>1. CASE off # n /\ k = last
        BY <1>2, <2>3, <2>6, <2>8, <3>1
      <3>2. CASE ~(off # n /\ k = last)
        <4>1. k # id /\ o[k] = O[k]
          BY <2>8, <3>2
        <4>2. O[k] \in 1 .. n /\ P[O[k]] = k
          BY <1>2, <4>1
        <4>3. O[k] # off
          BY <2>3, <4>1, <4>2
        <4>4. O[k] # n
          BY <3>2, <4>1, <4>2, <4>3 DEF last
        <4>5. O[k] \in 1 .. n - 1
          BY <1>2, <4>2, <4>4
        <4> QED
          BY <2>6, <4>1, <4>2, <4>3, <4>5
      <3> QED
        BY <3>1, <3>2
    <2>13. Sparse(g)
      BY <2>6, <2>8, <2>9, <2>11, <2>12 DEF Sparse
    <2>14. ToSet(p) = ToSet(P) \ {id}
      <3>1. ASSUME NEW i \in 1 .. n - 1 PROVE p[i] \in ToSet(P) /\ p[i] # id
        <4>1. CASE i = off
          <5>1. n # off /\ n \in 1 .. n
            BY <1>2, <2>4, <4>1
          <5>2. last # id
            BY <2>10, <5>1 DEF last
          <5> QED
            BY SMTT(30), <1>2, <2>6, <4>1, <5>1, <5>2 DEF ToSet, last
        <4>2. CASE i # off
          <5>1. i \in 1 .. n
            BY <1>2
          <5> QED
            BY Zenon, <1>2, <2>6, <2>10, <4>2, <5>1 DEF ToSet
        <4> QED
          BY <4>1, <4>2
      <3>2. ASSUME NEW i \in 1 .. n, P[i] # id PROVE P[i] \in ToSet(p)
        <4>1. CASE i = n
          <5>1. off \in 1 .. n - 1
            BY <1>2, <2>3, <3>2, <4>1
          <5> QED
            BY Zenon, <2>6, <4>1, <5>1 DEF ToSet, last
        <4>2. CASE i # n
          <5>1. i \in 1 .. n - 1 /\ i # off
            BY <1>2, <2>3, <3>2, <4>2
          <5> QED
            BY <2>6, <5>1 DEF ToSet
        <4> QED
          BY <4>1, <4>2
      <3> QED
        BY <1>2, <2>6, <3>1, <3>2 DEF ToSet
    <2>15. \A k \in 1 .. n : P[k] = id =>
              k - 1 <= n - 1 /\ \A j \in 1 .. k - 1 : p[j] = P[j]
      <3> SUFFICES ASSUME NEW k \in 1 .. n, P[k] = id, NEW j \in 1 .. k - 1
                   PROVE  p[j] = P[j]
        BY <1>2
      <3>1. j \in 1 .. n - 1 /\ j # off
        BY <1>2, <2>10
      <3> QED
        BY <2>6, <3>1
    <2> QED
      BY <2>6, <2>9, <2>13, <2>14, <2>15 DEF g, P, n
  <1> QED
    BY <1>3, <1>4

-----------------------------------------------------------------------------
(* The inductive invariant.                                                *)

\* An empty table satisfies the invariant.
LEMMA InitIInv == Init => IInv
  <1> SUFFICES ASSUME Init PROVE IInv
    OBVIOUS
  <1> USE PeerManagerAssumption DEF Init
  <1>1. TypeOK
    BY DEF TypeOK, Handle, NoHandle
  <1>2. HandlesOrdered
    BY DEF HandlesOrdered, Live, Constructed
  <1>3. FreeIdsExact
    BY DEF FreeIdsExact, ToSet
  <1>4. HostOffsetsExact
    BY DEF HostOffsetsExact
  <1>5. FlushSetExact
    BY DEF FlushSetExact, Sparse, ToSet
  <1>6. FlushVisitsAll
    BY DEF FlushVisitsAll
  <1> QED
    BY <1>1, <1>2, <1>3, <1>4, <1>5, <1>6 DEF IInv

\* The parts of the invariant that do not mention the flush set survive a
\* step that leaves the table and the references alone.
LEMMA FlushStepFacts ==
    ASSUME IInv, UNCHANGED <<table, refs>>
    PROVE  /\ HandlesOrdered'
           /\ FreeIdsExact'
           /\ HostOffsetsExact'
  <1> USE DEF IInv, table, refs
  <1>1. HandlesOrdered'
    BY DEF HandlesOrdered, Live, Constructed
  <1>2. FreeIdsExact'
    BY DEF FreeIdsExact
  <1>3. HostOffsetsExact'
    BY SMTT(30) DEF HostOffsetsExact, ExistsLocal
  <1> QED
    BY <1>1, <1>2, <1>3

\* _InternalInsertPeerToFlush preserves the invariant.
LEMMA InsertIInv ==
    ASSUME IInv, NEW d \in PeerData, Insert(d)
    PROVE  IInv'
  <1> DEFINE id == peerHandle[d].id
  <1>1. id \in DOMAIN peers /\ peers[id] = d /\ d # Null /\ id \in Nat \ {0}
    BY PeerManagerAssumption
       DEF IInv, TypeOK, HandlesOrdered, Insert, Live, Handle
  <1>2. /\ UNCHANGED <<table, refs, flushIndex, unvisited>>
        /\ toFlush' = InsertPeerToFlush(toFlush, id)
        /\ flushIndex = 0
    BY DEF Insert
  <1>3. toFlush \in FlushType /\ Sparse(toFlush)
    BY DEF IInv, TypeOK, FlushSetExact, FlushType
  <1> HIDE DEF id
  <1>4. /\ toFlush' \in FlushType
        /\ Sparse(toFlush')
        /\ ToSet(toFlush'.peers) = ToSet(toFlush.peers) \cup {id}
    BY <1>1, <1>2, <1>3, InsertFacts
  <1>5. TypeOK'
    BY SMTT(30), <1>2, <1>4 DEF IInv, TypeOK, FlushType, table, refs
  <1>6. FlushSetExact'
    <2>1. Sparse(toFlush)'
      BY <1>4 DEF Sparse
    <2>2. \A i \in ToSet(toFlush'.peers) : i \in DOMAIN peers /\ peers[i] # Null
      BY <1>1, <1>4 DEF IInv, FlushSetExact
    <2> QED
      BY <1>2, <2>1, <2>2 DEF FlushSetExact, ToSet, table
  <1>7. FlushVisitsAll'
    <2>1. Len(toFlush'.peers) \in Nat
      BY <1>4 DEF FlushType
    <2>2. unvisited = {}
      BY <1>2 DEF IInv, FlushVisitsAll
    <2> QED
      BY <1>2, <2>1, <2>2 DEF FlushVisitsAll
  <1> QED
    BY <1>2, <1>5, <1>6, <1>7, FlushStepFacts DEF IInv

\* Entering the loop of FlushPendingPeers preserves the invariant.
LEMMA FlushBeginIInv ==
    ASSUME IInv, FlushBegin
    PROVE  IInv'
  <1>1. /\ UNCHANGED <<table, refs, toFlush>>
        /\ flushIndex' = Len(toFlush.peers)
        /\ unvisited' = ToSet(toFlush.peers)
    BY DEF FlushBegin
  <1>2. toFlush.peers \in Seq(Nat \ {0})
    BY DEF IInv, TypeOK
  <1>3. unvisited' \subseteq Nat \ {0} /\ flushIndex' \in Nat
    BY <1>1, <1>2 DEF ToSet
  <1>4. TypeOK'
    BY <1>1, <1>3 DEF IInv, TypeOK, table, refs
  <1>5. FlushSetExact'
    BY <1>1 DEF IInv, FlushSetExact, Sparse, table
  <1>6. FlushVisitsAll'
    BY <1>1, <1>2 DEF FlushVisitsAll, ToSet
  <1> QED
    BY <1>1, <1>4, <1>5, <1>6, FlushStepFacts DEF IInv

\* An iteration of FlushPendingPeers preserves the invariant.
LEMMA FlushVisitIInv ==
    ASSUME IInv, NEW drained \in BOOLEAN, FlushVisit(drained)
    PROVE  IInv'
  <1> DEFINE id == toFlush.peers[flushIndex]
             P  == toFlush.peers
             Q  == toFlush'.peers
  <1>1. /\ UNCHANGED <<table, refs>>
        /\ toFlush' \in {toFlush, RemovePeerToFlush(toFlush, id)}
        /\ flushIndex > 0
        /\ flushIndex' = flushIndex - 1
        /\ unvisited' = unvisited \ {id}
    BY DEF FlushVisit
  <1>2. /\ toFlush \in FlushType /\ Sparse(toFlush)
        /\ flushIndex \in Nat
        /\ unvisited \subseteq Nat \ {0}
        /\ flushIndex <= Len(P)
        /\ unvisited = {P[i] : i \in 1 .. flushIndex}
        /\ \A i \in ToSet(P) : i \in DOMAIN peers /\ peers[i] # Null
    BY SMTT(30) DEF IInv, TypeOK, FlushSetExact, FlushType, FlushVisitsAll
  <1>3. P \in Seq(Nat \ {0}) /\ Len(P) \in Nat
    BY <1>2 DEF FlushType
  <1>4. flushIndex \in 1 .. Len(P) /\ id \in Nat \ {0}
    BY <1>1, <1>2, <1>3
  <1> HIDE DEF id
  <1>5. /\ toFlush' \in FlushType
        /\ Sparse(toFlush')
        /\ ToSet(Q) \subseteq ToSet(P)
        /\ flushIndex - 1 <= Len(Q)
        /\ \A j \in 1 .. flushIndex - 1 : Q[j] = P[j]
    <2>1. CASE toFlush' = toFlush
      BY <1>2, <1>3, <1>4, <2>1
    <2>2. CASE toFlush' = RemovePeerToFlush(toFlush, id)
      <3>1. /\ RemovePeerToFlush(toFlush, id) \in FlushType
            /\ Sparse(RemovePeerToFlush(toFlush, id))
            /\ ToSet(RemovePeerToFlush(toFlush, id).peers) = ToSet(P) \ {id}
            /\ \A k \in 1 .. Len(P) : P[k] = id =>
                  /\ k - 1 <= Len(RemovePeerToFlush(toFlush, id).peers)
                  /\ \A j \in 1 .. k - 1 :
                        RemovePeerToFlush(toFlush, id).peers[j] = P[j]
        BY Zenon, <1>2, <1>4, RemoveFacts
      <3> QED
        BY <1>4, <2>2, <3>1 DEF id
    <2> QED
      BY <1>1, <2>1, <2>2
  <1>6. \A i, j \in 1 .. Len(P) : P[i] = P[j] => i = j
    BY SMTT(30), <1>2, <1>3 DEF Sparse
  <1>7. TypeOK'
    <2>1. flushIndex - 1 \in Nat /\ unvisited' \subseteq Nat \ {0}
      BY <1>1, <1>2
    <2> QED
      BY SMTT(30), <1>1, <1>5, <2>1 DEF IInv, TypeOK, FlushType, table, refs
  <1>8. FlushSetExact'
    <2>1. Sparse(toFlush)'
      BY <1>5 DEF Sparse
    <2>2. \A i \in ToSet(Q) : i \in DOMAIN peers /\ peers[i] # Null
      BY <1>2, <1>5
    <2> QED
      BY <1>1, <2>1, <2>2 DEF FlushSetExact, ToSet, table
  <1>9. unvisited \ {id} = {P[i] : i \in 1 .. flushIndex - 1}
    <2>1. \A i \in 1 .. flushIndex - 1 : i \in 1 .. flushIndex /\ P[i] # id
      BY <1>2, <1>4, <1>6 DEF id
    <2>2. \A i \in 1 .. flushIndex : P[i] # id => i \in 1 .. flushIndex - 1
      BY <1>2, <1>4 DEF id
    <2> QED
      BY <1>2, <2>1, <2>2
  <1>10. FlushVisitsAll'
    BY <1>1, <1>5, <1>9 DEF FlushVisitsAll
  <1> QED
    BY <1>1, <1>7, <1>8, <1>10, FlushStepFacts DEF IInv

\* What PeerReferences::Alloc does to every slot, whether it reuses one or
\* appends one: the slot id was not occupied, now it is, and nothing else
\* moves.
LEMMA AllocFacts ==
    ASSUME IInv, NEW d \in PeerData, Alloc(d)
    PROVE  LET id == NextId
               n  == Len(peers')
           IN  /\ id \in Nat \ {0}
               /\ peers' \in Seq(PeerData \cup {Null})
               /\ versions' \in Seq(1 .. VersionMod - 1)
               /\ epoch' \in Seq(Nat)
               /\ perHostOffset' \in Seq(Nat)
               /\ Len(versions') = n /\ Len(epoch') = n
               /\ Len(perHostOffset') = n
               /\ id \in 1 .. n /\ DOMAIN peers \subseteq 1 .. n
               /\ \A i \in 1 .. n : i # id => i \in DOMAIN peers
               /\ id \in DOMAIN peers => peers[id] = Null
               /\ peers'[id] = d
               /\ perHostOffset'[id] = Len(hostPeers[HostOf[d]]) + 1
               /\ \A i \in 1 .. n : i # id =>
                     /\ peers'[i] = peers[i]
                     /\ perHostOffset'[i] = perHostOffset[i]
               /\ \A i \in DOMAIN peers :
                     versions'[i] = versions[i] /\ epoch'[i] = epoch[i]
               /\ issued' = [issued EXCEPT
                               ![d] = [id |-> id, version |-> versions'[id]]]
               /\ peerHandle' = [peerHandle EXCEPT
                               ![d] = [id |-> id, version |-> versions'[id]]]
               /\ issuedEpoch' = [issuedEpoch EXCEPT ![d] = epoch'[id]]
               /\ freeIds' \in Seq(Nat \ {0})
               /\ \A i, j \in DOMAIN freeIds' :
                     freeIds'[i] = freeIds'[j] => i = j
               /\ ToSet(freeIds') = ToSet(freeIds) \ {id}
  <1> DEFINE N    == Len(peers)
             slot == Len(hostPeers[HostOf[d]]) + 1
  <1>1. /\ peers \in Seq(PeerData \cup {Null})
        /\ versions \in Seq(1 .. VersionMod - 1)
        /\ epoch \in Seq(Nat)
        /\ perHostOffset \in Seq(Nat)
        /\ freeIds \in Seq(Nat \ {0})
        /\ hostPeers \in [Host -> Seq(PeerData)]
        /\ N \in Nat /\ DOMAIN peers = 1 .. N
    BY DEF IInv, TypeOK
  <1>2. Len(versions) = N /\ Len(epoch) = N /\ Len(perHostOffset) = N
    BY SMTT(30) DEF IInv, FreeIdsExact, HandlesOrdered
  <1>3. /\ \A i, j \in DOMAIN freeIds : freeIds[i] = freeIds[j] => i = j
        /\ ToSet(freeIds) = {i \in 1 .. N : peers[i] = Null}
    BY <1>1 DEF IInv, FreeIdsExact
  <1>4. slot \in Nat
    BY <1>1, PeerManagerAssumption
  <1>5. 1 \in 1 .. VersionMod - 1
    BY PeerManagerAssumption
  <1>6. CASE Len(freeIds) > 0
    <2> DEFINE id == Last(freeIds)
    <2>0. NextId = id
      BY <1>6 DEF NextId
    <2>1. /\ freeIds' = Front(freeIds)
          /\ peers' = [peers EXCEPT ![id] = d]
          /\ perHostOffset' = [perHostOffset EXCEPT ![id] = slot]
          /\ versions' = versions /\ epoch' = epoch
          /\ issued' = [issued EXCEPT
                          ![d] = [id |-> id, version |-> versions[id]]]
          /\ peerHandle' = [peerHandle EXCEPT
                          ![d] = [id |-> id, version |-> versions[id]]]
          /\ issuedEpoch' = [issuedEpoch EXCEPT ![d] = epoch[id]]
      BY <1>6, <2>0 DEF Alloc
    <2> DEFINE m == Len(freeIds)
    <2>2. /\ Front(freeIds) \in Seq(Nat \ {0})
          /\ DOMAIN Front(freeIds) = 1 .. m - 1
          /\ \A j \in 1 .. m - 1 : Front(freeIds)[j] = freeIds[j]
          /\ id = freeIds[m] /\ m \in Nat \ {0} /\ DOMAIN freeIds = 1 .. m
      <3>1. m \in Nat \ {0} /\ DOMAIN freeIds = 1 .. m
        BY <1>1, <1>6
      <3>2. id = freeIds[m]
        BY DEF Last
      <3> QED
        BY SMTT(30), <1>1, <1>6, <3>1, <3>2, FrontFacts
    <2> HIDE DEF id, m, N, slot
    <2>3. id \in ToSet(freeIds)
      BY <2>2 DEF ToSet
    <2>4. id \in 1 .. N /\ peers[id] = Null
      BY <1>3, <2>3
    <2>5. \A j \in 1 .. m - 1 : j \in 1 .. m /\ freeIds[j] # id
      BY SMTT(30), <1>3, <2>2
    <2>6. ToSet(Front(freeIds)) = ToSet(freeIds) \ {id}
      <3>1. \A j \in 1 .. m : freeIds[j] # id => j \in 1 .. m - 1
        BY <2>2
      <3> QED
        BY <2>2, <2>5, <3>1 DEF ToSet
    <2>7. \A i, j \in DOMAIN Front(freeIds) :
             Front(freeIds)[i] = Front(freeIds)[j] => i = j
      BY SMTT(30), <1>3, <2>2, <2>5
    <2>8. /\ peers' \in Seq(PeerData \cup {Null})
          /\ Len(peers') = N
          /\ \A j \in 1 .. N : peers'[j] = IF j = id THEN d ELSE peers[j]
      BY <1>1, <2>1, <2>4, ExceptFacts DEF N
    <2>9. /\ perHostOffset' \in Seq(Nat)
          /\ Len(perHostOffset') = N
          /\ \A j \in 1 .. N :
                perHostOffset'[j] = IF j = id THEN slot ELSE perHostOffset[j]
      BY <1>1, <1>2, <1>4, <2>1, <2>4, ExceptFacts
    <2> QED
      BY SMTT(30), <1>1, <1>2, <2>0, <2>1, <2>2, <2>4, <2>6, <2>7, <2>8, <2>9 DEF slot
  <1>7. CASE ~(Len(freeIds) > 0)
    <2> DEFINE id == N + 1
    <2>0. NextId = id
      BY <1>7 DEF NextId
    <2>1. /\ freeIds' = freeIds
          /\ peers' = Append(peers, d)
          /\ perHostOffset' = Append(perHostOffset, slot)
          /\ versions' = Append(versions, 1) /\ epoch' = Append(epoch, 0)
          /\ issued' = [issued EXCEPT ![d] = [id |-> id, version |-> 1]]
          /\ peerHandle' = [peerHandle EXCEPT ![d] = [id |-> id, version |-> 1]]
          /\ issuedEpoch' = [issuedEpoch EXCEPT ![d] = 0]
      BY <1>7, <2>0 DEF Alloc
    <2>2. ToSet(freeIds) = {} /\ id \notin ToSet(freeIds)
      BY <1>1, <1>7 DEF ToSet
    <2>3. /\ peers' \in Seq(PeerData \cup {Null})
          /\ Len(peers') = N + 1
          /\ \A j \in 1 .. N : peers'[j] = peers[j]
          /\ peers'[N + 1] = d
      BY <1>1, <2>1, AppendFacts
    <2>4. /\ perHostOffset' \in Seq(Nat)
          /\ Len(perHostOffset') = N + 1
          /\ \A j \in 1 .. N : perHostOffset'[j] = perHostOffset[j]
          /\ perHostOffset'[N + 1] = slot
      BY <1>1, <1>2, <1>4, <2>1, AppendFacts
    <2>5. /\ versions' \in Seq(1 .. VersionMod - 1)
          /\ Len(versions') = N + 1
          /\ \A j \in 1 .. N : versions'[j] = versions[j]
          /\ versions'[N + 1] = 1
      BY <1>1, <1>2, <1>5, <2>1, AppendFacts
    <2>6. /\ epoch' \in Seq(Nat)
          /\ Len(epoch') = N + 1
          /\ \A j \in 1 .. N : epoch'[j] = epoch[j]
          /\ epoch'[N + 1] = 0
      BY <1>1, <1>2, <2>1, AppendFacts
    <2> HIDE DEF N, slot
    <2>7. id \in Nat \ {0} /\ id \notin 1 .. N
      BY <1>1
    <2>8. \A i \in 1 .. N + 1 : i # id => i \in 1 .. N
      BY <1>1
    <2>9. N + 1 \in 1 .. N + 1 /\ 1 .. N \subseteq 1 .. N + 1
      BY <1>1
    <2>10. /\ id \in 1 .. Len(peers')
           /\ DOMAIN peers \subseteq 1 .. Len(peers')
           /\ \A i \in 1 .. Len(peers') : i # id => i \in DOMAIN peers
           /\ id \notin DOMAIN peers
      BY <1>1, <2>3, <2>7, <2>8, <2>9
    <2>11. /\ \A i \in 1 .. Len(peers') : i # id =>
                 peers'[i] = peers[i] /\ perHostOffset'[i] = perHostOffset[i]
           /\ \A i \in DOMAIN peers :
                 versions'[i] = versions[i] /\ epoch'[i] = epoch[i]
      BY Zenon, <1>1, <2>3, <2>4, <2>5, <2>6, <2>8
    <2>12. /\ freeIds' \in Seq(Nat \ {0})
           /\ \A i, j \in DOMAIN freeIds' : freeIds'[i] = freeIds'[j] => i = j
           /\ ToSet(freeIds') = ToSet(freeIds) \ {id}
      BY <1>1, <1>3, <2>1, <2>2
    <2>13. /\ issued' = [issued EXCEPT
                            ![d] = [id |-> id, version |-> versions'[id]]]
           /\ peerHandle' = [peerHandle EXCEPT
                            ![d] = [id |-> id, version |-> versions'[id]]]
           /\ issuedEpoch' = [issuedEpoch EXCEPT ![d] = epoch'[id]]
      BY Zenon, <2>1, <2>5, <2>6
    <2>14. /\ peers'[id] = d /\ perHostOffset'[id] = slot
           /\ Len(versions') = Len(peers') /\ Len(epoch') = Len(peers')
           /\ Len(perHostOffset') = Len(peers')
      BY <2>3, <2>4, <2>5, <2>6
    <2>15. /\ id \in Nat \ {0}
           /\ peers' \in Seq(PeerData \cup {Null})
           /\ versions' \in Seq(1 .. VersionMod - 1)
           /\ epoch' \in Seq(Nat)
           /\ perHostOffset' \in Seq(Nat)
      BY <2>3, <2>4, <2>5, <2>6, <2>7
    <2> HIDE DEF id
    <2> QED
      BY <2>0, <2>10, <2>11, <2>12, <2>13, <2>14, <2>15, Zenon DEF slot
  <1> QED
    BY SMTT(30), <1>6, <1>7

\* PeerReferences::Alloc preserves the invariant.
LEMMA AllocIInv ==
    ASSUME IInv, NEW d \in PeerData, Alloc(d)
    PROVE  IInv'
  <1> DEFINE id == NextId
             h  == HostOf[d]
             n  == Len(peers')
             V  == hostPeers[h]
             handle == [id |-> id, version |-> versions'[id]]
  <1>1. /\ id \in Nat \ {0}
        /\ peers' \in Seq(PeerData \cup {Null})
        /\ versions' \in Seq(1 .. VersionMod - 1)
        /\ epoch' \in Seq(Nat)
        /\ perHostOffset' \in Seq(Nat)
        /\ Len(versions') = n /\ Len(epoch') = n
        /\ Len(perHostOffset') = n
    BY AllocFacts
  <1>2. /\ id \in 1 .. n /\ DOMAIN peers \subseteq 1 .. n
        /\ \A i \in 1 .. n : i # id => i \in DOMAIN peers
        /\ id \in DOMAIN peers => peers[id] = Null
        /\ peers'[id] = d
        /\ perHostOffset'[id] = Len(V) + 1
        /\ \A i \in 1 .. n : i # id =>
              peers'[i] = peers[i] /\ perHostOffset'[i] = perHostOffset[i]
        /\ \A i \in DOMAIN peers :
              versions'[i] = versions[i] /\ epoch'[i] = epoch[i]
    BY SMTT(30), AllocFacts
  <1>3. /\ issued' = [issued EXCEPT ![d] = handle]
        /\ peerHandle' = [peerHandle EXCEPT ![d] = handle]
        /\ issuedEpoch' = [issuedEpoch EXCEPT ![d] = epoch'[id]]
    BY AllocFacts
  <1>4. /\ freeIds' \in Seq(Nat \ {0})
        /\ \A i, j \in DOMAIN freeIds' : freeIds'[i] = freeIds'[j] => i = j
        /\ ToSet(freeIds') = ToSet(freeIds) \ {id}
    BY AllocFacts
  <1>5. /\ flushIndex = 0
        /\ issued[d] = NoHandle
        /\ hostPeers' = [hostPeers EXCEPT ![h] = Append(V, d)]
        /\ toFlush' = toFlush /\ flushIndex' = 0 /\ unvisited' = unvisited
    BY DEF Alloc, Constructed, flush
  <1>6. TypeOK /\ HandlesOrdered /\ FreeIdsExact /\ HostOffsetsExact
        /\ FlushSetExact /\ FlushVisitsAll
    BY DEF IInv
  <1>7. /\ h \in Host /\ V \in Seq(PeerData) /\ Len(V) \in Nat
        /\ d # Null /\ Null \notin PeerData /\ HostOf \in [PeerData -> Host]
    BY <1>6, PeerManagerAssumption DEF TypeOK
  <1>8. DOMAIN peers' = 1 .. n /\ n \in Nat
    BY <1>1
  <1>9. /\ versions'[id] \in 1 .. VersionMod - 1
        /\ epoch'[id] \in Nat
    <2>1. id \in 1 .. Len(versions') /\ id \in 1 .. Len(epoch')
      BY <1>1, <1>2
    <2> HIDE DEF id
    <2> QED
      BY Zenon, <1>1, <2>1, ElementOfSeq
  <1>10. /\ handle \in Handle /\ handle # NoHandle
         /\ handle.id = id /\ handle.version = versions'[id]
    BY SMTT(30), <1>1, <1>9, PeerManagerAssumption DEF Handle, NoHandle
  <1> HIDE DEF id, h, n, V, handle
  <1>11. /\ \A e \in PeerData : issued'[e] = IF e = d THEN handle ELSE issued[e]
         /\ \A e \in PeerData :
               peerHandle'[e] = IF e = d THEN handle ELSE peerHandle[e]
         /\ \A e \in PeerData :
               issuedEpoch'[e] = IF e = d THEN epoch'[id] ELSE issuedEpoch[e]
         /\ \A g \in Host :
               hostPeers'[g] = IF g = h THEN Append(V, d) ELSE hostPeers[g]
    BY <1>3, <1>5, <1>6 DEF TypeOK
  <1>12. /\ Append(V, d) \in Seq(PeerData)
         /\ DOMAIN Append(V, d) = 1 .. Len(V) + 1
         /\ \A j \in 1 .. Len(V) : Append(V, d)[j] = V[j]
         /\ Append(V, d)[Len(V) + 1] = d
         /\ DOMAIN V = 1 .. Len(V)
    BY <1>7, AppendFacts
  <1>13. peerHandle[d] = NoHandle
    BY <1>5, <1>6 DEF HandlesOrdered, Live
  <1>14. TypeOK'
    <2>1. /\ hostPeers' \in [Host -> Seq(PeerData)]
          /\ peerHandle' \in [PeerData -> Handle]
          /\ issued' \in [PeerData -> Handle]
          /\ issuedEpoch' \in [PeerData -> Nat]
      BY Zenon, <1>3, <1>5, <1>6, <1>9, <1>10, <1>12 DEF TypeOK
    <2> QED
      BY SMTT(30), <1>1, <1>4, <1>5, <1>6, <2>1 DEF TypeOK
  <1>15. HandlesOrdered'
    <2>1. \A i \in 1 .. n : peers'[i] # Null =>
             peerHandle'[peers'[i]] # NoHandle /\ peerHandle'[peers'[i]].id = i
      <3> TAKE i \in 1 .. n
      <3>1. CASE i = id
        BY <1>2, <1>10, <1>11, <3>1
      <3>2. CASE i # id /\ peers[i] # Null
        <4>1. i \in DOMAIN peers /\ peers'[i] = peers[i]
          BY <1>2, <3>2
        <4>2. peers[i] \in PeerData
          BY SMTT(30), <1>6, <3>2, <4>1 DEF TypeOK
        <4>3. peerHandle[peers[i]] # NoHandle /\ peerHandle[peers[i]].id = i
          BY <1>6, <3>2, <4>1 DEF HandlesOrdered, Live
        <4> QED
          BY <1>11, <1>13, <4>1, <4>2, <4>3
      <3> QED
        BY <1>2, <3>1, <3>2
    <2>2. \A e \in PeerData : peerHandle'[e] # NoHandle =>
             /\ peerHandle'[e] = issued'[e]
             /\ issued'[e].id \in 1 .. n
             /\ peers'[issued'[e].id] = e
             /\ issued'[e].version = versions'[issued'[e].id]
             /\ issuedEpoch'[e] = epoch'[issued'[e].id]
      <3> TAKE e \in PeerData
      <3>1. CASE e = d
        BY <1>2, <1>10, <1>11, <3>1
      <3>2. CASE e # d /\ peerHandle[e] # NoHandle
        <4> DEFINE k == issued[e].id
        <4>1. /\ peerHandle[e] = issued[e] /\ k \in DOMAIN peers
              /\ peers[k] = e
              /\ issued[e].version = versions[k] /\ issuedEpoch[e] = epoch[k]
          BY SMTT(30), <1>6, <3>2 DEF HandlesOrdered, Live
        <4>2. k # id /\ k \in 1 .. n
          BY SMTT(30), <1>2, <1>7, <4>1
        <4> QED
          BY <1>2, <1>11, <3>2, <4>1, <4>2
      <3> QED
        BY SMTT(30), <1>11, <3>1, <3>2
    <2>3. \A e \in PeerData : issued'[e] # NoHandle =>
             /\ issued'[e].id \in 1 .. n
             /\ \/ peerHandle'[e] # NoHandle
                \/ issuedEpoch'[e] < epoch'[issued'[e].id]
                \/ /\ issuedEpoch'[e] = epoch'[issued'[e].id]
                   /\ issued'[e].version < versions'[issued'[e].id]
      <3> TAKE e \in PeerData
      <3>1. CASE e = d
        BY <1>2, <1>10, <1>11, <3>1
      <3>2. CASE e # d
        BY SMTT(30), <1>2, <1>6, <1>11, <3>2 DEF HandlesOrdered, Live, Constructed
      <3> QED
        BY <3>1, <3>2
    <2> QED
      BY SMTT(30), <1>1, <1>8, <2>1, <2>2, <2>3 DEF HandlesOrdered, Live, Constructed, n
  <1>16. FreeIdsExact'
    <2>1. \A i \in 1 .. n : peers'[i] = Null <=> i # id /\ peers[i] = Null
      BY <1>2, <1>7
    <2>2. ToSet(freeIds) = {i \in DOMAIN peers : peers[i] = Null}
      BY <1>6 DEF FreeIdsExact
    <2>3. ToSet(freeIds') = {i \in 1 .. n : peers'[i] = Null}
      BY <1>2, <1>4, <2>1, <2>2
    <2> QED
      BY <1>1, <1>4, <1>8, <2>3 DEF FreeIdsExact, n
  <1>17. HostOffsetsExact'
    <2>1. \A i \in 1 .. n :
             IF peers'[i] = Null
             THEN perHostOffset'[i] = 0
             ELSE /\ perHostOffset'[i] \in DOMAIN hostPeers'[HostOf[peers'[i]]]
                  /\ hostPeers'[HostOf[peers'[i]]][perHostOffset'[i]] = peers'[i]
      <3> TAKE i \in 1 .. n
      <3>1. CASE i = id
        <4>1. /\ peers'[i] = d /\ perHostOffset'[i] = Len(V) + 1
              /\ hostPeers'[h] = Append(V, d)
          BY Zenon, <1>2, <1>7, <1>11, <3>1
        <4>2. Len(V) + 1 \in DOMAIN Append(V, d)
          BY <1>7, <1>12
        <4> QED
          BY <1>7, <1>12, <4>1, <4>2 DEF h
      <3>2. CASE i # id /\ peers[i] = Null
        BY SMTT(30), <1>2, <1>6, <3>2 DEF HostOffsetsExact
      <3>3. CASE i # id /\ peers[i] # Null
        <4> DEFINE e == peers[i]
                   o == perHostOffset[i]
        <4>1. /\ i \in DOMAIN peers
              /\ peers'[i] = e /\ perHostOffset'[i] = o
          BY <1>2, <3>3
        <4>2. e \in PeerData /\ HostOf[e] \in Host
          BY SMTT(30), <1>6, <1>7, <3>3, <4>1 DEF TypeOK
        <4>3. o \in DOMAIN hostPeers[HostOf[e]] /\ hostPeers[HostOf[e]][o] = e
          BY <1>6, <3>3, <4>1 DEF HostOffsetsExact
        <4> HIDE DEF e, o
        <4>4. CASE HostOf[e] = h
          <5>1. o \in 1 .. Len(V) /\ V[o] = e
            BY <1>12, <4>3, <4>4 DEF V
          <5>2. o \in 1 .. Len(V) + 1
            BY <1>7, <5>1
          <5> QED
            BY Zenon, <1>7, <1>11, <1>12, <3>3, <4>1, <4>2, <4>4, <5>1, <5>2 DEF e
        <4>5. CASE HostOf[e] # h
          BY <1>11, <3>3, <4>1, <4>2, <4>3, <4>5 DEF e
        <4> QED
          BY SMTT(30), <4>4, <4>5
      <3> QED
        BY SMTT(30), <3>1, <3>2, <3>3
    <2>2. ASSUME NEW g \in Host, NEW i \in DOMAIN hostPeers'[g]
          PROVE  LET e == hostPeers'[g][i]
                 IN  /\ HostOf[e] = g
                     /\ peerHandle'[e].id <= Len(versions')
                     /\ peers'[peerHandle'[e].id] # Null
                     /\ peerHandle'[e].version = versions'[peerHandle'[e].id]
                     /\ perHostOffset'[peerHandle'[e].id] = i
      <3>1. CASE hostPeers'[g][i] = d /\ g = h /\ i = Len(V) + 1
        BY SMTT(30), <1>1, <1>2, <1>7, <1>10, <1>11, <3>1 DEF ExistsLocal, h
      <3>2. CASE i \in DOMAIN hostPeers[g] /\ hostPeers'[g][i] = hostPeers[g][i]
        <4> DEFINE e == hostPeers[g][i]
                   k == peerHandle[e].id
        <4>1. e \in PeerData
          BY SMTT(30), <1>6, <3>2 DEF TypeOK
        <4>2. /\ HostOf[e] = g
              /\ k <= Len(versions) /\ peers[k] # Null
              /\ peerHandle[e].version = versions[k]
              /\ perHostOffset[k] = i
          BY SMTT(30), <1>6, <3>2 DEF HostOffsetsExact, ExistsLocal
        <4>3. k \in Nat \ {0} /\ peerHandle[e] \in Handle
          BY SMTT(30), <1>6, <4>1 DEF TypeOK, Handle
        <4>4. k \in DOMAIN peers
          BY SMTT(30), <1>6, <4>2, <4>3 DEF TypeOK, FreeIdsExact
        <4>5. peerHandle[e] # NoHandle
          <5>1. peerHandle[e].version \in 1 .. VersionMod - 1
            <6>1. versions \in Seq(1 .. VersionMod - 1) /\ k \in 1 .. Len(versions)
              BY SMTT(30), <1>6, <4>2, <4>3 DEF TypeOK
            <6> HIDE DEF k, e
            <6>2. versions[k] \in 1 .. VersionMod - 1
              BY Zenon, <6>1, ElementOfSeq
            <6> QED
              BY SMTT(30), <4>2, <6>2
          <5> QED
            BY SMTT(30), <5>1 DEF NoHandle
        <4>6. e # d /\ peerHandle'[e] = peerHandle[e]
          BY <1>11, <1>13, <4>1, <4>5
        <4>7. k # id /\ k \in 1 .. n
          BY SMTT(30), <1>2, <4>2, <4>4
        <4>8. /\ peers'[k] # Null /\ versions'[k] = versions[k]
              /\ perHostOffset'[k] = i /\ k <= Len(versions')
          BY SMTT(30), <1>1, <1>2, <1>8, <4>2, <4>4, <4>7
        <4> HIDE DEF e, k
        <4>9. peerHandle'[e].id = k /\ peerHandle'[e].version = versions'[k]
          BY SMTT(30), <4>2, <4>6, <4>8 DEF k
        <4> QED
          BY SMTT(30), <3>2, <4>2, <4>8, <4>9 DEF e
      <3>3. CASE g # h
        <4>1. hostPeers'[g] = hostPeers[g]
          BY <1>11, <3>3
        <4> QED
          BY SMTT(30), <2>2, <3>2, <4>1
      <3>4. CASE g = h
        <4>1. hostPeers'[g] = Append(V, d) /\ hostPeers[g] = V
          BY Zenon, <1>7, <1>11, <3>4 DEF V
        <4>2. i \in 1 .. Len(V) + 1
          BY <1>12, <2>2, <4>1
        <4>3. CASE i = Len(V) + 1
          BY SMTT(30), <1>12, <3>1, <3>4, <4>1, <4>3
        <4>4. CASE i \in 1 .. Len(V)
          BY <1>12, <3>2, <4>1, <4>4
        <4> QED
          BY SMTT(30), <1>7, <4>2, <4>3, <4>4
      <3> QED
        BY SMTT(30), <3>3, <3>4
    <2> QED
      BY SMTT(30), <1>8, <2>1, <2>2 DEF HostOffsetsExact, ExistsLocal
  <1>18. FlushSetExact'
    <2>1. \A i \in ToSet(toFlush.peers) : i \in 1 .. n /\ peers'[i] # Null
      BY SMTT(30), <1>2, <1>6, <1>7 DEF FlushSetExact
    <2> QED
      BY SMTT(30), <1>5, <1>6, <1>8, <2>1 DEF FlushSetExact, Sparse
  <1>19. FlushVisitsAll'
    BY <1>5, <1>6 DEF FlushVisitsAll
  <1> QED
    BY <1>14, <1>15, <1>16, <1>17, <1>18, <1>19 DEF IInv

\* A handle that exists is not the null handle, and its slot is in range.
LEMMA ExistsFacts ==
    ASSUME IInv, NEW h \in Handle, ExistsLocal(h)
    PROVE  h # NoHandle /\ h.id \in DOMAIN peers /\ peers[h.id] \in PeerData
  <1>1. /\ versions \in Seq(1 .. VersionMod - 1)
        /\ peers \in Seq(PeerData \cup {Null})
        /\ Len(versions) = Len(peers)
        /\ h.id \in Nat \ {0}
        /\ h.id <= Len(versions) /\ peers[h.id] # Null
        /\ h.version = versions[h.id]
    BY DEF IInv, TypeOK, FreeIdsExact, ExistsLocal, Handle
  <1>2. h.id \in 1 .. Len(versions) /\ h.id \in 1 .. Len(peers)
    BY <1>1
  <1>3. versions[h.id] \in 1 .. VersionMod - 1
    BY Zenon, <1>1, <1>2, ElementOfSeq
  <1>4. peers[h.id] \in PeerData
    BY <1>1, <1>2, ElementOfSeq
  <1>5. h # NoHandle
    BY <1>1, <1>3 DEF NoHandle
  <1> QED
    BY SMTT(30), <1>1, <1>2, <1>4, <1>5

\* What PeerReferences::Release does to every slot and to the vector of the
\* host: the slot id is emptied and its (epoch, version) grows, and the last
\* peer of the vector takes the place of the released one.
LEMMA ReleaseFacts ==
    ASSUME IInv, NEW d \in PeerData, Release(d)
    PROVE  LET id    == peerHandle[d].id
               n     == Len(peers)
               V     == hostPeers[HostOf[d]]
               off   == perHostOffset[id]
               moved == peerHandle[V[Len(V)]].id
           IN  /\ id \in 1 .. n /\ peers[id] = d
               /\ peerHandle[d] # NoHandle
               /\ off \in 1 .. Len(V) /\ V[off] = d
               /\ moved \in 1 .. n /\ perHostOffset[moved] = Len(V)
               /\ off # Len(V) => moved # id
               /\ peers' \in Seq(PeerData \cup {Null})
               /\ versions' \in Seq(1 .. VersionMod - 1)
               /\ epoch' \in Seq(Nat)
               /\ perHostOffset' \in Seq(Nat)
               /\ Len(peers') = n /\ Len(versions') = n
               /\ Len(epoch') = n /\ Len(perHostOffset') = n
               /\ peers'[id] = Null
               /\ \/ epoch'[id] > epoch[id]
                  \/ epoch'[id] = epoch[id] /\ versions'[id] > versions[id]
               /\ \A i \in 1 .. n : i # id =>
                     /\ peers'[i] = peers[i]
                     /\ versions'[i] = versions[i]
                     /\ epoch'[i] = epoch[i]
               /\ \A i \in 1 .. n : perHostOffset'[i] =
                     IF off # Len(V) /\ i = moved THEN off
                     ELSE IF i = id THEN 0 ELSE perHostOffset[i]
  <1> DEFINE id    == peerHandle[d].id
             n     == Len(peers)
             h     == HostOf[d]
             V     == hostPeers[h]
             L     == Len(V)
             off   == perHostOffset[id]
             moved == peerHandle[V[L]].id
             clear == [perHostOffset EXCEPT ![id] = 0]
             next  == NextVersion(versions[id])
             ep    == IF (versions[id] + 1) % VersionMod = 0
                      THEN epoch[id] + 1 ELSE epoch[id]
  <1>1. /\ peers \in Seq(PeerData \cup {Null})
        /\ versions \in Seq(1 .. VersionMod - 1)
        /\ epoch \in Seq(Nat)
        /\ perHostOffset \in Seq(Nat)
        /\ hostPeers \in [Host -> Seq(PeerData)]
        /\ peerHandle \in [PeerData -> Handle]
        /\ n \in Nat /\ DOMAIN peers = 1 .. n
    BY DEF IInv, TypeOK
  <1>2. Len(versions) = n /\ Len(epoch) = n /\ Len(perHostOffset) = n
    BY DEF IInv, FreeIdsExact, HandlesOrdered
  <1>3. /\ ExistsLocal(peerHandle[d])
        /\ peers' = [peers EXCEPT ![id] = Null]
        /\ versions' = [versions EXCEPT ![id] = next]
        /\ epoch' = [epoch EXCEPT ![id] = ep]
        /\ perHostOffset' = IF off # L
                            THEN [clear EXCEPT ![peerHandle[Last(V)].id] = off]
                            ELSE clear
    BY SMTT(30) DEF Release
  <1>4. peerHandle[d] \in Handle /\ h \in Host /\ V \in Seq(PeerData)
    BY <1>1, PeerManagerAssumption
  <1>5. peerHandle[d] # NoHandle /\ id \in 1 .. n /\ peers[id] \in PeerData
    BY <1>1, <1>3, <1>4, ExistsFacts
  <1>6. peers[id] = d
    BY SMTT(30), <1>5 DEF IInv, HandlesOrdered, Live
  <1>7. off \in 1 .. L /\ V[off] = d /\ L \in Nat /\ DOMAIN V = 1 .. L
    <2>1. off \in DOMAIN V /\ V[off] = d
      BY Zenon, <1>1, <1>5, <1>6, PeerManagerAssumption DEF IInv, HostOffsetsExact
    <2> HIDE DEF off, V
    <2> QED
      BY <1>4, <2>1
  <1>8. L \in 1 .. L /\ Last(V) = V[L]
    BY <1>7 DEF Last
  <1> HIDE DEF off, V, h, n, id, L
  <1>9. /\ V[L] \in PeerData
        /\ ExistsLocal(peerHandle[V[L]])
        /\ perHostOffset[moved] = L
    BY <1>4, <1>7, <1>8 DEF IInv, HostOffsetsExact, V
  <1>10. moved \in 1 .. n
    BY <1>1, <1>9, ExistsFacts
  <1>11. off # L => moved # id
    BY <1>9 DEF off
  <1>12. versions[id] \in 1 .. VersionMod - 1 /\ epoch[id] \in Nat
    BY Zenon, <1>1, <1>2, <1>5, ElementOfSeq
  <1>13. /\ next \in 1 .. VersionMod - 1
         /\ (versions[id] + 1) % VersionMod # 0 => next = versions[id] + 1
    BY <1>12, NextVersionFacts
  <1>14. ep \in Nat
    BY <1>12
  <1>15. ep > epoch[id] \/ (ep = epoch[id] /\ next > versions[id])
    <2> HIDE DEF next
    <2>1. CASE (versions[id] + 1) % VersionMod = 0
      BY <1>12, <2>1
    <2>2. CASE (versions[id] + 1) % VersionMod # 0
      <3>1. ep = epoch[id]
        BY <2>2
      <3>2. next = versions[id] + 1
        BY <1>13, <2>2
      <3> QED
        BY <1>12, <3>1, <3>2
    <2> QED
      BY <2>1, <2>2
  <1> HIDE DEF next, ep, moved, clear
  <1>16. /\ peers' \in Seq(PeerData \cup {Null})
         /\ Len(peers') = n
         /\ \A j \in 1 .. n : peers'[j] = IF j = id THEN Null ELSE peers[j]
    BY <1>1, <1>3, <1>5, ExceptFacts DEF n
  <1>17. /\ versions' \in Seq(1 .. VersionMod - 1)
         /\ Len(versions') = n
         /\ \A j \in 1 .. n : versions'[j] = IF j = id THEN next ELSE versions[j]
    BY <1>1, <1>2, <1>3, <1>5, <1>13, ExceptFacts
  <1>18. /\ epoch' \in Seq(Nat)
         /\ Len(epoch') = n
         /\ \A j \in 1 .. n : epoch'[j] = IF j = id THEN ep ELSE epoch[j]
    BY <1>1, <1>2, <1>3, <1>5, <1>14, ExceptFacts
  <1>19. /\ clear \in Seq(Nat)
         /\ Len(clear) = n
         /\ \A j \in 1 .. n : clear[j] = IF j = id THEN 0 ELSE perHostOffset[j]
    BY <1>1, <1>2, <1>5, ExceptFacts DEF clear
  <1>20. /\ perHostOffset' \in Seq(Nat)
         /\ Len(perHostOffset') = n
         /\ \A i \in 1 .. n : perHostOffset'[i] =
               IF off # L /\ i = moved THEN off
               ELSE IF i = id THEN 0 ELSE perHostOffset[i]
    <2>1. CASE off # L
      <3>1. perHostOffset' = [clear EXCEPT ![moved] = off]
        BY <1>3, <1>8, <2>1 DEF moved
      <3>2. off \in Nat
        BY <1>7
      <3>3. /\ [clear EXCEPT ![moved] = off] \in Seq(Nat)
            /\ Len([clear EXCEPT ![moved] = off]) = n
            /\ \A j \in 1 .. n : [clear EXCEPT ![moved] = off][j] =
                  IF j = moved THEN off ELSE clear[j]
        BY <1>10, <1>19, <3>2, ExceptFacts
      <3> QED
        BY <1>19, <2>1, <3>1, <3>3
    <2>2. CASE off = L
      BY <1>3, <1>19, <2>2
    <2> QED
      BY <2>1, <2>2
  <1>21. /\ peers'[id] = Null
         /\ \/ epoch'[id] > epoch[id]
            \/ epoch'[id] = epoch[id] /\ versions'[id] > versions[id]
         /\ \A i \in 1 .. n : i # id =>
               /\ peers'[i] = peers[i]
               /\ versions'[i] = versions[i]
               /\ epoch'[i] = epoch[i]
    BY <1>5, <1>15, <1>16, <1>17, <1>18
  <1> QED
    BY <1>5, <1>6, <1>7, <1>9, <1>10, <1>11, <1>16, <1>17, <1>18, <1>20, <1>21,
       Zenon DEF id, n, V, h, off, moved, L

\* PeerReferences::Release preserves the invariant.
LEMMA ReleaseIInv ==
    ASSUME IInv, NEW d \in PeerData, Release(d)
    PROVE  IInv'
  <1> DEFINE id    == peerHandle[d].id
             n     == Len(peers)
             h     == HostOf[d]
             V     == hostPeers[h]
             L     == Len(V)
             off   == perHostOffset[id]
             moved == peerHandle[V[L]].id
             W     == SwapPop(V, off)
  <1>1. /\ id \in 1 .. n /\ peers[id] = d
        /\ peerHandle[d] # NoHandle
        /\ off \in 1 .. L /\ V[off] = d
        /\ moved \in 1 .. n /\ perHostOffset[moved] = L
        /\ off # L => moved # id
    BY Zenon, ReleaseFacts
  <1>2. /\ peers' \in Seq(PeerData \cup {Null})
        /\ versions' \in Seq(1 .. VersionMod - 1)
        /\ epoch' \in Seq(Nat)
        /\ perHostOffset' \in Seq(Nat)
        /\ Len(peers') = n /\ Len(versions') = n
        /\ Len(epoch') = n /\ Len(perHostOffset') = n
    BY SMTT(30), ReleaseFacts
  <1>3. /\ peers'[id] = Null
        /\ \/ epoch'[id] > epoch[id]
           \/ epoch'[id] = epoch[id] /\ versions'[id] > versions[id]
        /\ \A i \in 1 .. n : i # id =>
              /\ peers'[i] = peers[i]
              /\ versions'[i] = versions[i]
              /\ epoch'[i] = epoch[i]
    BY SMTT(30), ReleaseFacts
  <1>4. \A i \in 1 .. n : perHostOffset'[i] =
           IF off # L /\ i = moved THEN off
           ELSE IF i = id THEN 0 ELSE perHostOffset[i]
    BY SMTT(30), ReleaseFacts
  <1>5. /\ flushIndex = 0 /\ flushIndex' = 0 /\ unvisited' = unvisited
        /\ issued' = issued /\ issuedEpoch' = issuedEpoch
        /\ freeIds' = Append(freeIds, id)
        /\ toFlush' = RemovePeerToFlush(toFlush, id)
        /\ hostPeers' = [hostPeers EXCEPT ![h] = W]
        /\ peerHandle' = [peerHandle EXCEPT ![d] = NoHandle]
    BY DEF Release
  <1>6. TypeOK /\ HandlesOrdered /\ FreeIdsExact /\ HostOffsetsExact
        /\ FlushSetExact /\ FlushVisitsAll
    BY DEF IInv
  <1>7. /\ h \in Host /\ V \in Seq(PeerData) /\ L \in Nat /\ DOMAIN V = 1 .. L
        /\ d # Null /\ Null \notin PeerData /\ HostOf \in [PeerData -> Host]
    BY <1>6, PeerManagerAssumption DEF TypeOK
  <1>8. n \in Nat /\ DOMAIN peers = 1 .. n /\ DOMAIN peers' = 1 .. n
    BY <1>2, <1>6 DEF TypeOK
  <1>9. /\ W \in Seq(PeerData)
        /\ DOMAIN W = 1 .. L - 1
        /\ \A j \in 1 .. L - 1 : W[j] = IF j = off THEN V[L] ELSE V[j]
    <2>1. V \in Seq(PeerData) /\ off \in 1 .. Len(V)
      BY SMTT(30), <1>1, <1>7
    <2> HIDE DEF V, off
    <2> QED
      BY Zenon, <2>1, SwapPopFacts
  <1>10. id \in Nat \ {0}
    BY SMTT(30), <1>1, <1>8
  <1> HIDE DEF id, n, h, V, L, off, moved, W
  <1>11. /\ \A e \in PeerData :
               peerHandle'[e] = IF e = d THEN NoHandle ELSE peerHandle[e]
         /\ \A g \in Host : hostPeers'[g] = IF g = h THEN W ELSE hostPeers[g]
    BY <1>5, <1>6 DEF TypeOK
  <1>12. toFlush \in FlushType /\ Sparse(toFlush)
    BY <1>6 DEF TypeOK, FlushSetExact, FlushType
  <1>13. /\ toFlush' \in FlushType
         /\ Sparse(toFlush')
         /\ ToSet(toFlush'.peers) = ToSet(toFlush.peers) \ {id}
    BY Zenon, <1>5, <1>10, <1>12, RemoveFacts
  <1>14. /\ freeIds \in Seq(Nat \ {0})
         /\ freeIds' \in Seq(Nat \ {0})
         /\ DOMAIN freeIds' = 1 .. Len(freeIds) + 1
         /\ \A j \in 1 .. Len(freeIds) : freeIds'[j] = freeIds[j]
         /\ freeIds'[Len(freeIds) + 1] = id
    BY <1>5, <1>6, <1>10, AppendFacts DEF TypeOK
  <1>15. TypeOK'
    <2>1. /\ hostPeers' \in [Host -> Seq(PeerData)]
          /\ peerHandle' \in [PeerData -> Handle]
      <3>1. NoHandle \in Handle
        BY PeerManagerAssumption DEF Handle, NoHandle
      <3> QED
        BY Zenon, <1>5, <1>6, <1>9, <3>1 DEF TypeOK
    <2> QED
      BY SMTT(30), <1>2, <1>5, <1>6, <1>13, <1>14, <2>1 DEF TypeOK, FlushType
  <1>16. \A e \in PeerData : peerHandle[e] # NoHandle =>
            /\ peerHandle[e] = issued[e]
            /\ issued[e].id \in 1 .. n
            /\ peers[issued[e].id] = e
            /\ issued[e].version = versions[issued[e].id]
            /\ issuedEpoch[e] = epoch[issued[e].id]
    BY SMTT(30), <1>6, <1>8 DEF HandlesOrdered, Live
  <1>17. HandlesOrdered'
    <2>1. \A i \in 1 .. n : peers'[i] # Null =>
             peerHandle'[peers'[i]] # NoHandle /\ peerHandle'[peers'[i]].id = i
      <3> SUFFICES ASSUME NEW i \in 1 .. n, peers'[i] # Null
                   PROVE  /\ peerHandle'[peers'[i]] # NoHandle
                          /\ peerHandle'[peers'[i]].id = i
        OBVIOUS
      <3>1. i # id /\ peers'[i] = peers[i]
        BY <1>3
      <3>2. peerHandle[peers[i]] # NoHandle /\ peerHandle[peers[i]].id = i
        BY <1>6, <1>8, <3>1 DEF HandlesOrdered, Live
      <3>3. peers[i] \in PeerData
        BY <1>6, <1>8, <3>1 DEF TypeOK
      <3>4. peers[i] # d
        BY <3>1, <3>2 DEF id
      <3> QED
        BY SMTT(30), <1>11, <3>1, <3>2, <3>3, <3>4
    <2>2. \A e \in PeerData : peerHandle'[e] # NoHandle =>
             /\ peerHandle'[e] = issued'[e]
             /\ issued'[e].id \in 1 .. n
             /\ peers'[issued'[e].id] = e
             /\ issued'[e].version = versions'[issued'[e].id]
             /\ issuedEpoch'[e] = epoch'[issued'[e].id]
      <3> SUFFICES ASSUME NEW e \in PeerData, peerHandle'[e] # NoHandle
                   PROVE  /\ peerHandle'[e] = issued[e]
                          /\ issued[e].id \in 1 .. n
                          /\ peers'[issued[e].id] = e
                          /\ issued[e].version = versions'[issued[e].id]
                          /\ issuedEpoch[e] = epoch'[issued[e].id]
        BY SMTT(30), <1>5
      <3>1. e # d /\ peerHandle'[e] = peerHandle[e] /\ peerHandle[e] # NoHandle
        BY <1>11
      <3>2. issued[e].id # id
        BY SMTT(30), <1>1, <1>16, <3>1
      <3> QED
        BY <1>3, <1>16, <3>1, <3>2
    <2>3. \A e \in PeerData : issued'[e] # NoHandle =>
             /\ issued'[e].id \in 1 .. n
             /\ \/ peerHandle'[e] # NoHandle
                \/ issuedEpoch'[e] < epoch'[issued'[e].id]
                \/ /\ issuedEpoch'[e] = epoch'[issued'[e].id]
                   /\ issued'[e].version < versions'[issued'[e].id]
      <3> SUFFICES ASSUME NEW e \in PeerData, issued[e] # NoHandle
                   PROVE  /\ issued[e].id \in 1 .. n
                          /\ \/ peerHandle'[e] # NoHandle
                             \/ issuedEpoch[e] < epoch'[issued[e].id]
                             \/ /\ issuedEpoch[e] = epoch'[issued[e].id]
                                /\ issued[e].version < versions'[issued[e].id]
        BY SMTT(30), <1>5
      <3> DEFINE k == issued[e].id
      <3>1. /\ k \in 1 .. n
            /\ \/ peerHandle[e] # NoHandle
               \/ issuedEpoch[e] < epoch[k]
               \/ issuedEpoch[e] = epoch[k] /\ issued[e].version < versions[k]
        BY SMTT(30), <1>6, <1>8 DEF HandlesOrdered, Live, Constructed
      <3>2. /\ issuedEpoch[e] \in Nat /\ issued[e].version \in Nat
            /\ epoch[k] \in Nat /\ epoch'[k] \in Nat
            /\ versions[k] \in Nat /\ versions'[k] \in Nat
        <4>1. /\ issuedEpoch[e] \in Nat /\ issued[e] \in Handle
              /\ epoch \in Seq(Nat) /\ versions \in Seq(1 .. VersionMod - 1)
              /\ Len(epoch) = n /\ Len(versions) = n
          BY <1>6 DEF TypeOK, HandlesOrdered, FreeIdsExact, n
        <4> HIDE DEF k
        <4>2. epoch[k] \in Nat /\ epoch'[k] \in Nat
          BY SMTT(30), <1>2, <3>1, <4>1, ElementOfSeq
        <4>3. /\ versions[k] \in 1 .. VersionMod - 1
              /\ versions'[k] \in 1 .. VersionMod - 1
          BY Zenon, <1>2, <3>1, <4>1, ElementOfSeq
        <4> QED
          BY SMTT(30), <4>1, <4>2, <4>3, PeerManagerAssumption DEF Handle
      <3>3. CASE e # d /\ peerHandle[e] # NoHandle
        BY <1>11, <3>1, <3>3
      <3>4. CASE e = d
        <4>1. /\ k = id /\ issuedEpoch[e] = epoch[k]
              /\ issued[e].version = versions[k]
          BY SMTT(30), <1>1, <1>16, <3>4 DEF id
        <4> HIDE DEF k
        <4> QED
          BY <1>3, <3>1, <3>2, <4>1 DEF k
      <3>5. CASE e # d /\ peerHandle[e] = NoHandle
        <4> HIDE DEF k
        <4>1. CASE k = id
          BY <1>3, <3>1, <3>2, <3>5, <4>1 DEF k
        <4>2. CASE k # id
          BY SMTT(30), <1>3, <3>1, <3>2, <3>5, <4>2 DEF k
        <4> QED
          BY SMTT(30), <4>1, <4>2
      <3> QED
        BY SMTT(30), <3>3, <3>4, <3>5
    <2> QED
      BY SMTT(30), <1>2, <1>8, <2>1, <2>2, <2>3 DEF HandlesOrdered, Live, Constructed
  <1>18. FreeIdsExact'
    <2>1. /\ ToSet(freeIds) = {i \in 1 .. n : peers[i] = Null}
          /\ \A i, j \in 1 .. Len(freeIds) : freeIds[i] = freeIds[j] => i = j
          /\ DOMAIN freeIds = 1 .. Len(freeIds) /\ Len(freeIds) \in Nat
      BY SMTT(30), <1>6, <1>8, <1>14 DEF FreeIdsExact
    <2>2. \A i \in 1 .. Len(freeIds) : freeIds[i] # id
      BY <1>1, <1>7, <2>1 DEF ToSet
    <2>3. \A i, j \in 1 .. Len(freeIds) + 1 : freeIds'[i] = freeIds'[j] => i = j
      <3> SUFFICES ASSUME NEW i \in 1 .. Len(freeIds) + 1,
                          NEW j \in 1 .. Len(freeIds) + 1,
                          freeIds'[i] = freeIds'[j]
                   PROVE  i = j
        OBVIOUS
      <3>1. \A k \in 1 .. Len(freeIds) + 1 :
               k = Len(freeIds) + 1 \/ k \in 1 .. Len(freeIds)
        BY <2>1
      <3> QED
        BY SMTT(30), <1>14, <2>1, <2>2, <3>1
    <2>4. ToSet(freeIds') = ToSet(freeIds) \cup {id}
      BY SMTT(30), <1>14, <2>1 DEF ToSet
    <2>5. \A i \in 1 .. n : peers'[i] = Null <=> i = id \/ peers[i] = Null
      BY <1>3
    <2>6. ToSet(freeIds') = {i \in 1 .. n : peers'[i] = Null}
      BY <1>1, <2>1, <2>4, <2>5
    <2> QED
      BY <1>2, <1>8, <1>14, <2>3, <2>6 DEF FreeIdsExact
  <1>19. HostOffsetsExact'
    <2>1. \A i \in 1 .. n :
             IF peers[i] = Null
             THEN perHostOffset[i] = 0
             ELSE /\ perHostOffset[i] \in DOMAIN hostPeers[HostOf[peers[i]]]
                  /\ hostPeers[HostOf[peers[i]]][perHostOffset[i]] = peers[i]
      BY SMTT(30), <1>6, <1>8 DEF HostOffsetsExact
    <2>2. /\ L \in 1 .. L
          /\ V[L] \in PeerData /\ HostOf[V[L]] = h
          /\ peers[moved] # Null /\ peers[moved] = V[L]
      <3>1. L \in 1 .. L
        BY SMTT(30), <1>1, <1>7
      <3>2. /\ V[L] \in PeerData /\ HostOf[V[L]] = h
            /\ ExistsLocal(peerHandle[V[L]])
        BY SMTT(30), <1>6, <1>7, <3>1 DEF HostOffsetsExact, V
      <3>3. peerHandle[V[L]] # NoHandle
        BY <1>6, <3>2, ExistsFacts DEF TypeOK
      <3>4. peers[moved] = V[L]
        BY <1>16, <3>2, <3>3 DEF moved
      <3> QED
        BY SMTT(30), <1>7, <3>1, <3>2, <3>4
    <2>3. \A i \in 1 .. n :
             IF peers'[i] = Null
             THEN perHostOffset'[i] = 0
             ELSE /\ perHostOffset'[i] \in DOMAIN hostPeers'[HostOf[peers'[i]]]
                  /\ hostPeers'[HostOf[peers'[i]]][perHostOffset'[i]] = peers'[i]
      <3> TAKE i \in 1 .. n
      <3>1. CASE i = id
        BY SMTT(30), <1>1, <1>3, <1>4, <3>1
      <3>2. CASE i # id /\ off # L /\ i = moved
        <4>1. peers'[i] = V[L] /\ perHostOffset'[i] = off /\ hostPeers'[h] = W
          BY <1>3, <1>4, <1>7, <1>11, <2>2, <3>2
        <4>2. off \in 1 .. L - 1
          BY <1>1, <1>7, <3>2
        <4>3. off \in DOMAIN W /\ W[off] = V[L]
          BY <1>9, <4>2
        <4> QED
          BY SMTT(30), <1>7, <2>2, <4>1, <4>3
      <3>3. CASE i # id /\ ~(off # L /\ i = moved)
        <4>1. peers'[i] = peers[i] /\ perHostOffset'[i] = perHostOffset[i]
          BY SMTT(30), <1>3, <1>4, <3>3
        <4>2. CASE peers[i] = Null
          BY <2>1, <4>1, <4>2
        <4>3. CASE peers[i] # Null
          <5> DEFINE e == peers[i]
                     o == perHostOffset[i]
          <5>1. e \in PeerData /\ HostOf[e] \in Host
            BY SMTT(30), <1>6, <1>7, <1>8, <4>3 DEF TypeOK
          <5>2. o \in DOMAIN hostPeers[HostOf[e]] /\ hostPeers[HostOf[e]][o] = e
            BY <2>1, <4>3
          <5>3. peerHandle[e].id = i
            BY SMTT(30), <1>6, <1>8, <4>3 DEF HandlesOrdered
          <5> HIDE DEF e, o
          <5>4. CASE HostOf[e] # h
            BY SMTT(30), <1>11, <4>1, <4>3, <5>1, <5>2, <5>4 DEF e, o
          <5>5. CASE HostOf[e] = h
            <6>1. o \in 1 .. L /\ V[o] = e /\ hostPeers'[h] = W
              BY <1>7, <1>11, <5>2, <5>5 DEF V
            <6>2. o # off
              BY <1>1, <3>3, <5>3, <6>1 DEF id
            <6>3. o # L
              <7>1. o = L => i = moved
                BY <5>3, <6>1 DEF moved
              <7>2. o = L => off # L
                BY <6>2
              <7> QED
                BY <3>3, <7>1, <7>2
            <6>4. o \in 1 .. L - 1
              BY <1>7, <6>1, <6>3
            <6>5. o \in DOMAIN W /\ W[o] = e
              BY <1>9, <6>1, <6>2, <6>4
            <6> QED
              BY <4>1, <4>3, <5>5, <6>1, <6>5 DEF e, o
          <5> QED
            BY <5>4, <5>5
        <4> QED
          BY SMTT(30), <4>2, <4>3
      <3> QED
        BY SMTT(30), <3>1, <3>2, <3>3
    <2>4. ASSUME NEW g \in Host, NEW j \in DOMAIN hostPeers[g],
                 hostPeers[g][j] # d
          PROVE  LET e == hostPeers[g][j]
                     k == peerHandle'[e].id
                 IN  /\ HostOf[e] = g /\ e \in PeerData
                     /\ k <= Len(versions')
                     /\ peers'[k] # Null
                     /\ peerHandle'[e].version = versions'[k]
                     /\ k = peerHandle[e].id
                     /\ k \in 1 .. n /\ k # id /\ perHostOffset[k] = j
                     /\ peers[k] = e
      <3> DEFINE e == hostPeers[g][j]
                 k == peerHandle[e].id
      <3>1. e \in PeerData /\ peerHandle[e] \in Handle
        BY <1>6 DEF TypeOK
      <3>2. HostOf[e] = g /\ ExistsLocal(peerHandle[e]) /\ perHostOffset[k] = j
        BY Zenon, <1>6 DEF HostOffsetsExact
      <3>3. peerHandle[e] # NoHandle
        BY <3>1, <3>2, ExistsFacts
      <3>4. /\ k \in 1 .. n /\ peers[k] = e
            /\ peerHandle[e].version = versions[k]
        BY SMTT(30), <1>16, <3>1, <3>3
      <3>5. e # d
        BY <2>4
      <3> HIDE DEF e
      <3>6. k # id
        BY <1>1, <3>4, <3>5
      <3>7. peerHandle'[e] = peerHandle[e]
        BY <1>11, <3>1, <3>5
      <3> HIDE DEF k
      <3>8. peers'[k] # Null /\ versions'[k] = versions[k] /\ k <= Len(versions')
        <4>1. peers'[k] = peers[k] /\ versions'[k] = versions[k]
          BY <1>3, <3>4, <3>6
        <4>2. k <= Len(versions')
          BY <1>2, <1>8, <3>4
        <4> QED
          BY <1>7, <3>1, <3>4, <4>1, <4>2
      <3> QED
        BY Zenon, <3>1, <3>2, <3>4, <3>6, <3>7, <3>8 DEF e, k
    <2>5. ASSUME NEW g \in Host, NEW i \in DOMAIN hostPeers'[g]
          PROVE  LET e == hostPeers'[g][i]
                 IN  /\ HostOf[e] = g
                     /\ peerHandle'[e].id <= Len(versions')
                     /\ peers'[peerHandle'[e].id] # Null
                     /\ peerHandle'[e].version = versions'[peerHandle'[e].id]
                     /\ perHostOffset'[peerHandle'[e].id] = i
      <3>1. CASE g # h
        <4>1. hostPeers'[g] = hostPeers[g] /\ i \in DOMAIN hostPeers[g]
          BY <1>11, <2>5, <3>1
        <4> DEFINE e == hostPeers[g][i]
                   k == peerHandle'[e].id
        <4>2. e # d
          BY SMTT(30), <1>6, <3>1, <4>1 DEF HostOffsetsExact, h
        <4>3. /\ HostOf[e] = g
              /\ k <= Len(versions') /\ peers'[k] # Null
              /\ peerHandle'[e].version = versions'[k]
              /\ k \in 1 .. n /\ k # id /\ perHostOffset[k] = i /\ peers[k] = e
          BY Zenon, <2>4, <4>1, <4>2
        <4> HIDE DEF e, k
        <4>4. k # moved
          BY Zenon, <2>2, <3>1, <4>3
        <4>5. perHostOffset'[k] = i
          BY SMTT(30), <1>4, <4>3, <4>4
        <4> QED
          BY SMTT(30), <4>1, <4>3, <4>5 DEF e, k
      <3>2. CASE g = h
        <4>1. hostPeers'[g] = W /\ hostPeers[g] = V /\ i \in 1 .. L - 1
          BY Zenon, <1>9, <1>11, <2>5, <3>2 DEF V
        <4>2. i \in 1 .. L /\ L \in 1 .. L /\ i # L
          BY <1>7, <4>1
        <4>3. \A j \in 1 .. L : V[j] = d => j = off
          BY SMTT(30), <1>6, <1>7, <3>2 DEF HostOffsetsExact, V, off, id
        <4>4. CASE i = off
          <5> DEFINE e == V[L]
                     k == peerHandle'[e].id
          <5>1. e # d
            BY <4>2, <4>3, <4>4
          <5>2. /\ HostOf[e] = g
                /\ k <= Len(versions') /\ peers'[k] # Null
                /\ peerHandle'[e].version = versions'[k]
                /\ k \in 1 .. n /\ k = moved
            BY SMTT(30), <1>7, <2>4, <4>1, <4>2, <5>1 DEF moved
          <5>3. W[i] = e
            BY <1>9, <4>1, <4>4
          <5> HIDE DEF e, k
          <5>4. perHostOffset'[k] = i
            BY <1>4, <4>2, <4>4, <5>2
          <5> QED
            BY SMTT(30), <4>1, <5>2, <5>3, <5>4 DEF e, k
        <4>5. CASE i # off
          <5> DEFINE e == V[i]
                     k == peerHandle'[e].id
          <5>1. e # d
            BY <4>2, <4>3, <4>5
          <5>2. /\ HostOf[e] = g
                /\ k <= Len(versions') /\ peers'[k] # Null
                /\ peerHandle'[e].version = versions'[k]
                /\ k \in 1 .. n /\ k # id /\ perHostOffset[k] = i
            BY SMTT(30), <1>7, <2>4, <4>1, <4>2, <5>1
          <5>3. W[i] = e
            BY SMTT(30), <1>9, <4>1, <4>5
          <5> HIDE DEF e, k
          <5>4. k # moved
            BY SMTT(30), <1>1, <4>2, <5>2
          <5>5. perHostOffset'[k] = i
            BY <1>4, <5>2, <5>4
          <5> QED
            BY SMTT(30), <4>1, <5>2, <5>3, <5>5 DEF e, k
        <4> QED
          BY SMTT(30), <4>4, <4>5
      <3> QED
        BY <3>1, <3>2
    <2> QED
      BY SMTT(30), <1>8, <2>3, <2>5 DEF HostOffsetsExact, ExistsLocal
  <1>20. FlushSetExact'
    <2>1. Sparse(toFlush)'
      BY <1>13 DEF Sparse
    <2>2. \A i \in ToSet(toFlush'.peers) : i \in 1 .. n /\ peers'[i] # Null
      BY SMTT(30), <1>3, <1>6, <1>8, <1>13 DEF FlushSetExact
    <2> QED
      BY <1>8, <2>1, <2>2 DEF FlushSetExact, ToSet
  <1>21. FlushVisitsAll'
    <2>1. Len(toFlush'.peers) \in Nat
      BY <1>13 DEF FlushType
    <2>2. unvisited = {}
      BY <1>5, <1>6 DEF FlushVisitsAll
    <2> QED
      BY <1>5, <2>1, <2>2 DEF FlushVisitsAll
  <1> QED
    BY <1>15, <1>17, <1>18, <1>19, <1>20, <1>21 DEF IInv

-----------------------------------------------------------------------------
(* The theorems.                                                           *)

\* The invariant is inductive, so it holds in every state of the loop.
THEOREM Invariance == Spec => []IInv
  <1>1. IInv /\ [Next]_vars => IInv'
    <2> SUFFICES ASSUME IInv, [Next]_vars PROVE IInv'
      OBVIOUS
    <2>1. CASE \E d \in PeerData : Alloc(d)
      BY <2>1, AllocIInv
    <2>2. CASE \E d \in PeerData : Release(d)
      BY <2>2, ReleaseIInv
    <2>3. CASE \E d \in PeerData : Insert(d)
      BY <2>3, InsertIInv
    <2>4. CASE FlushBegin
      BY <2>4, FlushBeginIInv
    <2>5. CASE \E drained \in BOOLEAN : FlushVisit(drained)
      BY <2>5, FlushVisitIInv
    <2>6. CASE UNCHANGED vars
      <3>1. UNCHANGED <<table, refs>> /\ UNCHANGED flush
        BY <2>6 DEF vars
      <3>2. TypeOK'
        BY SMTT(30), <3>1 DEF IInv, TypeOK, table, refs, flush
      <3>0. toFlush' = toFlush /\ flushIndex' = flushIndex /\ peers' = peers
            /\ unvisited' = unvisited
        BY <3>1 DEF table, flush
      <3>3. FlushSetExact'
        BY <3>0, Zenon DEF IInv, FlushSetExact, Sparse
      <3>4. FlushVisitsAll'
        BY <3>0, Zenon DEF IInv, FlushVisitsAll
      <3> QED
        BY <3>1, <3>2, <3>3, <3>4, FlushStepFacts DEF IInv
    <2> QED
      BY <2>1, <2>2, <2>3, <2>4, <2>5, <2>6 DEF Next
  <1> QED
    BY <1>1, InitIInv, PTL DEF Spec

\* Handles are safe: PeerManager::GetLocalPeerData never returns another peer
\* for a handle than the one it was issued for, until the version counter of
\* the slot has wrapped.
THEOREM HandlesAreSafe == Spec => []HandleSafety
  <1>1. IInv => HandleSafety
    <2> SUFFICES ASSUME IInv, NEW d \in PeerData, issued[d] # NoHandle
                 PROVE  LET found == GetLocalPeerData(issued[d])
                        IN  /\ found \notin {d, Null} =>
                                  epoch[issued[d].id] > issuedEpoch[d]
                            /\ Live(d) => peerHandle[d] = issued[d] /\ found = d
      BY DEF HandleSafety, Constructed
    <2> DEFINE k == issued[d].id
    <2>1. issued[d] \in Handle /\ issuedEpoch[d] \in Nat
      BY DEF IInv, TypeOK
    <2>2. CASE Live(d)
      <3>1. /\ peerHandle[d] = issued[d] /\ k \in DOMAIN peers /\ peers[k] = d
            /\ issued[d].version = versions[k]
        BY SMTT(30), <2>2 DEF IInv, HandlesOrdered
      <3>2. k <= Len(versions)
        BY SMTT(30), <3>1 DEF IInv, TypeOK, FreeIdsExact
      <3>3. GetLocalPeerData(issued[d]) = d
        BY <3>1, <3>2, PeerManagerAssumption DEF GetLocalPeerData, ExistsLocal
      <3> QED
        BY <3>1, <3>3
    <2>3. CASE ~Live(d)
      <3>1. CASE ~ExistsLocal(issued[d])
        BY <2>3, <3>1 DEF GetLocalPeerData
      <3>2. CASE ExistsLocal(issued[d])
        <4>0. /\ Len(versions) = Len(peers) /\ Len(epoch) = Len(peers)
              /\ versions \in Seq(1 .. VersionMod - 1) /\ epoch \in Seq(Nat)
          BY SMTT(30) DEF IInv, TypeOK, FreeIdsExact, HandlesOrdered
        <4>a. k \in Nat \ {0} /\ k <= Len(versions)
          BY <2>1, <3>2 DEF Handle, ExistsLocal
        <4>1. k \in 1 .. Len(versions) /\ k \in 1 .. Len(epoch)
          BY <4>0, <4>a, LenProperties
        <4>2. issued[d].version = versions[k]
          BY <3>2 DEF ExistsLocal
        <4>3. \/ issuedEpoch[d] < epoch[k]
              \/ issuedEpoch[d] = epoch[k] /\ issued[d].version < versions[k]
          BY SMTT(30), <2>3 DEF IInv, HandlesOrdered, Constructed
        <4> HIDE DEF k
        <4>4. versions[k] \in 1 .. VersionMod - 1 /\ epoch[k] \in Nat
          BY Zenon, <4>0, <4>1, ElementOfSeq
        <4>5. issuedEpoch[d] < epoch[k]
          BY <4>2, <4>3, <4>4, PeerManagerAssumption
        <4> QED
          BY SMTT(30), <2>1, <2>3, <4>4, <4>5 DEF k
      <3> QED
        BY <3>1, <3>2
    <2> QED
      BY SMTT(30), <2>2, <2>3
  <1> QED
    BY <1>1, Invariance, PTL

\* The free list, the per-host vectors and the flush set agree with the slot
\* table in every state.
THEOREM TablesAgree == Spec => []TablesExact
  <1>1. IInv => TablesExact
    BY DEF IInv, TablesExact
  <1> QED
    BY <1>1, Invariance, PTL

\* FlushPendingPeers visits every pending peer exactly once although it
\* removes elements from the vector it walks.
THEOREM FlushVisitsEveryPeer == Spec => []FlushVisitsAll
  <1>1. IInv => FlushVisitsAll
    BY DEF IInv
  <1> QED
    BY <1>1, Invariance, PTL

=============================================================================
