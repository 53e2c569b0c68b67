----------------------------- MODULE FlatHashMap -----------------------------
(***************************************************************************)
(* The hash map of the pending calls: include/icon7/FlatHashMap.hpp.  The  *)
(* pairs are kept without gaps in the vector buckets; heads has, for every *)
(* hash bucket, the index of the first pair of its chain, and every pair   *)
(* the index of the next one.  Indices start at 1, and 0 ends a chain, in  *)
(* the code too.  A pair is removed by moving the last one to its place.   *)
(***************************************************************************)
EXTENDS Integers, Sequences, FiniteSetsExt

Seqs == INSTANCE SequencesExt

CONSTANTS
    Key, Value,
    Hash,           \* THash::hash of a key with the base of this map
    MinCapacity,    \* 16
    Slack           \* 5

ASSUME FlatHashMapAssumption ==
    /\ Hash \in [Key -> Nat]
    /\ \E k \in 0 .. 31 : MinCapacity = 2^k
    /\ Slack \in Nat

VARIABLES heads, buckets

mapVars == <<heads, buckets>>

\* Capacity(): heads is indexed from 0
Capacity(h) == Cardinality(DOMAIN h)

EmptyHeads(capacity) == [b \in 0 .. capacity - 1 |-> 0]

Bucket(key, h) == Hash[key] % Capacity(h)

\* The pairs of a chain from bucket b on, as indices; 0 after its end
Chain(h, bs, b) ==
    LET at[n \in 0 .. Len(bs)] ==
            IF n = 0 THEN h[b]
            ELSE LET i == at[n - 1] IN IF i = 0 THEN 0 ELSE bs[i].next
    IN  at

\* GetElement: the index of the pair of a key and of its predecessor
GetElement(h, bs, key) ==
    LET chain == Chain(h, bs, Bucket(key, h))
        hits  == {n \in DOMAIN chain : chain[n] # 0 /\ bs[chain[n]].key = key}
        n     == Min(hits)
    IN  IF hits = {} THEN [current |-> 0, prev |-> 0]
        ELSE [current |-> chain[n], prev |-> IF n = 0 THEN 0 ELSE chain[n - 1]]

\* RoundCapacity: the first power of two from MinCapacity on that is large enough
RoundCapacity(newCapacity, min) ==
    LET minCap == min + (min \div 2) + Slack
        wanted == Max({newCapacity, minCap})
    IN  Min({c \in {MinCapacity * 2^k : k \in 0 .. 15} : c >= wanted})

\* Mutant of Emplace: the chain of the bucket is lost
EmplaceAlone(m, key, value) ==
    LET b == Bucket(key, m.heads)
    IN  [heads   |-> [m.heads EXCEPT ![b] = Len(m.buckets) + 1],
         buckets |-> Append(m.buckets, [key |-> key, v |-> value, next |-> 0])]

\* emplace_back at the front of the chain of the key
Emplace(m, key, value) ==
    LET b == Bucket(key, m.heads)
    IN  [heads   |-> [m.heads EXCEPT ![b] = Len(m.buckets) + 1],
         buckets |-> Append(m.buckets, [key  |-> key,
                                        v    |-> value,
                                        next |-> m.heads[b]])]

\* Mutant of Rehash: the last pair is left behind
RehashButLast(newCapacity) ==
    Seqs!FoldLeft(LAMBDA m, p : Emplace(m, p.key, p.v),
                  [heads   |-> EmptyHeads(RoundCapacity(newCapacity, Len(buckets))),
                   buckets |-> <<>>],
                  Seqs!Front(buckets))

\* Rehash: the pairs are inserted again.  The new capacity leaves room for them,
\* so none of these insertions rehashes.
Rehash(newCapacity) ==
    Seqs!FoldLeft(LAMBDA m, p : Emplace(m, p.key, p.v),
                  [heads   |-> EmptyHeads(RoundCapacity(newCapacity, Len(buckets))),
                   buckets |-> <<>>],
                  buckets)

Full == Capacity(heads) < Len(buckets) + Len(buckets) \div 2

-----------------------------------------------------------------------------
MapInit == heads = EmptyHeads(MinCapacity) /\ buckets = <<>>

\* InsertOrSet and _Insert
InsertOrSet(key, value) ==
    LET e == GetElement(heads, buckets, key)
        m == IF Full THEN Rehash(2 * Capacity(heads))
             ELSE [heads |-> heads, buckets |-> buckets]
        r == Emplace(m, key, value)
    IN  \/ /\ e.current # 0
           /\ buckets' = [buckets EXCEPT ![e.current].v = value]
           /\ UNCHANGED heads
        \/ /\ e.current = 0
           /\ heads' = r.heads
           /\ buckets' = r.buckets

\* The index next of a chain's pair prev, or of its head when prev is 0
Link(m, b, prev, next) ==
    IF prev = 0
    THEN [m EXCEPT !.heads[b] = next]
    ELSE [m EXCEPT !.buckets[prev].next = next]

\* The pair at index i is taken out of its chain
Unlink(m, e, key) ==
    Link(m, Bucket(key, m.heads), e.prev, m.buckets[e.current].next)

\* The last pair is moved to the index of the one that was taken out
MoveLast(m, e) ==
    LET last == m.buckets[Len(m.buckets)]
        l    == GetElement(m.heads, m.buckets, last.key)
        prev == IF l.prev = e.current THEN e.prev ELSE l.prev
        moved == [m EXCEPT !.buckets = Seqs!Front([@ EXCEPT ![e.current] = last])]
    IN  Link(moved, Bucket(last.key, m.heads), prev, e.current)

\* Remove.  The early returns for an empty map and for a single pair do what
\* the rest would do.
MapRemove(key) ==
    LET e == GetElement(heads, buckets, key)
        u == Unlink([heads |-> heads, buckets |-> buckets], e, key)
        r == IF e.current = Len(buckets)
             THEN [u EXCEPT !.buckets = Seqs!Front(@)]
             ELSE MoveLast(u, e)
    IN  /\ e.current # 0
        /\ heads' = r.heads
        /\ buckets' = r.buckets

\* Clear
Clear ==
    /\ buckets # <<>>
    /\ buckets' = <<>>
    /\ heads' = EmptyHeads(Capacity(heads))

MapNext ==
    \/ \E k \in Key : MapRemove(k) \/ \E v \in Value : InsertOrSet(k, v)
    \/ Clear

MapSpec == MapInit /\ [][MapNext]_mapVars

-----------------------------------------------------------------------------
\* The vectors of the map.
MapTypeOK ==
    /\ \E k \in 0 .. 15 : heads \in
          [0 .. MinCapacity * 2^k - 1 -> 0 .. Len(buckets)]
    /\ buckets \in
          Seq([key : Key, v : Value, next : 0 .. Len(buckets)])

\* Every pair is on the chain of its bucket, once, and on no other: chains have
\* no cycles, share no pairs and lead to no removed pair, after any sequence of
\* insertions, rehashes and removals that move pairs about.
ChainsPartition ==
    /\ MapTypeOK
    /\ \A b \in DOMAIN heads :
          LET chain == Chain(heads, buckets, b)
              on(i) == {n \in DOMAIN chain : chain[n] = i}
          IN  \A i \in 1 .. Len(buckets) :
                  Cardinality(on(i)) =
                      IF Bucket(buckets[i].key, heads) = b THEN 1 ELSE 0

\* Get for every key
Found ==
    LET at(k) == GetElement(heads, buckets, k).current
    IN  [k \in {x \in Key : at(x) # 0} |-> buckets[at(k)].v]

Abstract == INSTANCE KeyValueMap WITH map <- Found

\* To its users it is a map: Get and Has find under every key the value that was
\* set last and not removed since.
ImplementsMap == Abstract!Spec
=============================================================================
