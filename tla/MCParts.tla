------------------------------ MODULE MCParts ------------------------------
(* Instances, for TLC, of the parts of the library that work on their own:   *)
(* the containers, the buffers, the framing of messages and the decoder of   *)
(* the stream, the tables of loops, peers and functions, and the calendar.   *)
(* A behaviour is one of one part, the one that part names; the others stay  *)
(* as they were initially, so that the state space is the sum of the parts.  *)
EXTENDS FramingProtocol, FrameDecoder, RpcRegistry, FlatHashMap, ByteBuffer,
        LoopIndex, PeerLookup, Calendar

VARIABLE part

parts == <<framingVars, decoderVars, registryVars, mapVars, bufferVars,
           loopIndexVars, lookupVars, calendarVars>>

-----------------------------------------------------------------------------
(* FramingProtocol: the smallest sizes, and the sizes around every power of  *)
(* two where a bit, a byte or the header grows.                              *)

Sizes ==
    {s \in (1 .. 40) \cup UNION {2^k - 2 .. 2^k + 2 : k \in 5 .. 28} :
        s <= MaxDataSize}

(* FrameDecoder: a stream of frames with headers of one to four bytes and    *)
(* bodies of one to six, the last one incomplete, cut into chunks in every   *)
(* way.  Positions inside a frame look like other headers.                   *)

Frames == <<[start |-> 0, h |-> 4, b |-> 2], [start |-> 6, h |-> 2, b |-> 3],
            [start |-> 11, h |-> 1, b |-> 1], [start |-> 13, h |-> 3, b |-> 6],
            [start |-> 22, h |-> 1, b |-> 4], [start |-> 27, h |-> 4, b |-> 9]>>

FrameAt(p) == {k \in DOMAIN Frames : Frames[k].start = p}

Headers == [p \in 0 .. Total - 1 |->
    IF FrameAt(p) # {} THEN Frames[CHOOSE k \in FrameAt(p) : TRUE].h
    ELSE (p % 4) + 1]

Bodies == [p \in 0 .. Total - 1 |->
    IF FrameAt(p) # {} THEN Frames[CHOOSE k \in FrameAt(p) : TRUE].b
    ELSE (p % 3) + 1]

(* RpcRegistry: a function with a string for a name and two with numbers,    *)
(* with an entry that is never used below them; a converter with a queue and *)
(* one whose getter may return none.                                         *)

CONSTANTS s1, c1, c2, m1, m2, m3

MCQueueOf == (c1 :> "fixed") @@ (c2 :> "getter")
MCNameOf  == (m1 :> s1) @@ (m2 :> 2) @@ (m3 :> 2)

(* FlatHashMap: four keys that share one bucket while the map is small; it   *)
(* has four buckets after its rehash, and three of them still share one.     *)

CONSTANTS k1, k2, k3, k4

Keys   == {k1, k2, k3, k4}
Hashes == (k1 :> 0) @@ (k2 :> 4) @@ (k3 :> 8) @@ (k4 :> 1)

(* ByteBuffer, LoopIndex and PeerLookup: their objects.                      *)

CONSTANTS w1, w2, r1, r2, l1, l2, l3, t1, t2, d1, d2, d3

(* Calendar: from the first day on, over the year 2000, which 400 divides,   *)
(* and over 2100, which only 100 does.                                       *)

Start(n, y, m, d) == [days |-> n, date |-> [year |-> y, month |-> m, day |-> d]]
MCStarts == {Start(0, 1970, 1, 1), Start(9831, 1996, 12, 1), Start(47086, 2098, 12, 1)}

Clock(s, a, b, c) == [second |-> s, milli |-> a, micro |-> b, nano |-> c]
MCClocks == {Clock(0, 0, 0, 0), Clock(86399, 999, 87, 605), Clock(3661, 5, 0, 1)}

-----------------------------------------------------------------------------
MCInit ==
    /\ part \in {"framing", "decoder", "registry", "map", "buffer", "loops",
                 "lookup", "calendar"}
    /\ FramingInit /\ DecoderInit /\ RegistryInit /\ MapInit /\ BufferInit
    /\ LoopIndexInit /\ LookupInit /\ CalendarInit
    \* only the behaviours of a part differ in how that part begins
    /\ part # "framing" => dataSize = 1 /\ flags = 0
    /\ part # "calendar" => days = 0 /\ clock = Clock(0, 0, 0, 0)

MCNext ==
    /\ UNCHANGED part
    /\ \/ /\ part = "framing" /\ FramingNext
          /\ UNCHANGED <<decoderVars, registryVars, mapVars, bufferVars,
                         loopIndexVars, lookupVars, calendarVars>>
       \/ /\ part = "decoder" /\ DecoderNext
          /\ UNCHANGED <<framingVars, registryVars, mapVars, bufferVars,
                         loopIndexVars, lookupVars, calendarVars>>
       \/ /\ part = "registry" /\ RegistryNext
          /\ UNCHANGED <<framingVars, decoderVars, mapVars, bufferVars,
                         loopIndexVars, lookupVars, calendarVars>>
       \/ /\ part = "map" /\ MapNext
          /\ UNCHANGED <<framingVars, decoderVars, registryVars, bufferVars,
                         loopIndexVars, lookupVars, calendarVars>>
       \/ /\ part = "buffer" /\ BufferNext
          /\ UNCHANGED <<framingVars, decoderVars, registryVars, mapVars,
                         loopIndexVars, lookupVars, calendarVars>>
       \/ /\ part = "loops" /\ LoopIndexNext
          /\ UNCHANGED <<framingVars, decoderVars, registryVars, mapVars,
                         bufferVars, lookupVars, calendarVars>>
       \/ /\ part = "lookup" /\ LookupNext
          /\ UNCHANGED <<framingVars, decoderVars, registryVars, mapVars,
                         bufferVars, loopIndexVars, calendarVars>>
       \/ /\ part = "calendar" /\ Tomorrow
          /\ UNCHANGED <<framingVars, decoderVars, registryVars, mapVars,
                         bufferVars, loopIndexVars, lookupVars>>

MCSpec == MCInit /\ [][MCNext]_<<part, parts>>
=============================================================================
