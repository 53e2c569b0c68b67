------------------------ MODULE FramingProtocolProofs ------------------------
(***************************************************************************)
(* The header of a frame is read back as it was written, for every size of *)
(* a body from 1 to 2^28 and every type of message.                        *)
(***************************************************************************)
EXTENDS FramingProtocol, TLAPS

\* Cutting a size into one, two, three or four digits and adding them up again.
LEMMA Digits ==
    ASSUME NEW n \in Nat
    PROVE  /\ n < 16 => n % 16 = n
           /\ n < 4096 => n = (n % 16) + 16 * ((n \div 16) % 256)
           /\ n < 1048576 =>
                n = (n % 16) + 16 * ((n \div 16) % 256)
                      + 4096 * ((n \div 4096) % 256)
           /\ n < 268435456 =>
                n = (n % 16) + 16 * ((n \div 16) % 256)
                      + 4096 * ((n \div 4096) % 256)
                      + 1048576 * ((n \div 1048576) % 256)
  <1>1. n < 16 => n % 16 = n
    BY SMT
  <1>2. n < 4096 => n = (n % 16) + 16 * ((n \div 16) % 256)
    BY SMT
  <1>3. n < 1048576 => n = (n % 16) + 16 * ((n \div 16) % 256)
                             + 4096 * ((n \div 4096) % 256)
    BY SMT
  <1>4. n < 268435456 => n = (n % 16) + 16 * ((n \div 16) % 256)
                               + 4096 * ((n \div 4096) % 256)
                               + 1048576 * ((n \div 1048576) % 256)
    BY SMT
  <1> QED
    BY <1>1, <1>2, <1>3, <1>4

\* The largest size, as a number.
LEMMA MaxDataSizeIs == MaxDataSize \in Nat /\ MaxDataSize <= 268435456
  BY SMT DEF MaxDataSize

\* What is read from a written header: the sizes and the flags it was written
\* with.
LEMMA WrittenIsRead ==
    ASSUME NEW s \in 1 .. MaxDataSize, NEW f \in RpcFlags
    PROVE  LET n == GetHeaderSize(s)
               h == WrittenHeader(n, s, f)
           IN  /\ n \in 1 .. 4
               /\ h \in [1 .. n -> 0 .. 255]
               /\ GetPacketHeaderSize(h[1]) = n
               /\ GetPacketFlags(h[1]) = f
               /\ GetPacketBodySize(h, n) = s
  <1> DEFINE n == GetHeaderSize(s)
             h == WrittenHeader(n, s, f)
             m == s - 1
  <1>1. /\ m \in Nat /\ m < 268435456
        /\ n \in 1 .. 4
        /\ n = 1 => m < 16
        /\ n = 2 => m < 4096
        /\ n = 3 => m < 1048576
    <2>1. s \in Nat /\ 1 <= s /\ s <= 268435456
      BY SMT, MaxDataSizeIs
    <2> QED
      BY SMT, <2>1 DEF GetHeaderSize
  <1>2. h = [i \in 1 .. n |-> IF i = 1 THEN SizeBits(s, 1) + 2 * f + n - 1
                                      ELSE SizeBits(s, i)]
    BY SMT DEF WrittenHeader
  <1>3. /\ SizeBits(s, 1) = (m % 16) * 16
        /\ SizeBits(s, 2) = (m \div 16) % 256
        /\ SizeBits(s, 3) = (m \div 4096) % 256
        /\ SizeBits(s, 4) = (m \div 1048576) % 256
    BY SMT DEF SizeBits
  <1>4. f \in {0, 2, 4, 6}
    BY SMT DEF RpcFlags
  <1> HIDE DEF n, m
  <1>5. /\ h[1] = (m % 16) * 16 + 2 * f + n - 1
        /\ n > 1 => h[2] = (m \div 16) % 256
        /\ n > 2 => h[3] = (m \div 4096) % 256
        /\ n > 3 => h[4] = (m \div 1048576) % 256
    BY SMT, <1>1, <1>2, <1>3
  <1> HIDE DEF h
  <1>6. /\ h[1] \in 0 .. 255
        /\ n > 1 => h[2] \in 0 .. 255
        /\ n > 2 => h[3] \in 0 .. 255
        /\ n > 3 => h[4] \in 0 .. 255
    BY SMT, <1>1, <1>4, <1>5
  <1>7. h \in [1 .. n -> 0 .. 255]
    <2>1. DOMAIN h = 1 .. n /\ h = [i \in 1 .. n |-> h[i]]
      BY SMT, <1>2 DEF h
    <2>2. \A i \in 1 .. n : h[i] \in 0 .. 255
      BY SMT, <1>1, <1>6
    <2> QED
      BY SMT, <2>1, <2>2
  <1>8. GetPacketHeaderSize(h[1]) = n /\ GetPacketFlags(h[1]) = f
    BY SMT, <1>1, <1>4, <1>5 DEF GetPacketHeaderSize, GetPacketFlags
  <1>9. GetPacketBodySize(h, n) = s
    <2>1. h[1] \div 16 = m % 16
      BY SMT, <1>1, <1>4, <1>5
    <2>2. GetPacketBodySize(h, n) = m + 1
      <3>1. CASE n = 1
        BY SMT, <1>1, <2>1, <3>1, Digits DEF GetPacketBodySize
      <3>2. CASE n = 2
        BY SMT, <1>1, <1>5, <2>1, <3>2, Digits DEF GetPacketBodySize
      <3>3. CASE n = 3
        BY SMT, <1>1, <1>5, <2>1, <3>3, Digits DEF GetPacketBodySize
      <3>4. CASE n = 4
        BY SMT, <1>1, <1>5, <2>1, <3>4, Digits DEF GetPacketBodySize
      <3> QED
        BY SMT, <1>1, <3>1, <3>2, <3>3, <3>4
    <2>3. s \in Nat /\ m = s - 1
      BY SMT, MaxDataSizeIs DEF m
    <2> HIDE DEF m
    <2> QED
      BY SMT, <1>1, <2>2, <2>3
  <1> QED
    BY SMT, <1>1, <1>7, <1>8, <1>9 DEF n, h

-----------------------------------------------------------------------------
\* The inductive invariant: a written header is the one of the size and the
\* flags, and what was read is what was written.
IInv ==
    /\ dataSize \in 1 .. MaxDataSize
    /\ flags \in RpcFlags
    /\ \/ header = <<>>
       \/ header = WrittenHeader(GetHeaderSize(dataSize), dataSize, flags)
    /\ \/ received = NotRead
       \/ /\ header = WrittenHeader(GetHeaderSize(dataSize), dataSize, flags)
          /\ received = [headerSize |-> GetHeaderSize(dataSize),
                         flags      |-> flags,
                         bodySize   |-> dataSize]

\* Every reachable state satisfies the inductive invariant.
THEOREM Invariance == FramingSpec => []IInv
  <1>1. FramingInit => IInv
    BY SMT, FramingProtocolAssumption DEF FramingInit, IInv
  <1>2. IInv /\ [FramingNext]_framingVars => IInv'
    <2> SUFFICES ASSUME IInv, [FramingNext]_framingVars PROVE IInv'
      OBVIOUS
    <2> DEFINE n == GetHeaderSize(dataSize)
               h == WrittenHeader(n, dataSize, flags)
    <2>1. /\ n \in 1 .. 4
          /\ GetPacketHeaderSize(h[1]) = n
          /\ GetPacketFlags(h[1]) = flags
          /\ GetPacketBodySize(h, n) = dataSize
      BY SMT, WrittenIsRead DEF IInv
    <2> HIDE DEF n, h
    <2>2. CASE WriteHeaderIntoBuffer
      <3>1. received = NotRead \/ header # <<>>
        <4>1. header = WrittenHeader(n, dataSize, flags) => DOMAIN header = 1 .. n
          BY SMT DEF WrittenHeader
        <4>2. DOMAIN <<>> = 1 .. 0
          OBVIOUS
        <4>3. header = WrittenHeader(n, dataSize, flags) => header # <<>>
          BY SMT, <2>1, <4>1, <4>2
        <4> QED
          BY SMT, <4>3 DEF IInv, n
      <3> QED
        BY SMT, <2>2, <3>1 DEF WriteHeaderIntoBuffer, IInv
    <2>3. CASE ReadHeader
      <3>1. header = h
        BY SMT, <2>3 DEF ReadHeader, IInv, h, n
      <3>2. received' = [headerSize |-> n, flags |-> flags, bodySize |-> dataSize]
        BY SMT, <2>1, <2>3, <3>1 DEF ReadHeader
      <3> QED
        BY SMT, <2>3, <3>1, <3>2 DEF ReadHeader, IInv, h, n
    <2>4. CASE UNCHANGED framingVars
      BY SMT, <2>4 DEF framingVars, IInv
    <2> QED
      BY SMT, <2>2, <2>3, <2>4 DEF FramingNext
  <1> QED
    BY <1>1, <1>2, PTL DEF FramingSpec

\* The sizes and flags GetPacketHeaderSize, GetPacketFlags and
\* GetPacketBodySize read are the ones WriteHeaderIntoBuffer has written, for
\* every size of a body up to 2^28: the other side always cuts the frame where
\* it ends.
THEOREM HeadersAreRead == FramingSpec => []HeaderRoundTrip
  <1>1. IInv => HeaderRoundTrip
    <2> SUFFICES ASSUME IInv PROVE HeaderRoundTrip
      OBVIOUS
    <2> DEFINE n == GetHeaderSize(dataSize)
               h == WrittenHeader(n, dataSize, flags)
    <2>1. n \in 1 .. 4 /\ h \in [1 .. n -> 0 .. 255]
      BY SMT, WrittenIsRead DEF IInv
    <2>2. header = <<>> \/ header = h
      BY SMT DEF IInv
    <2>3. /\ dataSize \in 1 .. MaxDataSize /\ flags \in RpcFlags
          /\ \/ received = NotRead
             \/ /\ header = h
                /\ received = [headerSize |-> n, flags |-> flags,
                               bodySize |-> dataSize]
      BY SMT DEF IInv
    <2> HIDE DEF n, h
    <2>4. h \in Seq(0 .. 255) /\ Len(h) = n
      BY SMT, <2>1
    <2>5. header \in Seq(0 .. 255) /\ Len(header) <= 4
      <3>1. <<>> \in Seq(0 .. 255) /\ Len(<<>>) = 0
        BY SMT
      <3>2. CASE header = <<>>
        BY SMT, <3>1, <3>2
      <3>3. CASE header = h
        BY SMT, <2>1, <2>4, <3>3
      <3> QED
        BY SMT, <2>2, <3>2, <3>3
    <2>6. received \in [headerSize : 0 .. 4, flags : RpcFlags, bodySize : Nat]
      <3>1. dataSize \in Nat
        BY SMT, <2>3, MaxDataSizeIs
      <3>2. NotRead \in [headerSize : 0 .. 4, flags : RpcFlags, bodySize : Nat]
        BY SMT DEF NotRead, RpcFlags
      <3> QED
        BY SMT, <2>1, <2>3, <3>1, <3>2
    <2> QED
      BY SMT, <2>3, <2>4, <2>5, <2>6 DEF FramingTypeOK, HeaderRoundTrip
  <1> QED
    BY <1>1, Invariance, PTL
=============================================================================
