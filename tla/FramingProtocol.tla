--------------------------- MODULE FramingProtocol ---------------------------
(***************************************************************************)
(* The header of a frame: src/FramingProtocol.cpp.  A frame is a header of *)
(* one to four bytes and a body.  The low four bits of the first byte are  *)
(* the size of the header and the type of the RPC message, the other bits  *)
(* of the header the size of the body, little endian.                      *)
(*                                                                         *)
(* One frame is built and then read by the other side.  Arithmetic on the  *)
(* 32-bit word of the header is written with \div and %, byte by byte.     *)
(***************************************************************************)
EXTENDS Integers, Sequences

CONSTANT DataSize       \* sizes of the bodies that are framed

MaxDataSize == 268435456    \* 2^28

ASSUME FramingProtocolAssumption == DataSize \subseteq 1 .. MaxDataSize

VARIABLES
    dataSize,   \* size of the body
    flags,      \* flags & 6
    header,     \* the header once it is written
    received    \* what the other side reads from the header

framingVars == <<dataSize, flags, header, received>>

\* FLAGS_CALL_NO_FEEDBACK, FLAGS_CALL, FLAGS_CALL_RETURN_FEEDBACK,
\* FLAGS_PROTOCOL_CONTROLL_SEQUENCE
RpcFlags == {0, 2, 4, 6}

\* Mutant: off by one at the first boundary
GetHeaderSizeOff(size) ==
    IF size <= 17 THEN 1
    ELSE IF size <= 4096 THEN 2
    ELSE IF size <= 1048576 THEN 3
    ELSE 4

\* GetHeaderSize of a size that is at most MaxDataSize
GetHeaderSize(size) ==
    IF size <= 16 THEN 1
    ELSE IF size <= 4096 THEN 2
    ELSE IF size <= 1048576 THEN 3
    ELSE 4

\* The bits of a body size s - 1 that are in byte i of the header
SizeBits(s, i) ==
    IF i = 1 THEN ((s - 1) % 16) * 16
    ELSE IF i = 2 THEN ((s - 1) \div 16) % 256
    ELSE IF i = 3 THEN ((s - 1) \div 4096) % 256
    ELSE ((s - 1) \div 1048576) % 256

\* WriteHeader
WrittenHeader(headerSize, size, f) ==
    [i \in 1 .. headerSize |->
        IF i = 1 THEN SizeBits(size, 1) + 2 * f + headerSize - 1
                 ELSE SizeBits(size, i)]

\* GetPacketHeaderSize, GetPacketFlags
GetPacketHeaderSize(byte) == (byte % 4) + 1
GetPacketFlags(byte)      == 2 * ((byte \div 4) % 4)

\* GetPacketBodySize
GetPacketBodySize(h, headerSize) ==
    h[1] \div 16
      + (IF headerSize > 1 THEN h[2] * 16 ELSE 0)
      + (IF headerSize > 2 THEN h[3] * 4096 ELSE 0)
      + (IF headerSize > 3 THEN h[4] * 1048576 ELSE 0)
      + 1

-----------------------------------------------------------------------------
NotRead == [headerSize |-> 0, flags |-> 0, bodySize |-> 0]

FramingInit ==
    /\ dataSize \in DataSize
    /\ flags \in RpcFlags
    /\ header = <<>>
    /\ received = NotRead

\* WriteHeaderIntoBuffer
WriteHeaderIntoBuffer ==
    /\ header = <<>>
    /\ header' = WrittenHeader(GetHeaderSize(dataSize), dataSize, flags)
    /\ UNCHANGED <<dataSize, flags, received>>

\* What PushData and _InternalOnPacket take from the header
ReadHeader ==
    /\ header # <<>>
    /\ received = NotRead
    /\ LET size == GetPacketHeaderSize(header[1])
       IN  received' = [headerSize |-> size,
                        flags      |-> GetPacketFlags(header[1]),
                        bodySize   |-> GetPacketBodySize(header, size)]
    /\ UNCHANGED <<dataSize, flags, header>>

FramingNext == WriteHeaderIntoBuffer \/ ReadHeader

FramingSpec == FramingInit /\ [][FramingNext]_framingVars

-----------------------------------------------------------------------------
\* A header is up to four bytes.
FramingTypeOK ==
    /\ dataSize \in 1 .. MaxDataSize
    /\ flags \in RpcFlags
    /\ header \in Seq(0 .. 255) /\ Len(header) <= 4
    /\ received \in [headerSize : 0 .. 4, flags : RpcFlags, bodySize : Nat]

\* The receiver of a frame reads from its header the sizes and the flags the
\* sender has written, for every size up to the largest one and at every
\* boundary between two header sizes.
HeaderRoundTrip ==
    /\ FramingTypeOK
    /\ received # NotRead =>
          received = [headerSize |-> Len(header),
                      flags      |-> flags,
                      bodySize   |-> dataSize]
=============================================================================
