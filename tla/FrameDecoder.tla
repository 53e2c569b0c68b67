---------------------------- MODULE FrameDecoder ----------------------------
(***************************************************************************)
(* Cutting the received byte stream into frames: src/FrameDecoder.cpp.     *)
(* The stream arrives in chunks of any size; PushData is called for each,  *)
(* and one Iteration is one pass of its loop.                              *)
(*                                                                         *)
(* A byte is its position in the stream.  HeaderSize[p] and BodySize[p]    *)
(* are the sizes the bytes of the stream at p say when they are taken for  *)
(* a header: of every position, frame boundary or not.  _writable_buffer   *)
(* holds size bytes from position start on.                                *)
(***************************************************************************)
EXTENDS Integers, Sequences

CONSTANTS
    Total,          \* length of the stream
    HeaderSize, BodySize

ASSUME FrameDecoderAssumption ==
    /\ Total \in Nat
    /\ HeaderSize \in [0 .. Total - 1 -> 1 .. 4]
    /\ BodySize \in [0 .. Total - 1 -> Nat \ {0}]

VARIABLES
    data,           \* position of the next byte of the chunk
    length,         \* bytes of the chunk left
    start, size,    \* _writable_buffer
    headerSize, frameSize,
    packets,        \* history: frames given to onPacket
    fatal           \* history: LOG_FATAL was reached

decoderVars == <<data, length, start, size, headerSize, frameSize, packets, fatal>>

\* std::min
Smaller(a, b) == IF a < b THEN a ELSE b

\* recv of up to the rest of the stream, and the call of PushData
PushData(n) ==
    /\ length = 0
    /\ n \in 1 .. Total - data
    /\ length' = n
    /\ UNCHANGED <<data, start, size, headerSize, frameSize, packets, fatal>>

\* The start of a frame: the size of the header is in its first byte
First == headerSize = 0

\* The header size an iteration works with
Header == IF First THEN HeaderSize[data] ELSE headerSize

\* Bytes in the buffer and left in the chunk after the first byte ...
Size1   == IF First THEN 1 ELSE size
Length1 == IF First THEN length - 1 ELSE length

\* ... and after the header was appended as far as it is there
HeaderBytes == IF Size1 < Header THEN Smaller(Length1, Header - Size1) ELSE 0
Size2   == Size1 + HeaderBytes
Length2 == Length1 - HeaderBytes

\* The chunk ends within the header
HeaderIncomplete ==
    /\ Size2 < Header
    /\ size' = Size2
    /\ length' = 0
    /\ data' = data + length
    /\ fatal' = (fatal \/ Length2 # 0)
    /\ UNCHANGED <<frameSize, packets>>

\* Mutant: the body size is stored minus one and read without adding it
FrameSizeShort ==
    IF Size2 = Header
    THEN Header + BodySize[IF First THEN data ELSE start] - 1
    ELSE frameSize

\* GetPacketBodySize once the header is there
FrameSize ==
    IF Size2 = Header
    THEN Header + BodySize[IF First THEN data ELSE start]
    ELSE frameSize

\* The body is appended as far as it is there; a complete frame is delivered
\* and Restart called, otherwise the chunk is used up
BodyBytes ==
    IF Size2 < FrameSize THEN Smaller(FrameSize - Size2, Length2) ELSE 0

HeaderComplete ==
    /\ Size2 >= Header
    /\ fatal' = (fatal \/ FrameSize = 0 \/ Size2 >= FrameSize)
    /\ \/ /\ Size2 + BodyBytes = FrameSize
          /\ packets' = Append(packets, [start  |-> start',
                                         size   |-> FrameSize,
                                         header |-> Header])
          /\ size' = 0
          /\ frameSize' = 0
          /\ length' = Length2 - BodyBytes
          /\ data' = data + (length - length')
       \/ /\ Size2 + BodyBytes # FrameSize
          /\ size' = Size2 + BodyBytes
          /\ frameSize' = FrameSize
          /\ length' = 0
          /\ data' = data + length
          /\ UNCHANGED packets

\* One pass of the loop of PushData
Iteration ==
    /\ length > 0
    /\ start' = IF First THEN data ELSE start
    /\ HeaderIncomplete \/ HeaderComplete
    /\ headerSize' = IF size' = 0 THEN 0 ELSE Header

DecoderInit ==
    /\ data = 0
    /\ length = 0
    /\ start = 0
    /\ size = 0
    /\ headerSize = 0
    /\ frameSize = 0
    /\ packets = <<>>
    /\ fatal = FALSE

DecoderNext == Iteration \/ \E n \in 1 .. Total - data : PushData(n)

DecoderSpec == DecoderInit /\ [][DecoderNext]_decoderVars

-----------------------------------------------------------------------------
\* Where the last delivered frame ends
Delivered ==
    IF packets = <<>> THEN 0
    ELSE packets[Len(packets)].start + packets[Len(packets)].size

\* The fields of the decoder.
DecoderTypeOK ==
    /\ data \in 0 .. Total
    /\ length \in 0 .. Total - data
    /\ start \in Nat /\ size \in Nat /\ frameSize \in Nat
    /\ headerSize \in 0 .. 4
    /\ packets \in Seq([start : Nat, size : Nat, header : 1 .. 4])
    /\ fatal \in BOOLEAN

\* The frames given to onPacket are the frames of the stream, all of them up to
\* the last one, in order, each with its own header size: the first starts with
\* the stream, every other one where the frame before it ends.
PacketsAreFrames ==
    \A k \in 1 .. Len(packets) :
        LET p == packets[k]
        IN  /\ p.start = IF k = 1 THEN 0
                         ELSE packets[k - 1].start + packets[k - 1].size
            /\ p.header = HeaderSize[p.start]
            /\ p.size = p.header + BodySize[p.start]

\* No byte is lost or taken twice, however the stream is cut into chunks: what
\* was received are the delivered frames and the contents of the buffer, which
\* starts where the last frame ends.
EveryByteAccounted ==
    /\ data = Delivered + size
    /\ size > 0 => start = Delivered
    /\ size = 0 <=> headerSize = 0

\* When PushData returns no complete frame is held back in the buffer, not even
\* one whose header ended an earlier chunk.
NoFrameWithheld ==
    length = 0 /\ size > 0 => size < HeaderSize[start] + BodySize[start]

\* None of the LOG_FATALs "This error should never happen - FrameDecoder
\* algorithm broken" is reached.
DecoderNeverFatal == ~fatal

\* For every way a stream is cut into chunks PushData hands out exactly its
\* frames, whole and in order, loses and repeats no byte, holds no complete frame
\* back when it returns and reaches none of its LOG_FATALs (FrameDecoder.cpp).
DecodesStream ==
    DecoderTypeOK /\ PacketsAreFrames /\ EveryByteAccounted /\ NoFrameWithheld
        /\ DecoderNeverFatal
=============================================================================
