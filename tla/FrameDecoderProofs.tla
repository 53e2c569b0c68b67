------------------------- MODULE FrameDecoderProofs -------------------------
(***************************************************************************)
(* The frame decoder stays in step with the stream: for every stream, of   *)
(* whatever header and body sizes, and every way to cut it into chunks.    *)
(***************************************************************************)
EXTENDS FrameDecoder, SequenceTheorems, TLAPS

\* What the fields say of the incomplete frame in the buffer: its header size is
\* known from the first byte on, its size once the header is complete, and it is
\* not complete.
Pending ==
    /\ size = 0 => frameSize = 0
    /\ size > 0 =>
        /\ headerSize = HeaderSize[start]
        /\ size < headerSize => frameSize = 0
        /\ size >= headerSize =>
              /\ frameSize = headerSize + BodySize[start]
              /\ size < frameSize

\* The inductive invariant.
IInv ==
    DecoderTypeOK /\ PacketsAreFrames /\ EveryByteAccounted /\ Pending /\ DecoderNeverFatal

\* Where the bytes of the current frame start
Begin == IF First THEN data ELSE start

\* The header of the current frame is read from where the frame begins, right
\* after the frames already delivered; the bytes of the chunk are counted once.
LEMMA HeaderFacts ==
    ASSUME IInv, length > 0
    PROVE  /\ Begin = Delivered /\ Begin \in 0 .. Total - 1
           /\ Header = HeaderSize[Begin] /\ Header \in 1 .. 4
           /\ BodySize[Begin] \in Nat \ {0}
           /\ Size2 \in Nat \ {0} /\ Length2 \in Nat
           /\ Delivered \in Nat
           /\ Delivered + Size2 + Length2 = data + length
           /\ Size2 < Header => Length2 = 0
           /\ Size2 > Header => Size2 = size /\ ~First
  <1>1. /\ data \in 0 .. Total /\ length \in 0 .. Total - data
        /\ size \in Nat /\ start \in Nat /\ headerSize \in 0 .. 4
        /\ data = Delivered + size
        /\ size > 0 => start = Delivered
        /\ size = 0 <=> headerSize = 0
        /\ size > 0 => headerSize = HeaderSize[start]
    BY DEF IInv, DecoderTypeOK, EveryByteAccounted, Pending
  <1>2. /\ Total \in Nat
        /\ \A p \in 0 .. Total - 1 : HeaderSize[p] \in 1 .. 4
        /\ \A p \in 0 .. Total - 1 : BodySize[p] \in Nat \ {0}
    BY FrameDecoderAssumption
  <1>3. Delivered \in Nat
    <2>1. CASE packets = <<>>
      BY <2>1 DEF Delivered
    <2>2. CASE packets # <<>>
      <3>1. packets \in Seq([start : Nat, size : Nat, header : 1 .. 4])
        BY DEF IInv, DecoderTypeOK
      <3>2. packets[Len(packets)] \in [start : Nat, size : Nat, header : 1 .. 4]
        <4>1. Len(packets) \in 1 .. Len(packets)
          BY <2>2, <3>1, EmptySeq, LenProperties
        <4> QED
          BY Zenon, <3>1, <4>1, ElementOfSeq
      <3> QED
        BY <2>2, <3>2 DEF Delivered
    <2> QED
      BY <2>1, <2>2
  <1>4. Begin = Delivered /\ Begin \in 0 .. Total - 1
    BY <1>1, <1>2, <1>3 DEF Begin, First
  <1>5. Header = HeaderSize[Begin]
    BY <1>1 DEF Begin, First, Header
  <1>6. Header \in 1 .. 4 /\ BodySize[Begin] \in Nat \ {0}
    BY <1>2, <1>4, <1>5
  <1>7. /\ Size1 \in Nat \ {0} /\ Length1 \in Nat
        /\ Delivered + Size1 + Length1 = data + length
        /\ First => Size1 = 1
        /\ ~First => Size1 = size
    BY <1>1, <1>3 DEF First, Size1, Length1
  <1>8. /\ HeaderBytes \in Nat /\ HeaderBytes <= Length1
        /\ Size1 < Header => HeaderBytes <= Header - Size1
        /\ Size1 >= Header => HeaderBytes = 0
        /\ Size1 + HeaderBytes < Header => HeaderBytes = Length1
    BY <1>6, <1>7 DEF HeaderBytes, Smaller
  <1>9. /\ Size2 \in Nat \ {0} /\ Length2 \in Nat
        /\ Delivered + Size2 + Length2 = data + length
        /\ Size2 < Header => Length2 = 0
        /\ Size2 > Header => Size2 = size /\ ~First
    BY <1>3, <1>6, <1>7, <1>8 DEF Size2, Length2
  <1> QED
    BY <1>3, <1>4, <1>5, <1>6, <1>9

\* Once the header is complete the size of the frame is the one the stream
\* says, and there is a byte of the body to come.
LEMMA FrameFacts ==
    ASSUME IInv, length > 0, Size2 >= Header
    PROVE  /\ FrameSize = Header + BodySize[Begin]
           /\ Size2 < FrameSize
           /\ FrameSize \in Nat
           /\ BodyBytes \in 0 .. Length2
           /\ Size2 + BodyBytes <= FrameSize
           /\ Size2 + BodyBytes # FrameSize => BodyBytes = Length2
  <1>1. /\ Header = HeaderSize[Begin] /\ Header \in 1 .. 4
        /\ BodySize[Begin] \in Nat \ {0}
        /\ Size2 \in Nat \ {0} /\ Length2 \in Nat
        /\ Size2 > Header => Size2 = size /\ ~First
    BY HeaderFacts
  <1>2. FrameSize = Header + BodySize[Begin] /\ Size2 < FrameSize
    <2>1. CASE Size2 = Header
      BY <1>1, <2>1 DEF FrameSize, Begin
    <2>2. CASE Size2 > Header
      <3>1. Size2 = size /\ ~First /\ Begin = start /\ Header = headerSize
        BY <1>1, <2>2 DEF Begin, Header
      <3>2. FrameSize = frameSize
        BY <1>1, <2>2 DEF FrameSize
      <3> QED
        BY <1>1, <2>2, <3>1, <3>2 DEF IInv, Pending
    <2> QED
      BY <1>1, <2>1, <2>2
  <1> QED
    BY <1>1, <1>2 DEF BodyBytes, Smaller

-----------------------------------------------------------------------------
\* Every reachable state satisfies the inductive invariant.
THEOREM Invariance == DecoderSpec => []IInv
  <1>1. DecoderInit => IInv
    <2> SUFFICES ASSUME DecoderInit PROVE IInv
      OBVIOUS
    <2>1. packets = <<>> /\ Len(packets) = 0
          /\ packets \in Seq([start : Nat, size : Nat, header : 1 .. 4])
      BY DEF DecoderInit
    <2>2. DecoderTypeOK
      <3>1. /\ data = 0 /\ length = 0 /\ start = 0 /\ size = 0
            /\ headerSize = 0 /\ frameSize = 0 /\ fatal = FALSE
        BY DEF DecoderInit
      <3>2. data \in 0 .. Total /\ length \in 0 .. Total - data
        BY <3>1, FrameDecoderAssumption
      <3>3. /\ start \in Nat /\ size \in Nat /\ frameSize \in Nat
            /\ headerSize \in 0 .. 4
        BY <3>1
      <3>4. fatal \in BOOLEAN
        BY Zenon, <3>1
      <3> QED
        BY Zenon, <2>1, <3>2, <3>3, <3>4 DEF DecoderTypeOK
    <2>3. PacketsAreFrames
      BY <2>1 DEF PacketsAreFrames
    <2>4. EveryByteAccounted /\ Pending /\ DecoderNeverFatal
      BY <2>1 DEF DecoderInit, EveryByteAccounted, Delivered, Pending, DecoderNeverFatal
    <2> QED
      BY <2>2, <2>3, <2>4 DEF IInv
  <1>2. IInv /\ [DecoderNext]_decoderVars => IInv'
    <2> SUFFICES ASSUME IInv, [DecoderNext]_decoderVars PROVE IInv'
      OBVIOUS
    <2>1. ASSUME NEW n \in 1 .. Total - data, PushData(n) PROVE IInv'
      <3>1. /\ length' = n
            /\ data' = data /\ start' = start /\ size' = size
            /\ headerSize' = headerSize /\ frameSize' = frameSize
            /\ packets' = packets /\ fatal' = fatal
        BY <2>1 DEF PushData
      <3>2. DecoderTypeOK'
        BY <3>1, FrameDecoderAssumption DEF IInv, DecoderTypeOK
      <3>3. PacketsAreFrames'
        BY <3>1 DEF IInv, PacketsAreFrames
      <3>4. EveryByteAccounted' /\ Pending' /\ DecoderNeverFatal'
        BY <3>1 DEF IInv, EveryByteAccounted, Delivered, Pending, DecoderNeverFatal
      <3> QED
        BY <3>2, <3>3, <3>4 DEF IInv
    <2>2. ASSUME Iteration, HeaderIncomplete PROVE IInv'
      <3>1. length > 0 /\ start' = Begin /\ Size2 < Header
        BY <2>2 DEF Iteration, HeaderIncomplete, Begin
      <3>2. /\ Begin = Delivered /\ Begin \in 0 .. Total - 1
            /\ Header = HeaderSize[Begin] /\ Header \in 1 .. 4
            /\ Size2 \in Nat \ {0} /\ Delivered \in Nat
            /\ Length2 = 0 /\ Delivered + Size2 = data + length
        <4>1. Length2 = 0
          BY <3>1, HeaderFacts
        <4> QED
          BY <3>1, <4>1, HeaderFacts
      <3>3. /\ size' = Size2 /\ length' = 0 /\ data' = data + length
            /\ frameSize' = frameSize /\ packets' = packets
            /\ fatal' = fatal
            /\ headerSize' = Header
        BY <2>2, <3>2 DEF Iteration, HeaderIncomplete, IInv, DecoderTypeOK
      <3>4. frameSize = 0
        <4>1. First => size = 0
          BY DEF First, IInv, EveryByteAccounted
        <4>2. ~First => size > 0 /\ size < headerSize
          BY <3>1 DEF First, Header, Size1, Size2, HeaderBytes, Smaller, Length1,
             IInv, EveryByteAccounted, DecoderTypeOK
        <4> QED
          BY <4>1, <4>2 DEF IInv, Pending
      <3>5. DecoderTypeOK'
        BY <3>1, <3>2, <3>3, FrameDecoderAssumption DEF IInv, DecoderTypeOK
      <3>6. PacketsAreFrames'
        BY <3>3 DEF IInv, PacketsAreFrames
      <3>7. Delivered' = Delivered
        BY <3>3 DEF Delivered
      <3>8. EveryByteAccounted' /\ Pending' /\ DecoderNeverFatal'
        BY <3>1, <3>2, <3>3, <3>4, <3>7
        DEF IInv, EveryByteAccounted, Pending, DecoderNeverFatal
      <3> QED
        BY <3>5, <3>6, <3>8 DEF IInv
    <2>3. ASSUME Iteration, HeaderComplete PROVE IInv'
      <3>1. length > 0 /\ start' = Begin /\ Size2 >= Header
        BY <2>3 DEF Iteration, HeaderComplete, Begin
      <3>2. /\ Begin = Delivered /\ Begin \in 0 .. Total - 1
            /\ Header = HeaderSize[Begin] /\ Header \in 1 .. 4
            /\ BodySize[Begin] \in Nat \ {0}
            /\ Size2 \in Nat \ {0} /\ Length2 \in Nat /\ Delivered \in Nat
            /\ Delivered + Size2 + Length2 = data + length
        BY <3>1, HeaderFacts
      <3>3. /\ FrameSize = Header + BodySize[Begin]
            /\ Size2 < FrameSize
            /\ FrameSize \in Nat
            /\ BodyBytes \in 0 .. Length2
            /\ Size2 + BodyBytes <= FrameSize
            /\ Size2 + BodyBytes # FrameSize => BodyBytes = Length2
        BY <3>1, FrameFacts
      <3>4. fatal' = fatal
        BY SMTT(30), <2>3, <3>2, <3>3 DEF HeaderComplete, IInv, DecoderTypeOK
      <3>5. CASE Size2 + BodyBytes = FrameSize
        <4> DEFINE p == [start |-> Begin, size |-> FrameSize, header |-> Header]
        <4>1. /\ packets' = Append(packets, p)
              /\ size' = 0 /\ frameSize' = 0 /\ headerSize' = 0
              /\ length' = Length2 - BodyBytes
              /\ data' = data + (length - length')
          BY <2>3, <3>1, <3>5 DEF HeaderComplete, Iteration
        <4>2. /\ packets \in Seq([start : Nat, size : Nat, header : 1 .. 4])
              /\ p \in [start : Nat, size : Nat, header : 1 .. 4]
          BY <3>2, <3>3, FrameDecoderAssumption DEF IInv, DecoderTypeOK
        <4>3. p.start = Begin /\ p.size = FrameSize /\ p.header = Header
          OBVIOUS
        <4> HIDE DEF p
        <4>4. /\ packets' \in Seq([start : Nat, size : Nat, header : 1 .. 4])
              /\ Len(packets') = Len(packets) + 1 /\ Len(packets) \in Nat
              /\ packets'[Len(packets) + 1] = p
              /\ \A k \in 1 .. Len(packets) : packets'[k] = packets[k]
          BY <4>1, <4>2
        <4>5. Delivered' = Delivered + FrameSize
          <5>1. packets' # <<>>
            BY <4>4
          <5>2. Delivered' = p.start + p.size
            BY <4>4, <5>1 DEF Delivered
          <5> QED
            BY <3>2, <4>3, <5>2
        <4>6. data' = Delivered' /\ data' \in 0 .. Total
              /\ length' \in 0 .. Total - data'
          <5>1. /\ data \in 0 .. Total /\ length \in 0 .. Total - data
                /\ Total \in Nat
            BY FrameDecoderAssumption DEF IInv, DecoderTypeOK
          <5>2. length' \in Nat /\ length' = Length2 - BodyBytes
            BY <3>2, <3>3, <4>1
          <5>3. data' + length' = data + length /\ data' \in Nat
            BY <3>2, <3>3, <4>1, <5>1, <5>2
          <5>4. data' = Delivered + FrameSize
            <6>1. /\ Delivered \in Nat /\ Size2 \in Nat /\ Length2 \in Nat
                  /\ BodyBytes \in Nat /\ data \in Nat /\ length \in Nat
              BY <3>2, <3>3, <5>1
            <6>2. data' + (Length2 - BodyBytes) = Delivered + Size2 + Length2
              BY <3>2, <5>2, <5>3
            <6>3. data' = Delivered + (Size2 + BodyBytes)
              <7>1. \A d \in Nat :
                       d + (Length2 - BodyBytes) = Delivered + Size2 + Length2
                         => d = Delivered + (Size2 + BodyBytes)
                BY <6>1
              <7> QED
                BY Zenon, <5>3, <6>2, <7>1
            <6> QED
              BY <3>5, <6>3
          <5> QED
            BY <4>5, <5>1, <5>2, <5>3, <5>4
        <4>7. DecoderTypeOK'
          BY <3>1, <3>2, <3>4, <4>1, <4>4, <4>6, FrameDecoderAssumption
          DEF IInv, DecoderTypeOK
        <4>8. PacketsAreFrames'
          <5> SUFFICES ASSUME NEW k \in 1 .. Len(packets')
                       PROVE  /\ packets'[k].start =
                                   IF k = 1 THEN 0
                                   ELSE packets'[k - 1].start + packets'[k - 1].size
                              /\ packets'[k].header = HeaderSize[packets'[k].start]
                              /\ packets'[k].size = packets'[k].header
                                                      + BodySize[packets'[k].start]
            BY DEF PacketsAreFrames
          <5>1. CASE k <= Len(packets)
            <6>1. k \in 1 .. Len(packets) /\ (k # 1 => k - 1 \in 1 .. Len(packets))
              BY <4>4, <5>1
            <6>2. /\ packets'[k] = packets[k]
                  /\ k # 1 => packets'[k - 1] = packets[k - 1]
              BY Zenon, <4>4, <6>1
            <6> QED
              BY <6>1, <6>2 DEF IInv, PacketsAreFrames
          <5>2. CASE k = Len(packets) + 1
            <6>1. packets'[k] = p
              BY <4>4, <5>2
            <6>2. CASE k = 1
              <7>1. packets = <<>>
                BY <4>2, <4>4, <5>2, <6>2
              <7>2. Begin = 0
                BY <3>2, <7>1 DEF Delivered
              <7> QED
                BY <3>2, <3>3, <4>3, <6>1, <6>2, <7>2
            <6>3. CASE k # 1
              <7>1. packets'[k - 1] = packets[Len(packets)] /\ packets # <<>>
                <8>1. k - 1 = Len(packets) /\ k - 1 \in 1 .. Len(packets)
                  BY <4>4, <5>2, <6>3
                <8>2. packets # <<>>
                  BY <4>2, <8>1, EmptySeq
                <8> QED
                  BY Zenon, <4>4, <8>1, <8>2
              <7>2. Begin = packets'[k - 1].start + packets'[k - 1].size
                BY <3>2, <7>1 DEF Delivered
              <7> QED
                BY SMTT(30), <3>2, <3>3, <4>3, <6>1, <6>3, <7>2
            <6> QED
              BY <6>2, <6>3
          <5> QED
            BY <4>4, <5>1, <5>2
        <4>9. EveryByteAccounted' /\ Pending' /\ DecoderNeverFatal'
          BY <3>2, <3>3, <3>4, <4>1, <4>5, <4>6
          DEF IInv, EveryByteAccounted, Pending, DecoderNeverFatal
        <4> QED
          BY <4>7, <4>8, <4>9 DEF IInv
      <3>6. CASE Size2 + BodyBytes # FrameSize
        <4>1. /\ packets' = packets
              /\ size' = Size2 + BodyBytes /\ frameSize' = FrameSize
              /\ length' = 0 /\ data' = data + length
          BY <2>3, <3>6 DEF HeaderComplete
        <4>2. headerSize' = Header
          BY <2>3, <3>2, <3>3, <4>1 DEF Iteration
        <4>3. /\ size' \in Nat \ {0} /\ data' = Delivered + size'
              /\ size' >= Header /\ size' < FrameSize
          BY <3>1, <3>2, <3>3, <3>6, <4>1
        <4>4. Delivered' = Delivered
          BY <4>1 DEF Delivered
        <4>5. DecoderTypeOK'
          BY <3>1, <3>2, <3>3, <3>4, <4>1, <4>2, <4>3, FrameDecoderAssumption
          DEF IInv, DecoderTypeOK
        <4>6. PacketsAreFrames'
          BY <4>1 DEF IInv, PacketsAreFrames
        <4>7. EveryByteAccounted' /\ Pending' /\ DecoderNeverFatal'
          BY <3>1, <3>2, <3>3, <3>4, <4>1, <4>2, <4>3, <4>4
          DEF IInv, EveryByteAccounted, Pending, DecoderNeverFatal
        <4> QED
          BY <4>5, <4>6, <4>7 DEF IInv
      <3> QED
        BY <3>5, <3>6
    <2>4. CASE UNCHANGED decoderVars
      <3>1. /\ length' = length
            /\ data' = data /\ start' = start /\ size' = size
            /\ headerSize' = headerSize /\ frameSize' = frameSize
            /\ packets' = packets /\ fatal' = fatal
        BY <2>4 DEF decoderVars
      <3> QED
        BY <3>1 DEF IInv, DecoderTypeOK, PacketsAreFrames, EveryByteAccounted, Delivered,
           Pending, DecoderNeverFatal
    <2> QED
      BY <2>1, <2>2, <2>3, <2>4 DEF DecoderNext, Iteration
  <1> QED
    BY <1>1, <1>2, PTL DEF DecoderSpec

\* PushData delivers exactly the frames of the stream, whole and in order, loses
\* and repeats no byte, holds no complete frame back and never reaches one of its
\* LOG_FATALs, for every stream and every way it is cut into chunks.
THEOREM DecoderCorrect == DecoderSpec => []DecodesStream
  <1>1. IInv => NoFrameWithheld
    <2> SUFFICES ASSUME IInv, length = 0, size > 0
                 PROVE  size < HeaderSize[start] + BodySize[start]
      BY DEF NoFrameWithheld
    <2>1. /\ start \in 0 .. Total - 1 /\ size \in Nat
          /\ headerSize = HeaderSize[start]
          /\ size >= headerSize => size < headerSize + BodySize[start]
      <3>1. /\ data = Delivered + size /\ start = Delivered /\ data \in 0 .. Total
            /\ start \in Nat /\ size \in Nat
        BY DEF IInv, EveryByteAccounted, DecoderTypeOK
      <3> QED
        BY <3>1, FrameDecoderAssumption DEF IInv, Pending
    <2>2. HeaderSize[start] \in 1 .. 4 /\ BodySize[start] \in Nat \ {0}
      BY <2>1, FrameDecoderAssumption
    <2> QED
      BY <2>1, <2>2
  <1>2. IInv => DecodesStream
    BY <1>1 DEF IInv, DecodesStream
  <1> QED
    BY <1>2, Invariance, PTL
=============================================================================
