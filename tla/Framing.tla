------------------------------ MODULE Framing ------------------------------
(***************************************************************************)
(* encode_frame and decode_region (src/frame.cpp): the raw block           *)
(* TYPE | LENGTH | PAYLOAD | CRC16, its COBS region and the trailing       *)
(* delimiter.  COBS and the CRC are constant operators here, so that what  *)
(* is proved about framing holds for any byte stuffing and any checksum.   *)
(*                                                                         *)
(* A buffer is a function on 1 .. n; what is beyond the n bytes a callee   *)
(* reported is not in the model, so it cannot be read by mistake.          *)
(***************************************************************************)
EXTENDS Integers, Sequences

CONSTANTS
    MaxByte,            \* 255
    MaxPayload,         \* kMaxPayload, 250
    CobsEncode(_),      \* cobs_encode with enough room
    CobsDecode(_),      \* cobs_decode with enough room, a record [ok, block]
    Crc(_)              \* crc16_ccitt

Byte == 0 .. MaxByte
HeaderSize == 2
CrcSize == 2
Delimiter == 0
MaxRaw == HeaderSize + MaxPayload + CrcSize

FrameStatus == {"Ok", "PayloadTooLarge", "BufferTooSmall", "Truncated",
                "LengthMismatch", "CrcMismatch", "CobsError"}

\* A payload is a sequence of bytes; its length travels in one byte.
Payload == UNION {[1 .. n -> Byte] : n \in 0 .. MaxPayload}
Frame == [type : Byte, payload : Payload]

ASSUME FramingAssumption ==
    /\ MaxByte \in Nat /\ MaxPayload \in Nat
    /\ MaxPayload <= MaxByte

\* The number of values of a checksum of CrcSize bytes.
CrcModulus == (MaxByte + 1) * (MaxByte + 1)

CrcLow(c) == c % (MaxByte + 1)
CrcHigh(c) == (c \div (MaxByte + 1)) % (MaxByte + 1)
FromBytes(low, high) == low + high * (MaxByte + 1)

\* The first n bytes of a buffer.
FirstBytes(buffer, n) == [k \in 1 .. n |-> buffer[k]]

\* TYPE, LENGTH and PAYLOAD, the bytes the CRC covers.
Covered(frame) ==
    [k \in 1 .. HeaderSize + Len(frame.payload) |->
        IF k = 1 THEN frame.type
        ELSE IF k = 2 THEN Len(frame.payload)
        ELSE frame.payload[k - HeaderSize]]

\* Mutant: the CRC goes out high byte first.
RawBlockBigEndian(frame) ==
    LET crc == Crc(Covered(frame))
        n == HeaderSize + Len(frame.payload)
    IN  [k \in 1 .. n + CrcSize |-> IF k <= n THEN Covered(frame)[k]
             ELSE IF k = n + 1 THEN CrcHigh(crc) ELSE CrcLow(crc)]

RawBlock(frame) ==
    LET crc == Crc(Covered(frame))
        n == HeaderSize + Len(frame.payload)
    IN  [k \in 1 .. n + CrcSize |->
            IF k <= n THEN Covered(frame)[k]
            ELSE IF k = n + 1 THEN CrcLow(crc) ELSE CrcHigh(crc)]

ASSUME CrcAssumption ==
    \A f \in Frame : Crc(Covered(f)) \in 0 .. CrcModulus - 1

ASSUME CobsAssumption ==
    \A f \in Frame :
        /\ CobsEncode(RawBlock(f)) \in Seq(Byte)
        /\ CobsDecode(CobsEncode(RawBlock(f))) = [ok |-> TRUE, block |-> RawBlock(f)]

NoPacket(status) == [status |-> status, packet |-> <<>>]

\* Mutant: the place of the delimiter is not reserved.
EncodeFrameNoReserve(frame, outCap) ==
    LET region == CobsEncode(RawBlock(frame))
    IN  IF Len(frame.payload) > MaxPayload THEN NoPacket("PayloadTooLarge")
        ELSE IF outCap < 2 \/ Len(region) > outCap THEN NoPacket("BufferTooSmall")
        ELSE [status |-> "Ok", packet |-> Append(region, Delimiter)]

\* encode_frame(type, payload, length, out, outCap)
EncodeFrame(frame, outCap) ==
    LET region == CobsEncode(RawBlock(frame))
    IN  IF Len(frame.payload) > MaxPayload THEN NoPacket("PayloadTooLarge")
        ELSE IF outCap < 2 \/ Len(region) > outCap - 1 THEN NoPacket("BufferTooSmall")
        ELSE [status |-> "Ok", packet |-> Append(region, Delimiter)]

\* A payload's size cast to the one byte that encode_frame takes.
NarrowLength(n) == n % (MaxByte + 1)
Narrowed(frame) ==
    [type |-> frame.type,
     payload |-> FirstBytes(frame.payload, NarrowLength(Len(frame.payload)))]

\* encode_frame of the Python modules, into a buffer of kMaxPacket bytes.
PyEncodeFrame(frame) == EncodeFrame(Narrowed(frame), MaxRaw + 2)

LengthField(raw) == raw[2]
RxCrc(raw) == FromBytes(raw[Len(raw) - 1], raw[Len(raw)])

\* Mutant: the LENGTH field is only bounded, not compared with the block.
BlockStatusLax(raw) ==
    IF Len(raw) < HeaderSize + CrcSize THEN "Truncated"
    ELSE IF LengthField(raw) > MaxPayload \/ Len(raw) < HeaderSize + LengthField(raw) + CrcSize
         THEN "LengthMismatch"
    ELSE IF RxCrc(raw) # Crc(FirstBytes(raw, Len(raw) - CrcSize)) THEN "CrcMismatch"
    ELSE "Ok"

\* The checks of decode_region on a decoded block, in their order.
BlockStatus(raw) ==
    IF Len(raw) < HeaderSize + CrcSize THEN "Truncated"
    ELSE IF LengthField(raw) > MaxPayload THEN "LengthMismatch"
    ELSE IF Len(raw) # HeaderSize + LengthField(raw) + CrcSize THEN "LengthMismatch"
    ELSE IF RxCrc(raw) # Crc(FirstBytes(raw, Len(raw) - CrcSize)) THEN "CrcMismatch"
    ELSE "Ok"

BlockFrame(raw) ==
    [type |-> raw[1],
     payload |-> [k \in 1 .. LengthField(raw) |-> raw[HeaderSize + k]]]

\* decode_region(region, regionLen, out): the status and the new value of out.
DecodeRegion(region, out) ==
    LET decoded == CobsDecode(region)
        raw == decoded.block
        status == IF ~decoded.ok \/ Len(raw) > MaxRaw THEN "CobsError"
                  ELSE BlockStatus(raw)
    IN  [status |-> status, frame |-> IF status = "Ok" THEN BlockFrame(raw) ELSE out]

=============================================================================
