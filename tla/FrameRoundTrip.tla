--------------------------- MODULE FrameRoundTrip ---------------------------
(***************************************************************************)
(* A frame is encoded into a buffer, by C++ or by Python code; the region  *)
(* before the delimiter is damaged in at most MaxDamage places, or not at  *)
(* all, and decoded into a Frame object that holds an earlier frame.       *)
(***************************************************************************)
EXTENDS Framing, SequencesExt

CONSTANTS
    Types, PayloadBytes,   \* the frames that are sent
    LongPayloads,          \* payloads that only Python can pass
    OutCaps,               \* the capacities of the output buffer
    MaxDamage,             \* bound on the damaged places
    Earlier                \* the frame the receiver holds before

ASSUME FrameRoundTripAssumption ==
    /\ Types \subseteq Byte /\ PayloadBytes \subseteq Byte
    /\ LongPayloads \subseteq Seq(Byte)
    /\ OutCaps \subseteq Nat
    /\ MaxDamage \in Nat

VARIABLES pc, sent, outCap, encoded, region, damage, decoded

vars == <<pc, sent, outCap, encoded, region, damage, decoded>>

\* Up to two bytes more than a frame can carry, or some of any length.
Sendable == [type : Types, payload : SeqOf(PayloadBytes, MaxPayload + 2) \cup LongPayloads]

Init ==
    /\ pc = "encode"
    /\ sent \in Sendable
    /\ outCap \in OutCaps
    /\ encoded = NoPacket("Ok")
    /\ region = <<>>
    /\ damage = 0
    /\ decoded = [status |-> "Ok", frame |-> Earlier]

\* The length that C++ code passes is a byte.
Encode ==
    /\ pc = "encode"
    /\ Len(sent.payload) <= MaxByte
    /\ encoded' = EncodeFrame(sent, outCap)
    /\ region' = IF encoded'.status = "Ok" THEN Front(encoded'.packet) ELSE <<>>
    /\ pc' = IF encoded'.status = "Ok" THEN "wire" ELSE "done"
    /\ UNCHANGED <<sent, outCap, damage, decoded>>

PyEncode ==
    /\ pc = "encode"
    /\ outCap' = MaxRaw + 2
    /\ encoded' = PyEncodeFrame(sent)
    /\ region' = IF encoded'.status = "Ok" THEN Front(encoded'.packet) ELSE <<>>
    /\ pc' = IF encoded'.status = "Ok" THEN "wire" ELSE "done"
    /\ UNCHANGED <<sent, damage, decoded>>

\* A byte changes, is lost, or is doubled; a region never holds a delimiter.
Damage ==
    /\ pc = "wire"
    /\ damage < MaxDamage
    /\ damage' = damage + 1
    /\ \E k \in 1 .. Len(region) :
          \/ \E b \in Byte \ {Delimiter, region[k]} : region' = [region EXCEPT ![k] = b]
          \/ region' = RemoveAt(region, k)
          \/ region' = InsertAt(region, k, region[k])
    /\ UNCHANGED <<pc, sent, outCap, encoded, decoded>>

Decode ==
    /\ pc = "wire"
    /\ decoded' = DecodeRegion(region, decoded.frame)
    /\ pc' = "done"
    /\ UNCHANGED <<sent, outCap, encoded, region, damage>>

Next == Encode \/ PyEncode \/ Damage \/ Decode

Spec == Init /\ [][Next]_vars

-----------------------------------------------------------------------------
Arrived == pc = "done" /\ encoded.status = "Ok"

(* Every frame that fits the protocol encodes into kMaxPacket bytes, with  *)
(* exactly one zero, at the end; only the payload's length or the buffer's *)
(* make it fail, and a buffer that is too small is never written past.     *)
PacketWellFormed ==
    pc # "encode" =>
        LET length == NarrowLength(Len(sent.payload))
            packet == encoded.packet
        IN  /\ length > MaxPayload <=> encoded.status = "PayloadTooLarge"
            /\ length <= MaxPayload /\ outCap >= MaxRaw + 2 => encoded.status = "Ok"
            /\ encoded.status = "Ok" =>
                  /\ Len(packet) <= outCap
                  /\ Len(packet) = HeaderSize + length + CrcSize + 2
                  /\ \A k \in 1 .. Len(packet) : packet[k] = Delimiter <=> k = Len(packet)

(* An undamaged region decodes to the frame that was sent; only of a       *)
(* payload of 256 bytes or more, which Python lets pass, the first bytes   *)
(* arrive, as many as its size modulo 256.                                 *)
RoundTrip ==
    Arrived /\ damage = 0 =>
        decoded = [status |-> "Ok",
                   frame |-> IF Len(sent.payload) <= MaxByte THEN sent ELSE Narrowed(sent)]

(* Damaged or not, a region (of a size the reader holds) is accepted only  *)
(* if it is, byte for byte, what encode_frame makes of the frame that is   *)
(* returned: nothing of the region is ignored, and no frame has two        *)
(* encodings.                                                              *)
AcceptsOnlyEncodings ==
    Arrived /\ decoded.status = "Ok" /\ Len(region) <= MaxRaw + 1 =>
        EncodeFrame(decoded.frame, MaxRaw + 2).packet = Append(region, Delimiter)

=============================================================================
