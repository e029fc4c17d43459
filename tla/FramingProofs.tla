--------------------------- MODULE FramingProofs ---------------------------
(***************************************************************************)
(* encode_frame and decode_region fit together for frames of every type    *)
(* and payload, for any checksum of two bytes and any byte stuffing whose  *)
(* decoder undoes its encoder.  With the byte stuffing of the code, every  *)
(* packet has the size and the one delimiter it should have, and every     *)
(* region that is accepted, however it was damaged, is an encoding.  Of    *)
(* the code's checksum: its register is linear, so that what it detects    *)
(* depends on the error alone, and no burst passes that is of 12 bits, or  *)
(* of 16 on one side of the boundary between the message and the field.    *)
(***************************************************************************)
EXTENDS FrameRoundTrip, Crc16, TLAPS

(* A number below M * M is put together again from its two digits.         *)
LEMMA TwoDigits ==
    ASSUME NEW M \in Nat \ {0}, NEW c \in 0 .. M * M - 1
    PROVE  (c % M) + ((c \div M) % M) * M = c
<1> DEFINE q == c \div M
           r == c % M
<1>1. q \in Nat /\ r \in 0 .. M - 1 /\ c = M * q + r
    OBVIOUS
<1>2. q < M
    <2> HIDE DEF q, r
    <2> SUFFICES ASSUME q >= M PROVE FALSE
        BY <1>1
    <2>1. M * q >= M * M
        BY <1>1
    <2> QED BY <1>1, <2>1
<1>3. q % M = q
    <2> HIDE DEF q
    <2> QED BY <1>1, <1>2
<1> HIDE DEF q, r
<1>4. r + q * M = c
    BY <1>1
<1> QED BY <1>3, <1>4 DEF q, r

(* The payload of a frame is a sequence of at most MaxPayload bytes.       *)
LEMMA PayloadLength ==
    ASSUME NEW f \in Frame
    PROVE  /\ f.type \in Byte
           /\ Len(f.payload) \in 0 .. MaxPayload
           /\ f.payload \in [1 .. Len(f.payload) -> Byte]
<1>1. f.type \in Byte /\ f.payload \in Payload
    BY DEF Frame
<1>2. PICK n \in 0 .. MaxPayload : f.payload \in [1 .. n -> Byte]
    BY <1>1 DEF Payload
<1>3. n \in Nat
    BY FramingAssumption, <1>2
<1>4. Len(f.payload) = n
    BY <1>2, <1>3
<1> QED BY <1>1, <1>2, <1>4

(* A raw block has the bytes it covers, then the checksum's two.           *)
LEMMA RawBlockShape ==
    ASSUME NEW f \in Frame
    PROVE  LET n == HeaderSize + Len(f.payload)
               raw == RawBlock(f)
           IN  /\ Len(raw) = n + CrcSize
               /\ \A k \in 1 .. n : raw[k] = Covered(f)[k]
               /\ raw[n + 1] = CrcLow(Crc(Covered(f)))
               /\ raw[n + 2] = CrcHigh(Crc(Covered(f)))
<1> DEFINE n == HeaderSize + Len(f.payload)
<1>1. n \in Nat
    BY PayloadLength, FramingAssumption DEF HeaderSize
<1> HIDE DEF n
<1>2. RawBlock(f) = [k \in 1 .. n + CrcSize |->
            IF k <= n THEN Covered(f)[k]
            ELSE IF k = n + 1 THEN CrcLow(Crc(Covered(f))) ELSE CrcHigh(Crc(Covered(f)))]
    BY DEF RawBlock, n
<1>3. Len(RawBlock(f)) = n + CrcSize
    BY <1>1, <1>2 DEF CrcSize
<1>4. \A k \in 1 .. n : RawBlock(f)[k] = Covered(f)[k]
    BY <1>1, <1>2 DEF CrcSize
<1>5. RawBlock(f)[n + 1] = CrcLow(Crc(Covered(f)))
    BY <1>1, <1>2 DEF CrcSize
<1>6. RawBlock(f)[n + 2] = CrcHigh(Crc(Covered(f)))
    BY <1>1, <1>2 DEF CrcSize
<1> QED BY <1>3, <1>4, <1>5, <1>6 DEF n

(* The checks of decode_region pass on the raw block of every frame, and   *)
(* the frame is read back from it.                                         *)
LEMMA BlockRoundTrip ==
    ASSUME NEW f \in Frame
    PROVE  /\ Len(RawBlock(f)) <= MaxRaw
           /\ BlockStatus(RawBlock(f)) = "Ok"
           /\ BlockFrame(RawBlock(f)) = f
<1> DEFINE raw == RawBlock(f)
           m == Len(f.payload)
           n == HeaderSize + m
           crc == Crc(Covered(f))
<1>1. /\ m \in 0 .. MaxPayload /\ MaxPayload \in Nat /\ f.type \in Byte
      /\ f.payload \in [1 .. m -> Byte]
    BY PayloadLength, FramingAssumption
<1>2. /\ Len(raw) = n + CrcSize
      /\ \A k \in 1 .. n : raw[k] = Covered(f)[k]
      /\ raw[n + 1] = CrcLow(crc)
      /\ raw[n + 2] = CrcHigh(crc)
    BY RawBlockShape
<1>3. Covered(f) = [k \in 1 .. n |-> IF k = 1 THEN f.type
                                     ELSE IF k = 2 THEN m ELSE f.payload[k - HeaderSize]]
    BY DEF Covered
<1> HIDE DEF raw, m, crc
<1>4. raw[1] = f.type /\ raw[2] = m
    BY <1>1, <1>2, <1>3 DEF HeaderSize
<1>5. \A k \in 1 .. m : raw[HeaderSize + k] = f.payload[k]
    BY <1>1, <1>2, <1>3 DEF HeaderSize
<1>6. RxCrc(raw) = crc
    <2>1. crc \in 0 .. (MaxByte + 1) * (MaxByte + 1) - 1
        BY CrcAssumption DEF CrcModulus, crc
    <2>2. MaxByte + 1 \in Nat \ {0}
        BY FramingAssumption
    <2>3. CrcLow(crc) + CrcHigh(crc) * (MaxByte + 1) = crc
        BY <2>1, <2>2, TwoDigits DEF CrcLow, CrcHigh
    <2>4. Len(raw) - 1 = n + 1 /\ Len(raw) = n + 2
        BY <1>1, <1>2 DEF CrcSize, HeaderSize
    <2> QED BY <1>2, <2>3, <2>4 DEF RxCrc, FromBytes
<1>7. FirstBytes(raw, Len(raw) - CrcSize) = Covered(f)
    <2>1. Len(raw) - CrcSize = n
        BY <1>1, <1>2 DEF CrcSize, HeaderSize
    <2>2. FirstBytes(raw, n) = [k \in 1 .. n |-> raw[k]]
        BY DEF FirstBytes
    <2>3. [k \in 1 .. n |-> raw[k]] = [k \in 1 .. n |-> Covered(f)[k]]
        BY <1>2
    <2>4. [k \in 1 .. n |-> Covered(f)[k]] = Covered(f)
        BY <1>3
    <2> QED BY <2>1, <2>2, <2>3, <2>4
<1>8. Len(raw) <= MaxRaw /\ Len(raw) >= HeaderSize + CrcSize
    BY <1>1, <1>2 DEF HeaderSize, CrcSize, MaxRaw
<1>9. BlockStatus(raw) = "Ok"
    <2>1. LengthField(raw) = m
        BY <1>4 DEF LengthField
    <2>2. ~(m > MaxPayload)
        BY <1>1
    <2>3. Crc(FirstBytes(raw, Len(raw) - CrcSize)) = crc
        BY <1>7 DEF crc
    <2>4. ~(Len(raw) < HeaderSize + CrcSize) /\ Len(raw) = HeaderSize + m + CrcSize
        BY <1>1, <1>2, <1>8 DEF HeaderSize, CrcSize
    <2> QED BY <1>6, <2>1, <2>2, <2>3, <2>4 DEF BlockStatus
<1>10. BlockFrame(raw) = f
    <2>1. BlockFrame(raw) = [type |-> f.type, payload |-> [k \in 1 .. m |-> raw[HeaderSize + k]]]
        BY <1>4 DEF BlockFrame, LengthField
    <2>2. [k \in 1 .. m |-> raw[HeaderSize + k]] = [k \in 1 .. m |-> f.payload[k]]
        BY <1>5
    <2>3. [k \in 1 .. m |-> f.payload[k]] = f.payload
        BY <1>1
    <2>4. f = [type |-> f.type, payload |-> f.payload]
        BY DEF Frame
    <2> QED BY <2>1, <2>2, <2>3, <2>4
<1> QED BY <1>8, <1>9, <1>10 DEF raw

(* What encode_frame puts before the delimiter decodes to the frame that   *)
(* was encoded, whatever the caller's Frame held.                          *)
THEOREM DecodeUndoesEncode ==
    ASSUME NEW f \in Frame, NEW out
    PROVE  DecodeRegion(CobsEncode(RawBlock(f)), out) = [status |-> "Ok", frame |-> f]
<1>1. CobsDecode(CobsEncode(RawBlock(f))) = [ok |-> TRUE, block |-> RawBlock(f)]
    BY CobsAssumption
<1>2. Len(RawBlock(f)) <= MaxRaw /\ BlockStatus(RawBlock(f)) = "Ok" /\ BlockFrame(RawBlock(f)) = f
    BY BlockRoundTrip
<1>3. ~(Len(RawBlock(f)) > MaxRaw)
    BY <1>2, RawBlockShape, PayloadLength, FramingAssumption DEF MaxRaw, HeaderSize, CrcSize
<1> QED BY <1>1, <1>2, <1>3 DEF DecodeRegion

-----------------------------------------------------------------------------
\* What a region is before it is damaged, and what it decodes to.
IInv ==
    /\ pc \in {"encode", "wire", "done"}
    /\ damage \in Nat
    /\ sent \in Sendable
    /\ encoded.status = "Ok" /\ pc # "encode" => Narrowed(sent) \in Frame
    /\ pc = "wire" => encoded.status = "Ok"
    /\ pc = "wire" /\ damage = 0 => region = CobsEncode(RawBlock(Narrowed(sent)))
    /\ RoundTrip

(* What is sent is a sequence of bytes of some length.                     *)
LEMMA SentShape ==
    ASSUME sent \in Sendable
    PROVE  /\ sent = [type |-> sent.type, payload |-> sent.payload]
           /\ sent.type \in Byte
           /\ Len(sent.payload) \in Nat
           /\ sent.payload \in [1 .. Len(sent.payload) -> Byte]
<1> USE FramingAssumption, FrameRoundTripAssumption
<1>1. /\ sent.type \in Types
      /\ sent.payload \in SeqOf(PayloadBytes, MaxPayload + 2) \cup LongPayloads
      /\ sent = [type |-> sent.type, payload |-> sent.payload]
    BY DEF Sendable
<1>2. CASE sent.payload \in SeqOf(PayloadBytes, MaxPayload + 2)
    <2>1. PICK n \in 0 .. MaxPayload + 2 : sent.payload \in [1 .. n -> PayloadBytes]
        BY <1>2 DEF SeqOf
    <2>2. n \in Nat /\ Len(sent.payload) = n
        BY <2>1
    <2> QED BY <1>1, <2>1, <2>2
<1>3. CASE sent.payload \in LongPayloads
    <2>1. sent.payload \in Seq(Byte)
        BY <1>3
    <2> QED BY <1>1, <2>1
<1> QED BY <1>1, <1>2, <1>3

(* A size cast to a byte stays what it is, or is a smaller number.         *)
LEMMA NarrowLengthBounds ==
    ASSUME NEW n \in Nat
    PROVE  /\ NarrowLength(n) \in 0 .. n
           /\ n <= MaxByte => NarrowLength(n) = n
<1>1. MaxByte + 1 \in Nat \ {0}
    BY FramingAssumption
<1> DEFINE M == MaxByte + 1
<1>2. /\ n % M \in 0 .. n
      /\ n < M => n % M = n
    <2> HIDE DEF M
    <2>1. M \in Nat \ {0}
        BY <1>1 DEF M
    <2>2. n = M * (n \div M) + (n % M) /\ n \div M \in Nat /\ n % M \in 0 .. M - 1
        BY <2>1
    <2>3. M * (n \div M) \in Nat
        BY <2>1, <2>2
    <2>4. ASSUME n < M PROVE n % M = n
        BY <2>1, <2>4
    <2> QED BY <2>2, <2>3, <2>4
<1> QED BY <1>2, FramingAssumption DEF NarrowLength, M

(* What encode_frame sees of it is a frame if it is not too long, and is   *)
(* all of it if its size fits into a byte.                                 *)
LEMMA NarrowedShape ==
    ASSUME sent \in Sendable
    PROVE  /\ ~(Len(Narrowed(sent).payload) > MaxPayload) => Narrowed(sent) \in Frame
           /\ Len(sent.payload) <= MaxByte => Narrowed(sent) = sent
<1> DEFINE p == sent.payload
           n == NarrowLength(Len(p))
<1>1. /\ sent = [type |-> sent.type, payload |-> p] /\ sent.type \in Byte
      /\ Len(p) \in Nat /\ p \in [1 .. Len(p) -> Byte]
    BY SentShape
<1>2. n \in 0 .. Len(p) /\ (Len(p) <= MaxByte => n = Len(p))
    BY <1>1, NarrowLengthBounds
<1>3. /\ Narrowed(sent) = [type |-> sent.type, payload |-> [k \in 1 .. n |-> p[k]]]
      /\ Narrowed(sent).payload = [k \in 1 .. n |-> p[k]]
    BY DEF Narrowed, FirstBytes
<1> HIDE DEF p, n
<1>4. [k \in 1 .. n |-> p[k]] \in [1 .. n -> Byte] /\ n \in Nat
    BY <1>1, <1>2
<1>5. Len([k \in 1 .. n |-> p[k]]) = n
    BY <1>4
<1>6. ASSUME ~(n > MaxPayload) PROVE Narrowed(sent) \in Frame
    <2>1. n \in 0 .. MaxPayload
        BY <1>4, <1>6, FramingAssumption
    <2>2. [k \in 1 .. n |-> p[k]] \in Payload
        BY <1>4, <2>1 DEF Payload
    <2> QED BY <1>1, <1>3, <2>2 DEF Frame
<1>7. ASSUME Len(p) <= MaxByte PROVE Narrowed(sent) = sent
    <2>1. [k \in 1 .. n |-> p[k]] = p
        BY <1>1, <1>2, <1>7
    <2> QED BY <1>1, <1>3, <2>1
<1>8. Len(Narrowed(sent).payload) = n
    BY <1>3, <1>5
<1> QED BY <1>6, <1>7, <1>8 DEF p

(* Encoding, whoever asks for it, puts the stuffed raw block on the wire.  *)
LEMMA Written ==
    ASSUME NEW cap, IInv, pc = "encode",
           encoded' = EncodeFrame(Narrowed(sent), cap),
           region' = IF encoded'.status = "Ok" THEN Front(encoded'.packet) ELSE <<>>,
           pc' = IF encoded'.status = "Ok" THEN "wire" ELSE "done",
           UNCHANGED <<sent, damage, decoded>>
    PROVE  IInv'
<1> DEFINE narrow == Narrowed(sent)
<1>1. /\ sent' = sent /\ damage' = damage /\ decoded' = decoded
      /\ sent \in Sendable /\ damage \in Nat
      /\ encoded' = EncodeFrame(narrow, cap) /\ Narrowed(sent)' = narrow
    BY DEF IInv, Narrowed
<1> HIDE DEF narrow
<1>2. CASE encoded'.status = "Ok"
    <2>1. /\ ~(Len(narrow.payload) > MaxPayload)
          /\ encoded' = [status |-> "Ok", packet |-> Append(CobsEncode(RawBlock(narrow)), Delimiter)]
        BY <1>1, <1>2 DEF EncodeFrame, NoPacket
    <2>2. narrow \in Frame
        BY <1>1, <2>1, NarrowedShape DEF narrow
    <2>3. CobsEncode(RawBlock(narrow)) \in Seq(Byte)
        BY <2>2, CobsAssumption
    <2> DEFINE r == CobsEncode(RawBlock(narrow))
    <2> HIDE DEF r
    <2>4. r \in Seq(Byte) /\ Delimiter \in Byte
        BY <2>3, FramingAssumption DEF r, Delimiter, Byte
    <2>5. Front(Append(r, Delimiter)) = r
        BY <2>4 DEF Front
    <2>6. pc' = "wire" /\ region' = r
        BY <1>2, <2>1, <2>5 DEF r
    <2> QED BY <1>1, <1>2, <2>2, <2>6 DEF IInv, RoundTrip, Arrived, r
<1>3. CASE encoded'.status # "Ok"
    <2>1. pc' = "done"
        BY <1>3
    <2> QED BY <1>1, <1>3, <2>1 DEF IInv, RoundTrip, Arrived
<1> QED BY <1>2, <1>3

(* C++ code passes a length that is a byte.                                *)
LEMMA EncodeStep == IInv /\ Encode => IInv'
<1> SUFFICES ASSUME IInv, Encode PROVE IInv'
    OBVIOUS
<1>1. Narrowed(sent) = sent
    BY NarrowedShape DEF IInv, Encode
<1> QED BY <1>1, Written DEF Encode

(* Python code passes whatever it has.                                     *)
LEMMA PyEncodeStep == IInv /\ PyEncode => IInv'
    BY Written DEF PyEncode, PyEncodeFrame

(* After damage nothing is claimed about the region any more.              *)
LEMMA DamageStep == IInv /\ Damage => IInv'
<1> SUFFICES ASSUME IInv, Damage PROVE IInv'
    OBVIOUS
<1>1. /\ pc = "wire" /\ damage \in Nat /\ damage' = damage + 1
      /\ UNCHANGED <<pc, sent, outCap, encoded, decoded>>
    BY DEF IInv, Damage
<1>2. damage' \in Nat /\ damage' # 0 /\ pc' = "wire"
    BY <1>1
<1> QED BY <1>1, <1>2 DEF IInv, RoundTrip, Arrived

(* Decoding an undamaged region returns the frame.                         *)
LEMMA DecodeStep == IInv /\ Decode => IInv'
<1> SUFFICES ASSUME IInv, Decode PROVE IInv'
    OBVIOUS
<1>1. /\ pc = "wire" /\ pc' = "done" /\ encoded.status = "Ok" /\ sent \in Sendable
      /\ Narrowed(sent) \in Frame /\ damage \in Nat
      /\ decoded' = DecodeRegion(region, decoded.frame)
      /\ UNCHANGED <<sent, outCap, encoded, region, damage>>
    BY DEF IInv, Decode
<1>2. damage = 0 => decoded' = [status |-> "Ok", frame |-> Narrowed(sent)]
    BY <1>1, DecodeUndoesEncode DEF IInv
<1>3. Len(sent.payload) <= MaxByte => Narrowed(sent) = sent
    BY <1>1, NarrowedShape
<1>4. Narrowed(sent)' = Narrowed(sent)
    BY <1>1 DEF Narrowed
<1> QED BY <1>1, <1>2, <1>3, <1>4 DEF IInv, RoundTrip, Arrived

(* The invariant holds in every reachable state.                           *)
LEMMA Inductive == Spec => []IInv
<1>1. Init => IInv
    BY DEF Init, IInv, RoundTrip, Arrived
<1>2. IInv /\ UNCHANGED vars => IInv'
    BY DEF IInv, vars, RoundTrip, Arrived
<1>3. IInv /\ [Next]_vars => IInv'
    BY <1>2, EncodeStep, PyEncodeStep, DamageStep, DecodeStep DEF Next
<1> QED BY <1>1, <1>3, PTL DEF Spec

(* An undamaged region decodes to the frame that was sent, whatever frame, *)
(* capacity, checksum and byte stuffing.                                   *)
THEOREM UndamagedArrives == Spec => []RoundTrip
<1>1. IInv => RoundTrip
    BY DEF IInv
<1> QED BY <1>1, Inductive, PTL

-----------------------------------------------------------------------------
(* What remains is not true of every byte stuffing, but it is of COBS.     *)
Stuffing == INSTANCE CobsProofs WITH MaxCode <- MaxByte

\* The byte stuffing of the code, as Cobs defines it: its code byte is a byte,
\* and the largest raw block is shorter than a full block and its code byte.
UsesCobs ==
    /\ MaxRaw < MaxByte
    /\ \A s \in Seq(Byte) : CobsEncode(s) = Stuffing!Encoding(s)
    /\ \A r \in Seq(Byte) :
          CobsDecode(r) = IF Stuffing!Decodable(r)
                          THEN [ok |-> TRUE, block |-> Stuffing!Decoding(r)]
                          ELSE [ok |-> FALSE, block |-> <<>>]

(* A function on 1 .. n is a sequence of that length.                      *)
LEMMA FunctionIsSeq ==
    ASSUME NEW S, NEW n \in Nat, NEW x \in [1 .. n -> S]
    PROVE  x \in Seq(S) /\ Len(x) = n
OBVIOUS

(* The elements of a sequence.                                             *)
LEMMA BytesOfSeq == ASSUME NEW S, NEW x \in Seq(S) PROVE \A k \in 1 .. Len(x) : x[k] \in S
OBVIOUS

(* The digits of a number of two digits.                                   *)
LEMMA DigitsOfTwo ==
    ASSUME NEW M \in Nat \ {0}, NEW low \in 0 .. M - 1, NEW high \in 0 .. M - 1
    PROVE  /\ (low + high * M) % M = low
           /\ ((low + high * M) \div M) % M = high
<1> PICK c \in Nat : c = low + high * M
  <2>1. high * M \in Nat /\ low \in Nat
      OBVIOUS
  <2> QED BY <2>1
<1> DEFINE q == c \div M
           r == c % M
<1>1. q \in Nat /\ r \in 0 .. M - 1 /\ c = M * q + r
    OBVIOUS
<1> HIDE DEF q, r
<1>2. q = high
  <2>1. ASSUME q < high PROVE FALSE
    <3> PICK d \in Nat : high = q + 1 + d
      <4>1. high - q - 1 \in Nat /\ high = q + 1 + (high - q - 1)
          BY <1>1, <2>1
      <4> QED BY <4>1
    <3>1. high * M = q * M + M + d * M
        BY <1>1
    <3>2. d * M \in Nat /\ q * M = M * q
        BY <1>1
    <3> QED BY <1>1, <3>1, <3>2
  <2>2. ASSUME high < q PROVE FALSE
    <3> PICK d \in Nat : q = high + 1 + d
      <4>1. q - high - 1 \in Nat /\ q = high + 1 + (q - high - 1)
          BY <1>1, <2>2
      <4> QED BY <4>1
    <3>1. q * M = high * M + M + d * M
        BY <1>1
    <3>2. d * M \in Nat /\ q * M = M * q
        BY <1>1
    <3> QED BY <1>1, <3>1, <3>2
  <2> QED BY <1>1, <2>1, <2>2
<1>3. r = low
    BY <1>1, <1>2
<1>4. high % M = high
    OBVIOUS
<1> QED BY <1>2, <1>3, <1>4 DEF q, r

(* A raw block is a sequence of at most MaxRaw bytes.                      *)
LEMMA RawBlockIsBytes ==
    ASSUME NEW f \in Frame
    PROVE  RawBlock(f) \in Seq(Byte) /\ Len(RawBlock(f)) = Len(f.payload) + 4
<1> DEFINE m == Len(f.payload)
           n == HeaderSize + m
           crc == Crc(Covered(f))
<1>1. /\ m \in 0 .. MaxPayload /\ MaxPayload \in Nat /\ MaxPayload <= MaxByte /\ MaxByte \in Nat
      /\ f.type \in Byte /\ f.payload \in [1 .. m -> Byte]
    BY PayloadLength, FramingAssumption
<1>2. Covered(f) = [k \in 1 .. n |-> IF k = 1 THEN f.type
                                     ELSE IF k = 2 THEN m ELSE f.payload[k - HeaderSize]]
    BY DEF Covered
<1>3. crc \in 0 .. (MaxByte + 1) * (MaxByte + 1) - 1 /\ crc \in Nat
  <2>1. crc \in 0 .. CrcModulus - 1
      BY CrcAssumption
  <2> HIDE DEF crc
  <2>2. (MaxByte + 1) * (MaxByte + 1) \in Nat
      BY <1>1
  <2> QED BY <2>1, <2>2 DEF CrcModulus
<1>4. RawBlock(f) = [k \in 1 .. n + CrcSize |->
            IF k <= n THEN Covered(f)[k] ELSE IF k = n + 1 THEN CrcLow(crc) ELSE CrcHigh(crc)]
    BY DEF RawBlock
<1> HIDE DEF crc, m
<1>5. CrcLow(crc) \in Byte /\ CrcHigh(crc) \in Byte
  <2> PICK M \in Nat \ {0} : M = MaxByte + 1 /\ M - 1 = MaxByte
      BY <1>1
  <2>1. crc % M \in 0 .. M - 1 /\ crc \div M \in Nat
      BY <1>3
  <2>2. (crc \div M) % M \in 0 .. M - 1
      BY <2>1
  <2> QED BY <2>1, <2>2 DEF CrcLow, CrcHigh, Byte
<1>6. n \in Nat /\ n = m + 2 /\ n + CrcSize = m + 4 /\ m + 4 \in Nat
    BY <1>1 DEF HeaderSize, CrcSize
<1>7. ASSUME NEW k \in 1 .. n PROVE Covered(f)[k] \in Byte
  <2>1. CASE k = 1
      BY <1>1, <1>2, <2>1
  <2>2. CASE k = 2
      BY <1>1, <1>2, <2>2 DEF Byte
  <2>3. CASE k # 1 /\ k # 2
    <3>1. k - HeaderSize \in 1 .. m
        BY <1>1, <1>6, <2>3 DEF HeaderSize
    <3>2. Covered(f)[k] = f.payload[k - HeaderSize]
        BY <1>2, <2>3
    <3> QED BY <1>1, <3>1, <3>2
  <2> QED BY <2>1, <2>2, <2>3
<1>8. RawBlock(f) \in [1 .. m + 4 -> Byte]
  <2> HIDE DEF n
  <2>1. ASSUME NEW k \in 1 .. n + CrcSize
        PROVE  (IF k <= n THEN Covered(f)[k] ELSE IF k = n + 1 THEN CrcLow(crc) ELSE CrcHigh(crc)) \in Byte
    <3>1. k <= n => k \in 1 .. n
        BY <1>6
    <3> QED BY <1>5, <1>7, <3>1
  <2> QED BY <1>4, <1>6, <2>1
<1> QED BY <1>6, <1>8, FunctionIsSeq DEF m

(* Under the byte stuffing of the code, a packet has one byte more than    *)
(* the raw block, and the delimiter.                                       *)
LEMMA StuffedShape ==
    ASSUME UsesCobs, NEW f \in Frame
    PROVE  /\ CobsEncode(RawBlock(f)) \in Seq(1 .. MaxByte)
           /\ Len(CobsEncode(RawBlock(f))) = Len(f.payload) + 5
<1> PICK s \in Seq(Byte) : s = RawBlock(f) /\ Len(s) = Len(f.payload) + 4
    BY RawBlockIsBytes
<1>1. CobsEncode(s) = Stuffing!Encoding(s)
    BY DEF UsesCobs
<1>2. Len(f.payload) \in 0 .. MaxPayload /\ MaxPayload \in Nat /\ MaxByte \in Nat /\ MaxPayload + 4 < MaxByte
    BY PayloadLength, FramingAssumption DEF UsesCobs, MaxRaw, HeaderSize, CrcSize
<1>3. s \in Seq(Nat) /\ Stuffing!Bytes(s)
  <2>1. \A k \in 1 .. Len(s) : s[k] \in Nat /\ s[k] <= MaxByte
      BY <1>2 DEF Byte
  <2>2. s \in [1 .. Len(s) -> Nat] /\ Len(s) \in Nat
      BY <2>1
  <2> QED BY <2>1, <2>2, FunctionIsSeq DEF Stuffing!Bytes
<1>4. Stuffing!CodeSize
    BY <1>2 DEF Stuffing!CodeSize
<1>5. Len(s) < MaxByte
    BY <1>2
<1>6. Stuffing!Encoding(s) \in Seq(1 .. MaxByte) /\ Len(Stuffing!Encoding(s)) = Len(s) + 1
    BY <1>3, <1>4, <1>5, Stuffing!ShortEncoding
<1> QED BY <1>1, <1>2, <1>6

(* What the other theorems assume of the byte stuffing is true of COBS.    *)
LEMMA CobsIsUndone ==
    ASSUME UsesCobs, NEW f \in Frame
    PROVE  /\ CobsEncode(RawBlock(f)) \in Seq(Byte)
           /\ CobsDecode(CobsEncode(RawBlock(f))) = [ok |-> TRUE, block |-> RawBlock(f)]
<1> PICK s \in Seq(Byte) : s = RawBlock(f)
    BY RawBlockIsBytes
<1> PICK r \in Seq(1 .. MaxByte) : r = CobsEncode(s)
    BY StuffedShape
<1>1. MaxByte \in Nat /\ MaxByte >= 2 /\ Stuffing!CodeSize
    BY FramingAssumption DEF UsesCobs, MaxRaw, HeaderSize, CrcSize, Stuffing!CodeSize
<1>2. r \in Seq(Byte) /\ s \in Seq(Nat)
    BY <1>1 DEF Byte
<1>3. r = Stuffing!Encoding(s)
    BY DEF UsesCobs
<1>4. Stuffing!Decodable(r) /\ Stuffing!Decoding(r) = s
    BY <1>1, <1>2, <1>3, Stuffing!DecodingUndoesEncoding
<1> QED BY <1>2, <1>4 DEF UsesCobs

(* A block that passes the checks is the raw block of the frame in it.     *)
LEMMA RawOfBlock ==
    ASSUME NEW raw \in Seq(Byte), BlockStatus(raw) = "Ok"
    PROVE  BlockFrame(raw) \in Frame /\ RawBlock(BlockFrame(raw)) = raw
<1> DEFINE m == LengthField(raw)
           n == HeaderSize + m
           f == BlockFrame(raw)
           crc == Crc(Covered(f))
<1>1. /\ ~ (Len(raw) < 4) /\ ~ (m > MaxPayload) /\ Len(raw) = n + CrcSize
      /\ RxCrc(raw) = Crc(FirstBytes(raw, Len(raw) - CrcSize))
    BY DEF BlockStatus, HeaderSize, CrcSize
<1>2. MaxByte \in Nat /\ MaxPayload \in Nat /\ Len(raw) \in Nat /\ \A k \in 1 .. Len(raw) : raw[k] \in Byte
    BY FramingAssumption
<1>3. m \in Byte /\ m = raw[2] /\ raw[1] \in Byte
    BY <1>1, <1>2 DEF LengthField
<1>4. m \in Nat /\ m \in 0 .. MaxPayload
    BY <1>1, <1>2, <1>3 DEF Byte
<1> HIDE DEF m
<1>5. n \in Nat /\ n = m + 2 /\ n + CrcSize = m + 4 /\ Len(raw) = m + 4
    BY <1>1, <1>4 DEF HeaderSize, CrcSize
<1>6. f = [type |-> raw[1], payload |-> [k \in 1 .. m |-> raw[HeaderSize + k]]]
    BY DEF BlockFrame, m
<1>7. [k \in 1 .. m |-> raw[HeaderSize + k]] \in [1 .. m -> Byte]
  <2> SUFFICES ASSUME NEW k \in 1 .. m PROVE raw[HeaderSize + k] \in Byte
      OBVIOUS
  <2>1. HeaderSize + k \in 1 .. Len(raw)
      BY <1>4, <1>5 DEF HeaderSize
  <2> QED BY <1>2, <2>1
<1>8. f \in Frame
    BY <1>3, <1>4, <1>6, <1>7 DEF Frame, Payload
<1> HIDE DEF f
<1>9. f.type = raw[1] /\ f.payload = [k \in 1 .. m |-> raw[HeaderSize + k]] /\ Len(f.payload) = m
    BY <1>4, <1>6, <1>7, FunctionIsSeq
<1>10. Covered(f) = [k \in 1 .. n |-> IF k = 1 THEN f.type
                                      ELSE IF k = 2 THEN m ELSE f.payload[k - HeaderSize]]
    BY <1>9 DEF Covered
<1>11. ASSUME NEW k \in 1 .. n PROVE Covered(f)[k] = raw[k]
  <2>1. CASE k = 1 \/ k = 2
      BY <1>3, <1>9, <1>10, <2>1
  <2>2. CASE k # 1 /\ k # 2
    <3>1. k - HeaderSize \in 1 .. m /\ HeaderSize + (k - HeaderSize) = k
        BY <1>4, <1>5, <2>2 DEF HeaderSize
    <3>2. Covered(f)[k] = f.payload[k - HeaderSize]
        BY <1>10, <2>2
    <3> QED BY <1>9, <3>1, <3>2
  <2> QED BY <2>1, <2>2
<1>12. Covered(f) = FirstBytes(raw, n)
  <2>1. Covered(f) = [k \in 1 .. n |-> Covered(f)[k]]
      BY <1>10
  <2>2. [k \in 1 .. n |-> Covered(f)[k]] = [k \in 1 .. n |-> raw[k]]
      BY <1>11
  <2> QED BY <2>1, <2>2 DEF FirstBytes
<1>13. CrcLow(crc) = raw[n + 1] /\ CrcHigh(crc) = raw[n + 2]
  <2>1. Len(raw) - CrcSize = n /\ Len(raw) - 1 = n + 1 /\ Len(raw) = n + 2
      BY <1>5 DEF CrcSize
  <2>2. crc = FromBytes(raw[n + 1], raw[n + 2])
      BY <1>1, <1>12, <2>1 DEF RxCrc
  <2>3. raw[n + 1] \in Byte /\ raw[n + 2] \in Byte
    <3>1. n + 1 \in 1 .. Len(raw) /\ n + 2 \in 1 .. Len(raw)
        BY <1>4, <1>5
    <3> QED BY <1>2, <3>1
  <2> PICK M \in Nat \ {0} : M = MaxByte + 1 /\ M - 1 = MaxByte
      BY <1>2
  <2> PICK low \in 0 .. M - 1, high \in 0 .. M - 1 : low = raw[n + 1] /\ high = raw[n + 2]
      BY <2>3 DEF Byte
  <2>4. crc = low + high * M
      BY <2>2 DEF FromBytes
  <2> HIDE DEF crc
  <2>5. crc % M = low /\ (crc \div M) % M = high
      BY <2>4, DigitsOfTwo
  <2> QED BY <2>5 DEF CrcLow, CrcHigh
<1>14. RawBlock(f) \in Seq(Byte) /\ Len(RawBlock(f)) = m + 4
    BY <1>8, <1>9, RawBlockIsBytes
<1>15. /\ \A k \in 1 .. n : RawBlock(f)[k] = raw[k]
       /\ RawBlock(f)[n + 1] = raw[n + 1]
       /\ RawBlock(f)[n + 2] = raw[n + 2]
  <2>1. n = HeaderSize + Len(f.payload)
      BY <1>9
  <2> HIDE DEF n, crc
  <2> QED BY <1>8, <1>11, <1>13, <2>1, RawBlockShape DEF crc
<1>16. ASSUME NEW k \in 1 .. m + 4 PROVE RawBlock(f)[k] = raw[k]
  <2>1. k \in 1 .. n \/ k = n + 1 \/ k = n + 2
      BY <1>4, <1>5
  <2> QED BY <1>15, <2>1
<1>17. RawBlock(f) = raw
    BY <1>5, <1>14, <1>16
<1> QED BY <1>8, <1>17 DEF f

-----------------------------------------------------------------------------
\* Once there is a packet, it is what encode_frame made of the narrowed frame.
PacketInv ==
    /\ sent \in Sendable
    /\ outCap \in Nat
    /\ pc # "encode" => encoded = EncodeFrame(Narrowed(sent), outCap)

(* The length of what encode_frame sees.                                   *)
LEMMA NarrowedLength ==
    ASSUME sent \in Sendable
    PROVE  Len(Narrowed(sent).payload) = NarrowLength(Len(sent.payload))
<1>1. NarrowLength(Len(sent.payload)) \in Nat
    BY SentShape, NarrowLengthBounds
<1>2. Narrowed(sent).payload = [k \in 1 .. NarrowLength(Len(sent.payload)) |-> sent.payload[k]]
    BY DEF Narrowed, FirstBytes
<1> QED BY <1>1, <1>2

(* Only the payload's length or the buffer's capacity make encode_frame    *)
(* fail, and otherwise the packet is one byte longer than the raw block,   *)
(* and the delimiter.                                                      *)
LEMMA Packed ==
    ASSUME UsesCobs, sent \in Sendable, NEW cap \in Nat
    PROVE  LET n == NarrowLength(Len(sent.payload))
               e == EncodeFrame(Narrowed(sent), cap)
           IN  /\ n > MaxPayload <=> e.status = "PayloadTooLarge"
               /\ n <= MaxPayload /\ cap >= MaxRaw + 2 => e.status = "Ok"
               /\ e.status = "Ok" =>
                    /\ Len(e.packet) <= cap
                    /\ Len(e.packet) = HeaderSize + n + CrcSize + 2
                    /\ \A k \in 1 .. Len(e.packet) : e.packet[k] = Delimiter <=> k = Len(e.packet)
<1> DEFINE narrow == Narrowed(sent)
<1> PICK n \in Nat : n = NarrowLength(Len(sent.payload)) /\ n = Len(narrow.payload)
    BY SentShape, NarrowLengthBounds, NarrowedLength
<1>1. MaxPayload \in Nat /\ MaxByte \in Nat /\ MaxRaw = MaxPayload + 4
    BY FramingAssumption DEF MaxRaw, HeaderSize, CrcSize
<1> HIDE DEF narrow
<1> DEFINE e == EncodeFrame(narrow, cap)
<1>2. CASE n > MaxPayload
  <2>1. e.status = "PayloadTooLarge"
      BY <1>2 DEF EncodeFrame, NoPacket
  <2> HIDE DEF e
  <2>2. ~ (n <= MaxPayload) /\ e.status # "Ok"
      BY <1>1, <1>2, <2>1
  <2> QED BY <1>2, <2>1, <2>2 DEF e, narrow
<1>3. CASE ~ (n > MaxPayload)
  <2>1. narrow \in Frame
      BY <1>3, NarrowedShape DEF narrow
  <2> PICK r \in Seq(1 .. MaxByte) : r = CobsEncode(RawBlock(narrow)) /\ Len(r) = n + 5
      BY <2>1, StuffedShape
  <2>2. e = IF cap < 2 \/ Len(r) > cap - 1 THEN NoPacket("BufferTooSmall")
            ELSE [status |-> "Ok", packet |-> Append(r, Delimiter)]
      BY <1>3 DEF EncodeFrame
  <2> HIDE DEF e
  <2>3. e.status # "PayloadTooLarge"
      BY <2>2 DEF NoPacket
  <2>4. cap >= MaxRaw + 2 => e.status = "Ok"
    <3>1. cap >= MaxRaw + 2 => ~ (cap < 2) /\ ~ (n + 5 > cap - 1)
        BY <1>1, <1>3
    <3> QED BY <2>2, <3>1
  <2>5. ASSUME e.status = "Ok"
        PROVE  /\ Len(e.packet) <= cap
               /\ Len(e.packet) = HeaderSize + n + CrcSize + 2
               /\ \A k \in 1 .. Len(e.packet) : e.packet[k] = Delimiter <=> k = Len(e.packet)
    <3>1. e.packet = Append(r, Delimiter) /\ ~ (n + 5 > cap - 1)
        BY <2>2, <2>5 DEF NoPacket
    <3> PICK p : p = e.packet /\ p = Append(r, Delimiter)
        BY <3>1
    <3>5. r \in Seq(Nat) /\ \A k \in 1 .. n + 5 : r[k] \in 1 .. MaxByte
      <4>1. \A k \in 1 .. Len(r) : r[k] \in 1 .. MaxByte /\ r[k] \in Nat
        <5>1. \A k \in 1 .. Len(r) : r[k] \in 1 .. MaxByte
            BY BytesOfSeq
        <5> QED BY <1>1, <5>1
      <4>2. r \in [1 .. Len(r) -> Nat] /\ Len(r) \in Nat
          BY <4>1
      <4> QED BY <4>1, <4>2, FunctionIsSeq
    <3>2. Len(p) = n + 6 /\ p[n + 6] = Delimiter /\ \A k \in 1 .. n + 5 : p[k] = r[k] /\ r[k] \in 1 .. MaxByte
        BY <3>5 DEF Delimiter
    <3>3. ASSUME NEW k \in 1 .. n + 6 PROVE p[k] = Delimiter <=> k = n + 6
      <4>1. k \in 1 .. n + 5 \/ k = n + 6
          OBVIOUS
      <4>2. k \in 1 .. n + 5 => p[k] # 0 /\ k # n + 6
          BY <3>2
      <4> QED BY <3>2, <4>1, <4>2 DEF Delimiter
    <3>4. n + 6 <= cap /\ n + 6 = HeaderSize + n + CrcSize + 2
        BY <3>1 DEF HeaderSize, CrcSize
    <3> QED BY <3>2, <3>3, <3>4
  <2> QED BY <1>3, <2>3, <2>4, <2>5 DEF e, narrow
<1> QED BY <1>2, <1>3

(* Every packet is well formed, for frames of every type and payload,      *)
(* buffers of every capacity and any checksum, if the byte stuffing is     *)
(* COBS.                                                                   *)
THEOREM PacketsAreWellFormed == ASSUME UsesCobs PROVE Spec => []PacketWellFormed
<1>1. Init => PacketInv
    BY FrameRoundTripAssumption DEF Init, PacketInv
<1>2. ASSUME PacketInv, [Next]_vars PROVE PacketInv'
  <2>1. Narrowed(sent)' = Narrowed(sent')
      BY DEF Narrowed
  <2>2. CASE Encode
    <3>1. Narrowed(sent) = sent
        BY <1>2, <2>2, NarrowedShape DEF PacketInv, Encode
    <3> QED BY <1>2, <2>1, <2>2, <3>1 DEF PacketInv, Encode
  <2>3. CASE PyEncode
    <3>1. MaxRaw + 2 \in Nat
        BY FramingAssumption DEF MaxRaw, HeaderSize, CrcSize
    <3> QED BY <1>2, <2>1, <2>3, <3>1 DEF PacketInv, PyEncode, PyEncodeFrame
  <2>4. CASE Damage
      BY <1>2, <2>1, <2>4 DEF PacketInv, Damage
  <2>5. CASE Decode
      BY <1>2, <2>1, <2>5 DEF PacketInv, Decode
  <2>6. CASE UNCHANGED vars
      BY <1>2, <2>1, <2>6 DEF PacketInv, vars
  <2> QED BY <1>2, <2>2, <2>3, <2>4, <2>5, <2>6 DEF Next
<1>3. PacketInv => PacketWellFormed
    BY Packed DEF PacketInv, PacketWellFormed
<1> QED BY <1>1, <1>2, <1>3, PTL DEF Spec

-----------------------------------------------------------------------------
\* A region holds no delimiter, damaged or not.
NonZero == Byte \ {Delimiter}
AcceptInv ==
    /\ IInv
    /\ pc = "wire" => region \in Seq(NonZero)
    /\ AcceptsOnlyEncodings

(* A region that is accepted is what encode_frame makes of the frame.      *)
LEMMA AcceptedIsEncoding ==
    ASSUME UsesCobs, NEW r \in Seq(NonZero), NEW out, Len(r) <= MaxRaw + 1,
           DecodeRegion(r, out).status = "Ok"
    PROVE  EncodeFrame(DecodeRegion(r, out).frame, MaxRaw + 2).packet = Append(r, Delimiter)
<1>1. /\ MaxPayload \in Nat /\ MaxByte \in Nat /\ MaxRaw = MaxPayload + 4 /\ MaxRaw < MaxByte
      /\ Stuffing!CodeSize
    BY FramingAssumption DEF UsesCobs, MaxRaw, HeaderSize, CrcSize, Stuffing!CodeSize
<1>2. /\ r \in Seq(Byte) /\ r \in Seq(Nat) /\ Len(r) \in Nat
      /\ \A k \in 1 .. Len(r) : r[k] # 0 /\ r[k] \in Byte
    BY <1>1 DEF NonZero, Byte, Delimiter
<1> DEFINE raw == CobsDecode(r).block
<1>3. /\ CobsDecode(r).ok /\ ~ (Len(raw) > MaxRaw) /\ BlockStatus(raw) = "Ok"
      /\ DecodeRegion(r, out).frame = BlockFrame(raw)
    BY DEF DecodeRegion
<1>4. Stuffing!Decodable(r) /\ raw = Stuffing!Decoding(r)
    BY <1>2, <1>3 DEF UsesCobs
<1> HIDE DEF raw
<1>5. r # <<>>
  <2> SUFFICES ASSUME r = <<>> PROVE FALSE
      OBVIOUS
  <2>1. raw = <<>>
      BY <1>4 DEF Stuffing!Decoding
  <2>2. BlockStatus(<<>>) = "Truncated"
      BY DEF BlockStatus, HeaderSize, CrcSize
  <2> QED BY <1>3, <2>1, <2>2
<1>6. Stuffing!ShortRegion(r)
  <2>1. Len(r) \in 1 .. MaxByte
      BY <1>1, <1>2, <1>5
  <2> QED BY <1>2, <2>1 DEF Stuffing!ShortRegion
<1>7. Stuffing!Canonical(r, raw)
    BY <1>1, <1>4, <1>6, Stuffing!RegionsAreCanonical
<1>8. raw \in Seq(Nat) /\ Stuffing!MadeOf(raw, r) /\ Stuffing!Encoding(raw) = r
    BY <1>7 DEF Stuffing!Canonical
<1>9. raw \in Seq(Byte)
  <2>1. 0 \in Byte
      BY <1>1 DEF Byte
  <2>2. \A j \in 1 .. Len(raw) : raw[j] \in Byte
      BY <1>2, <1>8, <2>1 DEF Stuffing!MadeOf
  <2>3. raw \in [1 .. Len(raw) -> Byte] /\ Len(raw) \in Nat
      BY <1>8, <2>2
  <2> QED BY <2>3, FunctionIsSeq
<1> DEFINE f == BlockFrame(raw)
<1>10. f \in Frame /\ RawBlock(f) = raw
    BY <1>3, <1>9, RawOfBlock
<1> HIDE DEF f
<1>11. CobsEncode(RawBlock(f)) = r
    BY <1>8, <1>9, <1>10 DEF UsesCobs
<1> PICK cap \in Nat : cap = MaxRaw + 2
    BY <1>1
<1>12. ~ (Len(f.payload) > MaxPayload) /\ ~ (cap < 2) /\ ~ (Len(r) > cap - 1)
    BY <1>1, <1>2, <1>10, PayloadLength
<1>13. EncodeFrame(f, cap) = [status |-> "Ok", packet |-> Append(r, Delimiter)]
    BY <1>11, <1>12 DEF EncodeFrame
<1> QED BY <1>3, <1>13 DEF f

(* No damage puts a delimiter into a region.                               *)
LEMMA DamagedRegion ==
    ASSUME NEW S, NEW r \in Seq(S), NEW k \in 1 .. Len(r)
    PROVE  /\ \A b \in S : [r EXCEPT ![k] = b] \in Seq(S)
           /\ RemoveAt(r, k) \in Seq(S)
           /\ InsertAt(r, k, r[k]) \in Seq(S)
<1>0. Len(r) \in Nat /\ k \in Nat /\ r[k] \in S
    OBVIOUS
<1>1. ASSUME NEW b \in S PROVE [r EXCEPT ![k] = b] \in Seq(S)
    OBVIOUS
<1>2. SubSeq(r, 1, k - 1) \in Seq(S) /\ SubSeq(r, k + 1, Len(r)) \in Seq(S) /\ SubSeq(r, k, Len(r)) \in Seq(S)
    OBVIOUS
<1>3. RemoveAt(r, k) \in Seq(S)
    BY <1>2 DEF RemoveAt
<1>4. InsertAt(r, k, r[k]) \in Seq(S)
    BY <1>0, <1>2 DEF InsertAt
<1> QED BY <1>1, <1>3, <1>4

(* Damaged or not, a region is accepted only if it is the encoding of the  *)
(* frame that is returned, if the byte stuffing is COBS: nothing of it is  *)
(* ignored, and no frame has two encodings.                                *)
THEOREM OnlyEncodingsAccepted == ASSUME UsesCobs PROVE Spec => []AcceptsOnlyEncodings
<1>1. Init => AcceptInv
    BY DEF Init, AcceptInv, AcceptsOnlyEncodings, Arrived, IInv, RoundTrip
<1>2. ASSUME AcceptInv, [Next]_vars, IInv' PROVE AcceptInv'
  <2>1. ASSUME pc = "encode", NEW cap, encoded' = EncodeFrame(Narrowed(sent), cap),
               region' = IF encoded'.status = "Ok" THEN Front(encoded'.packet) ELSE <<>>,
               pc' = IF encoded'.status = "Ok" THEN "wire" ELSE "done"
        PROVE  AcceptInv'
    <3>1. CASE encoded'.status = "Ok"
      <4> DEFINE narrow == Narrowed(sent)
      <4>1. /\ ~(Len(narrow.payload) > MaxPayload)
            /\ encoded' = [status |-> "Ok", packet |-> Append(CobsEncode(RawBlock(narrow)), Delimiter)]
          BY <2>1, <3>1 DEF EncodeFrame, NoPacket
      <4>2. narrow \in Frame
          BY <1>2, <4>1, NarrowedShape DEF AcceptInv, IInv
      <4> HIDE DEF narrow
      <4> PICK r \in Seq(1 .. MaxByte) : r = CobsEncode(RawBlock(narrow))
          BY <4>2, StuffedShape
      <4>3. 1 .. MaxByte = NonZero /\ Delimiter \in Byte
          BY FramingAssumption DEF NonZero, Byte, Delimiter
      <4>4. r \in Seq(NonZero)
          BY <4>3
      <4>5. Front(Append(r, Delimiter)) = r
          BY DEF Front, Delimiter
      <4>6. region' = r /\ pc' = "wire"
          BY <2>1, <3>1, <4>1, <4>5
      <4> QED BY <1>2, <4>4, <4>6 DEF AcceptInv, AcceptsOnlyEncodings, Arrived
    <3>2. CASE encoded'.status # "Ok"
        BY <1>2, <2>1, <3>2 DEF AcceptInv, AcceptsOnlyEncodings, Arrived
    <3> QED BY <3>1, <3>2
  <2>2. CASE Encode
    <3>1. Narrowed(sent) = sent
        BY <1>2, <2>2, NarrowedShape DEF AcceptInv, IInv, Encode
    <3> QED BY <2>1, <2>2, <3>1 DEF Encode
  <2>3. CASE PyEncode
      BY <2>1, <2>3 DEF PyEncode, PyEncodeFrame
  <2>4. CASE Damage
    <3>1. pc = "wire" /\ pc' = "wire" /\ region \in Seq(NonZero)
        BY <1>2, <2>4 DEF AcceptInv, Damage
    <3>2. PICK k \in 1 .. Len(region) :
              \/ \E b \in Byte \ {Delimiter, region[k]} : region' = [region EXCEPT ![k] = b]
              \/ region' = RemoveAt(region, k)
              \/ region' = InsertAt(region, k, region[k])
        BY <2>4 DEF Damage
    <3>3. region' \in Seq(NonZero)
      <4>1. \A b \in Byte \ {Delimiter, region[k]} : b \in NonZero
          BY DEF NonZero
      <4>2. /\ \A b \in NonZero : [region EXCEPT ![k] = b] \in Seq(NonZero)
            /\ RemoveAt(region, k) \in Seq(NonZero)
            /\ InsertAt(region, k, region[k]) \in Seq(NonZero)
          BY <3>1, DamagedRegion
      <4> QED BY <3>2, <4>1, <4>2
    <3> QED BY <1>2, <3>1, <3>3 DEF AcceptInv, AcceptsOnlyEncodings, Arrived
  <2>5. CASE Decode
    <3>1. /\ pc = "wire" /\ region \in Seq(NonZero) /\ pc' = "done"
          /\ region' = region /\ decoded' = DecodeRegion(region, decoded.frame)
        BY <1>2, <2>5 DEF AcceptInv, Decode
    <3>2. decoded'.status = "Ok" /\ Len(region) <= MaxRaw + 1 =>
              EncodeFrame(decoded'.frame, MaxRaw + 2).packet = Append(region, Delimiter)
        BY <3>1, AcceptedIsEncoding
    <3> QED BY <1>2, <3>1, <3>2 DEF AcceptInv, AcceptsOnlyEncodings
  <2>6. CASE UNCHANGED vars
      BY <1>2, <2>6 DEF AcceptInv, AcceptsOnlyEncodings, Arrived, vars
  <2> QED BY <1>2, <2>2, <2>3, <2>4, <2>5, <2>6 DEF Next
<1>3. AcceptInv => AcceptsOnlyEncodings
    BY DEF AcceptInv
<1> QED BY <1>1, <1>2, <1>3, Inductive, PTL DEF Spec

-----------------------------------------------------------------------------
(* One shift of the register stays a word and is linear.                   *)
LEMMA BitStepLinear ==
    ASSUME NEW A \in Word, NEW B \in Word
    PROVE  /\ BitStep(A) \in Word
           /\ Xor(A, B) \in Word
           /\ BitStep(Xor(A, B)) = Xor(BitStep(A), BitStep(B))
<1>1. ShiftLeft(Xor(A, B)) = Xor(ShiftLeft(A), ShiftLeft(B))
    BY DEF ShiftLeft, Xor, Word, TopBit
<1>2. TopBit \in Xor(A, B) <=> ~(TopBit \in A <=> TopBit \in B)
    BY DEF Xor
<1>3. ShiftLeft(A) \in Word
    BY DEF ShiftLeft, Word, TopBit
<1>4. Poly \in Word
    BY DEF Poly, Word
<1>5. \A C, D \in Word : Xor(C, D) \in Word
    BY DEF Xor, Word
<1>6. BitStep(Xor(A, B)) = Xor(BitStep(A), BitStep(B))
  <2>1. CASE TopBit \in A /\ TopBit \in B
      BY <1>1, <1>2, <2>1 DEF BitStep, Xor
  <2>2. CASE TopBit \in A /\ TopBit \notin B
      BY <1>1, <1>2, <2>2 DEF BitStep, Xor
  <2>3. CASE TopBit \notin A /\ TopBit \in B
      BY <1>1, <1>2, <2>3 DEF BitStep, Xor
  <2>4. CASE TopBit \notin A /\ TopBit \notin B
      BY <1>1, <1>2, <2>4 DEF BitStep
  <2> QED BY <2>1, <2>2, <2>3, <2>4
<1> QED BY <1>3, <1>4, <1>5, <1>6 DEF BitStep

(* The eight shifts of one byte are linear.                                *)
LEMMA EightBitStepsLinear ==
    ASSUME NEW A \in Word, NEW B \in Word
    PROVE  /\ EightBitSteps(A) \in Word
           /\ EightBitSteps(Xor(A, B)) = Xor(EightBitSteps(A), EightBitSteps(B))
<1> DEFINE Two(C) == BitStep(BitStep(C))
<1> DEFINE Four(C) == Two(Two(C))
<1>1. \A C, D \in Word : Two(C) \in Word /\ Two(Xor(C, D)) = Xor(Two(C), Two(D))
    BY BitStepLinear
<1> HIDE DEF Two
<1>2. \A C, D \in Word : Four(C) \in Word /\ Four(Xor(C, D)) = Xor(Four(C), Four(D))
    BY <1>1
<1>3. \A C : EightBitSteps(C) = Four(Four(C))
    BY DEF EightBitSteps, Two
<1> HIDE DEF Four
<1> QED BY <1>2, <1>3

\* A byte at the top of the register.
AtTop(byte) == {k + 8 : k \in byte}

(* Taking a byte into the register is linear in register and byte.         *)
LEMMA ByteStepLinear ==
    ASSUME NEW A \in Word, NEW B \in Word, NEW x \in Octet, NEW y \in Octet
    PROVE  /\ ByteStep(A, x) \in Word
           /\ ByteStep(Xor(A, B), Xor(x, y)) = Xor(ByteStep(A, x), ByteStep(B, y))
<1>1. AtTop(x) \in Word /\ AtTop(y) \in Word
    BY DEF AtTop, Octet, Word
<1>2. AtTop(Xor(x, y)) = Xor(AtTop(x), AtTop(y))
  <2>1. \A S \in Octet : \A k : k \in AtTop(S) <=> k \in Int /\ k - 8 \in S
      BY DEF AtTop, Octet
  <2>2. Xor(x, y) \in Octet
      BY DEF Xor, Octet
  <2>3. \A k : k \in AtTop(Xor(x, y)) <=> k \in Xor(AtTop(x), AtTop(y))
      BY <2>1, <2>2 DEF Xor
  <2> QED BY <2>3
<1>3. \A C \in {x, y, Xor(x, y)} : \A D : ByteStep(D, C) = EightBitSteps(Xor(D, AtTop(C)))
    BY DEF ByteStep, AtTop
<1>4. Xor(A, AtTop(x)) \in Word /\ Xor(B, AtTop(y)) \in Word
    BY <1>1, BitStepLinear
<1>5. Xor(Xor(A, B), Xor(AtTop(x), AtTop(y))) = Xor(Xor(A, AtTop(x)), Xor(B, AtTop(y)))
    BY DEF Xor
<1> QED BY <1>2, <1>3, <1>4, <1>5, EightBitStepsLinear

-----------------------------------------------------------------------------
(* What DifferenceIsOfError needs to be inductive.                         *)
CrcInv ==
    /\ data \in Seq(Octet)
    /\ i \in 0 .. Len(data)
    /\ sentCrc \in Word /\ errorCrc \in Word
    /\ Xor(sentCrc, gotCrc) = errorCrc

(* It holds at first, and every byte keeps it.                             *)
LEMMA CrcInvInductive ==
    /\ CrcInit => CrcInv
    /\ CrcInv /\ [Update]_crcVars => CrcInv'
<1>1. CrcInit => CrcInv
    BY Crc16Assumption DEF CrcInit, CrcInv, InitialCrc, Word, Xor
<1>2. CrcInv /\ [Update]_crcVars => CrcInv'
  <2> SUFFICES ASSUME CrcInv, Update PROVE CrcInv'
      BY DEF CrcInv, crcVars
  <2> USE DEF Update, CrcInv
  <2> DEFINE err == ErrorInByte(error, i')
  <2>1. data[i'] \in Octet /\ err \in Octet
      BY DEF ErrorInByte, Octet
  <2>2. gotCrc = Xor(sentCrc, errorCrc)
      BY DEF Xor
  <2>3. gotCrc' = Xor(sentCrc', errorCrc')
      BY <2>1, <2>2, ByteStepLinear
  <2>4. sentCrc' \in Word /\ errorCrc' \in Word
      BY <2>1, ByteStepLinear
  <2>5. Xor(sentCrc', gotCrc') = errorCrc'
      BY <2>3 DEF Xor
  <2> QED BY <2>4, <2>5
<1> QED BY <1>1, <1>2

(* The register of the damaged message differs from the register of the    *)
(* message by the register of the error, at every byte.                    *)
THEOREM ErrorSeparates == CrcSpec => []DifferenceIsOfError
<1>1. CrcInv => DifferenceIsOfError
    BY DEF CrcInv, DifferenceIsOfError
<1> QED BY <1>1, CrcInvInductive, PTL DEF CrcSpec

(* A shift loses nothing of a word: the polynomial has its lowest bit.     *)
LEMMA BitStepKeeps ==
    ASSUME NEW A \in Word, A # {}
    PROVE  BitStep(A) # {}
<1>1. CASE TopBit \in A
  <2>1. 0 \notin ShiftLeft(A)
      BY DEF ShiftLeft, Word
  <2>2. 0 \in BitStep(A)
      BY <1>1, <2>1 DEF BitStep, Xor, Poly
  <2> QED BY <2>2
<1>2. CASE TopBit \notin A
  <2>1. PICK k \in A : TRUE
      OBVIOUS
  <2>2. k + 1 \in ShiftLeft(A)
      BY <1>2 DEF ShiftLeft
  <2> QED BY <1>2, <2>2 DEF BitStep
<1> QED BY <1>1, <1>2

\* The highest j bits of a byte, as the lowest of a word.
HighestBits(L, j) == {m \in 0 .. 7 : m < j /\ m + (8 - j) \in L}

\* One more bit, if the byte L has it, is shifted into the register.
BitAt(L, k) == IF k \in L THEN {0} ELSE {}

(* The highest bits of a byte come into a word one at a time.              *)
LEMMA HighestBitsStep ==
    ASSUME NEW L \in Octet, NEW j \in 0 .. 7
    PROVE  /\ HighestBits(L, j) \in Word
           /\ BitAt(L, 7 - j) \in Word
           /\ HighestBits(L, j + 1) = Xor(BitStep(HighestBits(L, j)), BitAt(L, 7 - j))
<1> DEFINE T == HighestBits(L, j)
           bit == BitAt(L, 7 - j)
<1>1. T \in Word /\ bit \in Word
    BY DEF HighestBits, BitAt, Word
<1>2. TopBit \notin T
    BY DEF HighestBits, TopBit
<1>3. BitStep(T) = {m + 1 : m \in T}
    BY <1>2 DEF BitStep, ShiftLeft
<1>4. \A m : m \in HighestBits(L, j + 1) <=> m \in bit \/ m \in {n + 1 : n \in T}
    BY DEF HighestBits, BitAt, Octet
<1>5. \A m \in bit : m \notin {n + 1 : n \in T}
    BY DEF HighestBits, BitAt
<1> HIDE DEF T, bit
<1>6. \A m : m \in HighestBits(L, j + 1) <=> m \in Xor(BitStep(T), bit)
    BY <1>3, <1>4, <1>5 DEF Xor
<1>7. HighestBits(L, j + 1) = Xor(BitStep(T), bit)
    BY <1>6
<1> QED BY <1>1, <1>7 DEF T, bit

\* After j shifts of a register that began as A: with the bits of the byte L
\* that have come in it is still short, while bits of L are to come, and it
\* is not empty, if A or what has come of L is not.
TakenSoFar(A, L, o, j, crc) ==
    LET X == Xor(crc, HighestBits(L, j))
    IN  /\ crc \in Word
        /\ j < o => X \subseteq 0 .. 15 - (o - j)
        /\ A # {} \/ (\E k \in L : k > 7 - j) => X # {}

(* One shift keeps that, if only the highest o bits of L may be there.     *)
LEMMA OneTaken ==
    ASSUME NEW A, NEW o \in 0 .. 8, NEW L \in Octet, L \subseteq 8 - o .. 7,
           NEW j \in 0 .. 7, NEW crc, TakenSoFar(A, L, o, j, crc)
    PROVE  TakenSoFar(A, L, o, j + 1, BitStep(crc))
<1> DEFINE T == HighestBits(L, j)
           bit == BitAt(L, 7 - j)
           X == Xor(crc, T)
           Y == Xor(BitStep(crc), HighestBits(L, j + 1))
<1>1. /\ crc \in Word
      /\ j < o => X \subseteq 0 .. 15 - (o - j)
      /\ A # {} \/ (\E k \in L : k > 7 - j) => X # {}
    BY DEF TakenSoFar
<1>2. T \in Word /\ bit \in Word /\ HighestBits(L, j + 1) = Xor(BitStep(T), bit)
    BY HighestBitsStep
<1> HIDE DEF T
<1>3. X \in Word /\ BitStep(X) = Xor(BitStep(crc), BitStep(T)) /\ BitStep(crc) \in Word
    BY <1>1, <1>2, BitStepLinear
<1>4. Y = Xor(BitStep(X), bit)
    BY <1>2, <1>3 DEF Xor
<1>5. (\E k \in L : k > 7 - (j + 1)) => 7 - j \in L \/ \E k \in L : k > 7 - j
    BY DEF Octet
<1> HIDE DEF X, Y
<1>6. CASE j < o
  <2>1. TopBit \notin X
      BY <1>1, <1>6 DEF TopBit
  <2>2. BitStep(X) = {k + 1 : k \in X}
      BY <2>1 DEF BitStep, ShiftLeft
  <2>3. \A k \in X : k \in 0 .. 15 - (o - j)
      BY <1>1, <1>6
  <2>4. Y = {k + 1 : k \in X} \cup bit
      BY <1>4, <2>2, <2>3 DEF Xor, BitAt
  <2>5. j + 1 < o => Y \subseteq 0 .. 15 - (o - (j + 1))
      BY <2>3, <2>4 DEF BitAt
  <2>6. A # {} \/ (\E k \in L : k > 7 - (j + 1)) => Y # {}
    <3>1. X # {} => {k + 1 : k \in X} # {}
        OBVIOUS
    <3>2. 7 - j \in L => bit # {}
        BY DEF BitAt
    <3> QED BY <1>1, <1>5, <2>4, <3>1, <3>2
  <2> QED BY <1>3, <2>5, <2>6 DEF TakenSoFar, Y
<1>7. CASE ~(j < o)
  <2>1. 7 - j \notin L
      BY <1>7
  <2>2. Y = BitStep(X)
      BY <1>4, <2>1 DEF BitAt, Xor
  <2>3. X # {} => Y # {}
      BY <1>3, <2>2, BitStepKeeps
  <2>4. A # {} \/ (\E k \in L : k > 7 - (j + 1)) => Y # {}
      BY <1>1, <1>5, <2>1, <2>3
  <2> QED BY <1>3, <1>7, <2>4 DEF TakenSoFar, Y
<1> QED BY <1>6, <1>7

(* Of a register and a byte that span 16 bits or less something is left,   *)
(* when the byte has come in at the bottom.                                *)
LEMMA EightTaken ==
    ASSUME NEW o \in 0 .. 8, NEW A \in Word, NEW L \in Octet,
           L \subseteq 8 - o .. 7, o > 0 => A \subseteq 0 .. 15 - o, A # {} \/ L # {}
    PROVE  Xor(EightBitSteps(A), L) # {}
<1> DEFINE Taken(j, crc) == TakenSoFar(A, L, o, j, crc)
<1>1. Taken(0, A)
  <2>1. HighestBits(L, 0) = {}
      BY DEF HighestBits
  <2>2. Xor(A, HighestBits(L, 0)) = A
      BY <2>1 DEF Xor
  <2>3. ~ \E k \in L : k > 7 - 0
      BY DEF Octet
  <2> QED BY <2>2, <2>3 DEF TakenSoFar
<1>2. \A crc : \A j \in 0 .. 7 : Taken(j, crc) => Taken(j + 1, BitStep(crc))
    BY OneTaken
<1> HIDE DEF Taken
<1>3. \A crc : /\ Taken(0, crc) => Taken(1, BitStep(crc))
               /\ Taken(1, crc) => Taken(2, BitStep(crc))
               /\ Taken(2, crc) => Taken(3, BitStep(crc))
               /\ Taken(3, crc) => Taken(4, BitStep(crc))
    BY <1>2
<1>4. \A crc : /\ Taken(4, crc) => Taken(5, BitStep(crc))
               /\ Taken(5, crc) => Taken(6, BitStep(crc))
               /\ Taken(6, crc) => Taken(7, BitStep(crc))
               /\ Taken(7, crc) => Taken(8, BitStep(crc))
    BY <1>2
<1>5. Taken(4, BitStep(BitStep(BitStep(BitStep(A)))))
    BY <1>1, <1>3
<1>6. Taken(8, EightBitSteps(A))
    BY <1>4, <1>5 DEF EightBitSteps
<1>7. HighestBits(L, 8) = L
  <2>1. \A m \in 0 .. 7 : m < 8 /\ m + (8 - 8) = m
      OBVIOUS
  <2>2. L \subseteq 0 .. 7
      BY DEF Octet
  <2>3. \A m : m \in HighestBits(L, 8) <=> m \in L
      BY <2>1, <2>2 DEF HighestBits
  <2> QED BY <2>3
<1>8. \A k \in L : k > 7 - 8
  <2>1. \A k \in 0 .. 7 : k > 7 - 8
      OBVIOUS
  <2> QED BY <2>1 DEF Octet
<1> QED BY <1>6, <1>7, <1>8 DEF Taken, TakenSoFar

(* Eight shifts bring the low byte of a register to its top.               *)
LEMMA LowToTop ==
    ASSUME NEW b \in Octet
    PROVE  b \in Word /\ AtTop(b) \in Word /\ EightBitSteps(b) = AtTop(b)
<1> DEFINE Up(n) == {k + n : k \in b}
<1>1. \A k \in b : k \in 0 .. 7
    BY DEF Octet
<1>2. \A n \in 0 .. 7 : BitStep(Up(n)) = Up(n + 1)
  <2> TAKE n \in 0 .. 7
  <2>1. TopBit \notin Up(n)
      BY <1>1 DEF TopBit
  <2>2. BitStep(Up(n)) = {m + 1 : m \in Up(n)}
      BY <2>1 DEF BitStep, ShiftLeft
  <2>3. \A k \in b : (k + n) + 1 = k + (n + 1)
      BY <1>1
  <2>4. {m + 1 : m \in Up(n)} = {(k + n) + 1 : k \in b}
      OBVIOUS
  <2> QED BY <2>2, <2>3, <2>4
<1>3. Up(0) = b
    BY <1>1
<1>4. Up(8) = AtTop(b)
    BY DEF AtTop
<1> HIDE DEF Up
<1>5. /\ BitStep(b) = Up(1)
      /\ BitStep(Up(1)) = Up(2)
      /\ BitStep(Up(2)) = Up(3)
      /\ BitStep(Up(3)) = Up(4)
    BY <1>2, <1>3
<1>6. /\ BitStep(Up(4)) = Up(5)
      /\ BitStep(Up(5)) = Up(6)
      /\ BitStep(Up(6)) = Up(7)
      /\ BitStep(Up(7)) = Up(8)
    BY <1>2
<1>7. EightBitSteps(b) = AtTop(b)
    BY <1>4, <1>5, <1>6 DEF EightBitSteps
<1>8. b \in Word /\ AtTop(b) \in Word
    BY <1>1 DEF AtTop, Word
<1> QED BY <1>7, <1>8

(* A byte that has a bit has a lowest one.                                 *)
LEMMA LowestBit ==
    ASSUME NEW b \in Octet, b # {}
    PROVE  \E k \in b : \A m \in b : m >= k
<1> SUFFICES ASSUME \A k \in b : \E m \in b : m < k PROVE FALSE
    BY DEF Octet
<1>1. 0 \notin b
    BY DEF Octet
<1>2. 1 \notin b
    BY <1>1 DEF Octet
<1>3. 2 \notin b
    BY <1>1, <1>2 DEF Octet
<1>4. 3 \notin b
    BY <1>1, <1>2, <1>3 DEF Octet
<1>5. 4 \notin b
    BY <1>1, <1>2, <1>3, <1>4 DEF Octet
<1>6. 5 \notin b
    BY <1>1, <1>2, <1>3, <1>4, <1>5 DEF Octet
<1>7. 6 \notin b
    BY <1>1, <1>2, <1>3, <1>4, <1>5, <1>6 DEF Octet
<1>8. 7 \notin b
    BY <1>1, <1>2, <1>3, <1>4, <1>5, <1>6, <1>7 DEF Octet
<1>9. PICK k \in b : k \in 0 .. 7
    BY DEF Octet
<1>10. k \in {0, 1, 2, 3, 4, 5, 6, 7}
    BY <1>9
<1> QED BY <1>1, <1>2, <1>3, <1>4, <1>5, <1>6, <1>7, <1>8, <1>9, <1>10

-----------------------------------------------------------------------------
(* The bits of a word after one shift.                                     *)
LEMMA ShiftedBits ==
    ASSUME NEW A \in Word
    PROVE  /\ BitStep(A) \in Word
           /\ 0 \in BitStep(A) <=> 15 \in A
           /\ 5 \in BitStep(A) <=> ~(4 \in A <=> 15 \in A)
           /\ 12 \in BitStep(A) <=> ~(11 \in A <=> 15 \in A)
           /\ \A k \in {1, 2, 3, 4, 6, 7, 8, 9, 10, 11, 13, 14, 15} :
                  k \in BitStep(A) <=> k - 1 \in A
<1>1. \A k \in 0 .. 15 : k \in ShiftLeft(A) <=> k # 0 /\ k - 1 \in A
    BY DEF ShiftLeft, Word, TopBit
<1>2. \A k : k \in BitStep(A) <=> ~(k \in ShiftLeft(A) <=> 15 \in A /\ k \in Poly)
    BY DEF BitStep, Xor, TopBit
<1>3. \A k \in 0 .. 15 : k \in Poly <=> k \in {0, 5, 12}
    BY DEF Poly
<1>4. ShiftLeft(A) \in Word /\ Poly \in Word
    BY DEF ShiftLeft, Word, TopBit, Poly
<1>5. BitStep(A) \in Word
    BY <1>2, <1>4 DEF Word
<1>6. \A k \in 0 .. 15 : k \in BitStep(A) <=> ~(k # 0 /\ k - 1 \in A <=> 15 \in A /\ k \in {0, 5, 12})
    BY <1>1, <1>2, <1>3
<1> QED BY <1>5, <1>6

(* The bits of a word after eight: what each bit of the high byte makes of *)
(* the register is the bit itself, and the one four places above it, at    *)
(* each of the three places of the polynomial.                             *)
LEMMA BitsAfterEight ==
    ASSUME NEW A \in Word
    PROVE  LET B == EightBitSteps(A)
               T(k) == ~(k + 8 \in A <=> k + 12 \in A)
           IN  /\ B \in Word
               /\ 0 \in B <=> T(0)
               /\ 1 \in B <=> T(1)
               /\ 2 \in B <=> T(2)
               /\ 3 \in B <=> T(3)
               /\ 4 \in B <=> 12 \in A
               /\ 5 \in B <=> ~(13 \in A <=> T(0))
               /\ 6 \in B <=> ~(14 \in A <=> T(1))
               /\ 7 \in B <=> ~(15 \in A <=> T(2))
               /\ 8 \in B <=> ~(0 \in A <=> T(3))
               /\ 9 \in B <=> ~(1 \in A <=> 12 \in A)
               /\ 10 \in B <=> ~(2 \in A <=> 13 \in A)
               /\ 11 \in B <=> ~(3 \in A <=> 14 \in A)
               /\ 12 \in B <=> ~(4 \in A <=> ~(15 \in A <=> T(0)))
               /\ 13 \in B <=> ~(5 \in A <=> T(1))
               /\ 14 \in B <=> ~(6 \in A <=> T(2))
               /\ 15 \in B <=> ~(7 \in A <=> T(3))
<1> DEFINE A1 == BitStep(A)
           A2 == BitStep(A1)
           A3 == BitStep(A2)
           A4 == BitStep(A3)
           A5 == BitStep(A4)
           A6 == BitStep(A5)
           A7 == BitStep(A6)
           A8 == BitStep(A7)
           Shifted(C, D) == /\ D \in Word
                            /\ 0 \in D <=> 15 \in C
                            /\ 1 \in D <=> 0 \in C
                            /\ 2 \in D <=> 1 \in C
                            /\ 3 \in D <=> 2 \in C
                            /\ 4 \in D <=> 3 \in C
                            /\ 5 \in D <=> ~(4 \in C <=> 15 \in C)
                            /\ 6 \in D <=> 5 \in C
                            /\ 7 \in D <=> 6 \in C
                            /\ 8 \in D <=> 7 \in C
                            /\ 9 \in D <=> 8 \in C
                            /\ 10 \in D <=> 9 \in C
                            /\ 11 \in D <=> 10 \in C
                            /\ 12 \in D <=> ~(11 \in C <=> 15 \in C)
                            /\ 13 \in D <=> 12 \in C
                            /\ 14 \in D <=> 13 \in C
                            /\ 15 \in D <=> 14 \in C
<1>1. \A C \in Word : Shifted(C, BitStep(C))
    BY ShiftedBits
<1>2. EightBitSteps(A) = A8
    BY DEF EightBitSteps
<1>3. Shifted(A, A1) /\ Shifted(A1, A2) /\ Shifted(A2, A3) /\ Shifted(A3, A4)
    BY <1>1
<1>4. Shifted(A4, A5) /\ Shifted(A5, A6) /\ Shifted(A6, A7) /\ Shifted(A7, A8)
    BY <1>1, <1>3
<1> HIDE DEF A1, A2, A3, A4, A5, A6, A7, A8
<1> QED BY <1>2, <1>3, <1>4

(* The last two bytes of the message, damaged in a and b, do not change    *)
(* the register as the damage f and g changes the field, when the bits of  *)
(* a, b, f and g lie within 12.  The register forgets nothing: f and g     *)
(* would have to hold bits of a and b, and their images at the places of   *)
(* the polynomial, which 12 bits across the boundary have no room for.     *)
LEMMA BurstAcross ==
    ASSUME NEW a \in Octet, NEW b \in Octet, NEW f \in Octet, NEW g \in Octet,
           a \cup b # {}, f \cup g # {},
           a # {} => g = {},
           \A k \in a, m \in f : k <= m - 5,
           \A k \in b, m \in f : k <= m + 3,
           \A k \in b, m \in g : k <= m - 5
    PROVE  ByteStep(ByteStep({}, a), b) # LittleEndian(f, g)
<1> DEFINE A == AtTop(a)
           B == EightBitSteps(A)
           C == Xor(B, AtTop(b))
           D == EightBitSteps(C)
           T(X, k) == ~(k + 8 \in X <=> k + 12 \in X)
           After(X, Y) == /\ 0 \in Y <=> T(X, 0)
                          /\ 1 \in Y <=> T(X, 1)
                          /\ 2 \in Y <=> T(X, 2)
                          /\ 3 \in Y <=> T(X, 3)
                          /\ 4 \in Y <=> 12 \in X
                          /\ 5 \in Y <=> ~(13 \in X <=> T(X, 0))
                          /\ 6 \in Y <=> ~(14 \in X <=> T(X, 1))
                          /\ 7 \in Y <=> ~(15 \in X <=> T(X, 2))
                          /\ 8 \in Y <=> ~(0 \in X <=> T(X, 3))
                          /\ 9 \in Y <=> ~(1 \in X <=> 12 \in X)
                          /\ 10 \in Y <=> ~(2 \in X <=> 13 \in X)
                          /\ 11 \in Y <=> ~(3 \in X <=> 14 \in X)
                          /\ 12 \in Y <=> ~(4 \in X <=> ~(15 \in X <=> T(X, 0)))
                          /\ 13 \in Y <=> ~(5 \in X <=> T(X, 1))
                          /\ 14 \in Y <=> ~(6 \in X <=> T(X, 2))
                          /\ 15 \in Y <=> ~(7 \in X <=> T(X, 3))
<1>1. A \in Word /\ AtTop(b) \in Word
    BY DEF AtTop, Octet, Word
<1>2. \A X \in Word : EightBitSteps(X) \in Word /\ After(X, EightBitSteps(X))
    BY BitsAfterEight
<1>3. B \in Word /\ After(A, B)
    BY <1>1, <1>2
<1>4. C \in Word
    BY <1>1, <1>3 DEF Xor, Word
<1>5. After(C, D)
    BY <1>2, <1>4
<1>6. ByteStep(ByteStep({}, a), b) = D
    BY DEF ByteStep, AtTop, Xor
<1>7. \A k \in 0 .. 7 : k \notin A /\ (k + 8 \in A <=> k \in a)
    BY DEF AtTop, Octet
<1>8. \A k \in 0 .. 7 : (k \in C <=> k \in B) /\ (k + 8 \in C <=> ~(k + 8 \in B <=> k \in b))
    BY DEF AtTop, Octet, Xor
<1> SUFFICES ASSUME D = LittleEndian(f, g) PROVE FALSE
    BY <1>6
<1>9. \A k \in 0 .. 7 : (k \in D <=> k \in f) /\ (k + 8 \in D <=> k \in g)
    BY DEF LittleEndian, Octet
<1>10. \A k \in a \cup b \cup f \cup g : k \in 0 .. 7
    BY DEF Octet
<1> HIDE DEF A, B, C, D
<1>11. CASE a = {} /\ g = {}
  <2>1. /\ \A k \in 0 .. 7 : k \notin A /\ k + 8 \notin A
        /\ \A k \in 0 .. 7 : k + 8 \notin D
      BY <1>7, <1>9, <1>11
  <2>2. \A k \in 0 .. 7 : k \notin B /\ k + 8 \notin B
      BY <1>3, <2>1
  <2>3. \A k \in 0 .. 7 : k \notin C /\ (k + 8 \in C <=> k \in b)
      BY <1>8, <2>2
  <2>4. /\ 1 \notin b /\ 2 \notin b /\ 4 \notin b /\ 5 \notin b /\ 6 \notin b
        /\ 7 \in b <=> 0 \in b
        /\ 3 \in b <=> 0 \in b
      BY <1>5, <2>1, <2>3
  <2>5. 7 \in b
      BY <1>10, <1>11, <2>4
  <2>6. 0 \in f
      BY <1>5, <1>9, <2>3, <2>4, <2>5
  <2> QED BY <2>5, <2>6
<1>12. CASE a = {} /\ g # {}
  <2>1. \A k \in 0 .. 7 : k \notin A /\ k + 8 \notin A
      BY <1>7, <1>12
  <2>2. \A k \in 0 .. 7 : k \notin B /\ k + 8 \notin B
      BY <1>3, <2>1
  <2>3. \A k \in 0 .. 7 : k \notin C /\ (k + 8 \in C <=> k \in b)
      BY <1>8, <2>2
  <2>4. \A k \in b : k \in {0, 1, 2}
      BY <1>10, <1>12
  <2>5. /\ 4 \in g <=> 0 \in b
        /\ 5 \in g <=> 1 \in b
        /\ 6 \in g <=> 2 \in b
      BY <1>5, <1>9, <2>3, <2>4
  <2> QED BY <1>12, <2>4, <2>5
<1>13. CASE a # {}
  <2>1. /\ \A k \in a : k \in {0, 1, 2}
        /\ \A k \in f : k \in {5, 6, 7}
        /\ g = {}
      BY <1>10, <1>13
  <2>2. /\ 0 \in B <=> 0 \in a
        /\ 1 \in B <=> 1 \in a
        /\ 2 \in B <=> 2 \in a
        /\ 5 \in B <=> 0 \in a
        /\ 6 \in B <=> 1 \in a
        /\ 7 \in B <=> 2 \in a
      BY <1>3, <1>7, <2>1
  <2>3. /\ ~T(C, 0) /\ ~T(C, 1) /\ ~T(C, 2) /\ ~T(C, 3)
        /\ 13 \notin D /\ 14 \notin D /\ 15 \notin D
      BY <1>5, <1>9, <2>1
  <2>4. 5 \notin C /\ 6 \notin C /\ 7 \notin C
      BY <1>5, <2>3
  <2>5. 0 \notin a /\ 1 \notin a /\ 2 \notin a
      BY <1>8, <2>2, <2>4
  <2> QED BY <1>13, <2>1, <2>5
<1> QED BY <1>11, <1>12, <1>13

-----------------------------------------------------------------------------
\* The register with the next two bytes of the error brought in: what is left
\* of the whole error, when there is no more of it.
Ahead == Xor(Xor(errorCrc, AtTop(ErrorInByte(error, i + 1))), ErrorInByte(error, i + 2))

\* What the register makes of the last two bytes of the error alone.
LastTwo == ByteStep(ByteStep({}, ErrorInByte(error, i - 1)), ErrorInByte(error, i))

Burst == error # {} /\ \A j, k \in error : j < k + 16

\* A burst that the register has seen all of leaves something there; before
\* the first bit of the error the register is empty, and in the two bytes
\* that follow it holds nothing else.
BurstInv ==
    /\ CrcInv
    /\ error \subseteq 0 .. 8 * (Len(data) + 2) - 1
    /\ (\A k \in error : k >= 8 * i) => errorCrc = {}
    /\ (\A k \in error : k + 16 >= 8 * i) => errorCrc = LastTwo
    /\ Burst /\ error \subseteq 0 .. 8 * i + 15 => Ahead # {}

(* A byte of the error is a byte, and holds the bits of its eight places.  *)
LEMMA ErrorBits ==
    ASSUME NEW n \in Nat
    PROVE  /\ ErrorInByte(error, n + 1) \in Octet
           /\ \A k \in 0 .. 7 : k \in ErrorInByte(error, n + 1) <=> 8 * n + (7 - k) \in error
<1>1. (n + 1) - 1 = n
    OBVIOUS
<1> QED BY <1>1 DEF ErrorInByte, Octet

(* A position of the error belongs to the byte it falls in.                *)
LEMMA BitOfPosition ==
    ASSUME NEW n \in Nat, NEW p \in error, p \in 8 * n .. 8 * n + 7
    PROVE  (8 * n + 7) - p \in ErrorInByte(error, n + 1)
<1> DEFINE k == (8 * n + 7) - p
<1>1. k \in 0 .. 7 /\ 8 * n + (7 - k) = p
    OBVIOUS
<1> HIDE DEF k
<1>2. k \in ErrorInByte(error, n + 1)
    BY <1>1, ErrorBits
<1> QED BY <1>2 DEF k

(* What is ahead is a word, and is taken in with the byte after it.        *)
LEMMA AheadTakes ==
    ASSUME BurstInv, Update
    PROVE  /\ Ahead \in Word
           /\ Ahead' = Xor(EightBitSteps(Ahead), ErrorInByte(error, i + 3))
<1> DEFINE A == errorCrc
           first == ErrorInByte(error, i + 1)
           second == ErrorInByte(error, i + 2)
           third == ErrorInByte(error, i + 3)
<1>1. i \in Nat /\ A \in Word
    BY DEF BurstInv, CrcInv
<1>2. first \in Octet /\ second \in Octet /\ third \in Octet
    BY <1>1 DEF ErrorInByte, Octet
<1>3. AtTop(first) \in Word /\ second \in Word
    BY <1>2, LowToTop
<1>4. Xor(A, AtTop(first)) \in Word
    BY <1>1, <1>3, BitStepLinear
<1>5. Ahead = Xor(Xor(A, AtTop(first)), second)
    BY DEF Ahead
<1>6. i' = i + 1 /\ error' = error /\ A' = ByteStep(A, first)
    BY DEF Update
<1>7. A' = EightBitSteps(Xor(A, AtTop(first)))
    BY <1>6 DEF ByteStep, AtTop
<1>8. EightBitSteps(Ahead) = Xor(A', AtTop(second))
    BY <1>2, <1>3, <1>4, <1>5, <1>7, EightBitStepsLinear, LowToTop
<1>9. Ahead' = Xor(Xor(A', AtTop(second)), third)
  <2>1. i' + 1 = i + 2 /\ i' + 2 = i + 3
      BY <1>1, <1>6
  <2> QED BY <1>6, <2>1 DEF Ahead
<1> QED BY <1>3, <1>4, <1>5, <1>8, <1>9, BitStepLinear

(* The last byte of a burst to come in leaves something.                   *)
LEMMA BurstStep ==
    ASSUME BurstInv, Update, Burst, error \subseteq 0 .. 8 * (i + 1) + 15
    PROVE  Ahead' # {}
<1> DEFINE L == ErrorInByte(error, i + 3)
<1>1. i \in Nat /\ \A p \in error : p \in Nat /\ p <= 8 * i + 23
    BY DEF BurstInv, CrcInv
<1>2. Ahead \in Word /\ Ahead' = Xor(EightBitSteps(Ahead), L)
    BY AheadTakes
<1>3. i + 2 \in Nat /\ (i + 2) + 1 = i + 3 /\ 8 * (i + 2) = 8 * i + 16
    BY <1>1
<1>4. L \in Octet /\ \A k \in 0 .. 7 : k \in L <=> 8 * (i + 2) + (7 - k) \in error
  <2>1. \A n \in Nat : /\ ErrorInByte(error, n + 1) \in Octet
                        /\ \A k \in 0 .. 7 : k \in ErrorInByte(error, n + 1) <=> 8 * n + (7 - k) \in error
      BY ErrorBits
  <2>2. /\ ErrorInByte(error, (i + 2) + 1) \in Octet
        /\ \A k \in 0 .. 7 : k \in ErrorInByte(error, (i + 2) + 1) <=> 8 * (i + 2) + (7 - k) \in error
      BY <1>3, <2>1
  <2> QED BY <1>3, <2>2
<1> HIDE DEF L
<1>5. CASE L = {}
  <2>1. \A p \in error : p <= 8 * i + 15
    <3> SUFFICES ASSUME NEW p \in error, p > 8 * i + 15 PROVE FALSE
        BY <1>1
    <3>1. p \in 8 * (i + 2) .. 8 * (i + 2) + 7
        BY <1>1
    <3>2. (8 * (i + 2) + 7) - p \in ErrorInByte(error, (i + 2) + 1)
        BY <1>3, <3>1, BitOfPosition
    <3> QED BY <1>3, <1>5, <3>2 DEF L
  <2>2. error \subseteq 0 .. 8 * i + 15
      BY <1>1, <2>1
  <2>3. Ahead # {}
      BY <2>2 DEF BurstInv
  <2>4. 0 \in 0 .. 8 /\ L \subseteq 8 - 0 .. 7 /\ ~(0 > 0)
      BY <1>5
  <2> QED BY <1>2, <1>4, <2>3, <2>4, EightTaken
<1>6. CASE L # {}
  <2>1. PICK k \in L : \A m \in L : m >= k
      BY <1>4, <1>6, LowestBit
  <2>2. k \in 0 .. 7 /\ \A m \in L : m \in 0 .. 7
      BY <1>4 DEF Octet
  <2>3. 8 * (i + 2) + (7 - k) \in error
      BY <1>4, <2>2
  <2>4. \A p \in error : 8 * (i + 2) + (7 - k) < p + 16
      BY <2>3 DEF Burst
  <2>5. \A p \in error : p >= 8 * i + (8 - k)
      BY <1>1, <2>2, <2>4
  <2>6. errorCrc = {}
    <3>1. \A p \in error : p >= 8 * i
        BY <1>1, <2>2, <2>5
    <3> QED BY <3>1 DEF BurstInv
  <2>7. \A m \in ErrorInByte(error, i + 1) : m \in 0 .. k - 1
    <3> SUFFICES ASSUME NEW m \in ErrorInByte(error, i + 1) PROVE m \in 0 .. k - 1
        OBVIOUS
    <3>1. m \in 0 .. 7 /\ 8 * i + (7 - m) \in error
        BY <1>1, ErrorBits DEF Octet
    <3>2. 8 * i + (7 - m) >= 8 * i + (8 - k)
        BY <2>5, <3>1
    <3> QED BY <1>1, <2>2, <3>1, <3>2
  <2>8. \A m \in ErrorInByte(error, i + 2) : m \in 0 .. 7
      BY DEF ErrorInByte
  <2>9. \A m \in Ahead : m \in 0 .. 7 + k
    <3>1. Ahead \subseteq AtTop(ErrorInByte(error, i + 1)) \cup ErrorInByte(error, i + 2)
        BY <2>6 DEF Ahead, Xor
    <3>2. \A m \in AtTop(ErrorInByte(error, i + 1)) : m \in 0 .. 7 + k
        BY <2>2, <2>7 DEF AtTop
    <3>3. \A m \in 0 .. 7 : m \in 0 .. 7 + k
        BY <2>2
    <3> QED BY <2>8, <3>1, <3>2, <3>3
  <2> DEFINE o == 8 - k
  <2>10. o \in 0 .. 8 /\ 8 - o = k /\ 15 - o = 7 + k
      BY <2>2
  <2>11. L \subseteq 8 - o .. 7
      BY <2>1, <2>2, <2>10
  <2>12. Ahead \subseteq 0 .. 15 - o
      BY <2>9, <2>10
  <2> HIDE DEF o
  <2> QED BY <1>2, <1>4, <1>6, <2>10, <2>11, <2>12, EightTaken
<1> QED BY <1>5, <1>6

(* A register and a byte that are empty leave an empty register.           *)
LEMMA NothingTaken == ByteStep({}, {}) = {}
<1>1. ByteStep({}, {}) = EightBitSteps(Xor({}, AtTop({})))
    BY DEF ByteStep, AtTop
<1>2. AtTop({}) = {} /\ Xor({}, {}) = {} /\ {} \in Octet
    BY DEF AtTop, Xor, Octet
<1> QED BY <1>1, <1>2, LowToTop

(* A damaged bit of the field is in one of its bytes, and a damaged bit of *)
(* the sixteen before it in one of the two bytes there.                    *)
LEMMA FieldHit ==
    ASSUME NEW n \in Nat, NEW p \in 8 * n .. 8 * n + 15, p \in error
    PROVE  ErrorInByte(error, n + 1) \cup ErrorInByte(error, n + 2) # {}
<1>1. CASE p <= 8 * n + 7
  <2>1. (8 * n + 7) - p \in 0 .. 7 /\ 8 * ((n + 1) - 1) + (7 - ((8 * n + 7) - p)) = p
      BY <1>1
  <2> QED BY <2>1 DEF ErrorInByte
<1>2. CASE ~(p <= 8 * n + 7)
  <2>1. (8 * n + 15) - p \in 0 .. 7 /\ 8 * ((n + 2) - 1) + (7 - ((8 * n + 15) - p)) = p
      BY <1>2
  <2> QED BY <2>1 DEF ErrorInByte
<1> QED BY <1>1, <1>2

(* The same of the two bytes before.                                       *)
LEMMA MessageHit ==
    ASSUME NEW n \in Nat, NEW p \in 8 * n - 16 .. 8 * n - 1, p \in error
    PROVE  ErrorInByte(error, n - 1) \cup ErrorInByte(error, n) # {}
<1>1. CASE p <= 8 * n - 9
  <2>1. (8 * n - 9) - p \in 0 .. 7 /\ 8 * ((n - 1) - 1) + (7 - ((8 * n - 9) - p)) = p
      BY <1>1
  <2> QED BY <2>1 DEF ErrorInByte
<1>2. CASE ~(p <= 8 * n - 9)
  <2>1. (8 * n - 1) - p \in 0 .. 7 /\ 8 * (n - 1) + (7 - ((8 * n - 1) - p)) = p
      BY <1>2
  <2> QED BY <2>1 DEF ErrorInByte
<1> QED BY <1>1, <1>2

(* What the error makes of the field is the field, and the error in it.    *)
LEMMA ReceivedField ==
    ASSUME CrcInv
    PROVE  ReceivedCrc = Xor(sentCrc, LittleEndian(ErrorInByte(error, Len(data) + 1),
                                                   ErrorInByte(error, Len(data) + 2)))
<1> DEFINE f == ErrorInByte(error, Len(data) + 1)
           g == ErrorInByte(error, Len(data) + 2)
<1>1. f \subseteq 0 .. 7 /\ g \subseteq 0 .. 7
    BY DEF ErrorInByte
<1>2. ReceivedCrc = LittleEndian(Xor(LowByte(sentCrc), f), Xor(HighByte(sentCrc), g))
    BY DEF ReceivedCrc
<1> HIDE DEF f, g
<1>3. \A x, y \in SUBSET (0 .. 7) : \A k :
          k \in LittleEndian(x, y) <=> k \in x \/ (k \in 8 .. 15 /\ k - 8 \in y)
    BY DEF LittleEndian
<1>4. sentCrc \subseteq 0 .. 15
    BY DEF CrcInv, Word
<1>5. /\ Xor(LowByte(sentCrc), f) \subseteq 0 .. 7
      /\ Xor(HighByte(sentCrc), g) \subseteq 0 .. 7
    BY <1>1 DEF Xor, LowByte, HighByte
<1> DEFINE low == Xor(LowByte(sentCrc), f)
           high == Xor(HighByte(sentCrc), g)
<1>6. \A k : k \in ReceivedCrc <=> k \in low \/ (k \in 8 .. 15 /\ k - 8 \in high)
  <2>1. low \in SUBSET (0 .. 7) /\ high \in SUBSET (0 .. 7) /\ ReceivedCrc = LittleEndian(low, high)
      BY <1>2, <1>5
  <2> HIDE DEF low, high
  <2> QED BY <1>3, <2>1
<1>7. \A k : k \in LittleEndian(f, g) <=> k \in f \/ (k \in 8 .. 15 /\ k - 8 \in g)
    BY <1>1, <1>3
<1>8. \A k \in 8 .. 15 : k - 8 \in 0 .. 7 /\ (k - 8) + 8 = k /\ k \notin 0 .. 7
    OBVIOUS
<1>9. \A k \in 8 .. 15 : k - 8 \in HighByte(sentCrc) <=> k \in sentCrc
    BY <1>8 DEF HighByte
<1>10. \A k : k \in sentCrc => k \in 0 .. 7 \/ k \in 8 .. 15
    BY <1>4
<1>11. \A k : k \in ReceivedCrc <=> k \in Xor(sentCrc, LittleEndian(f, g))
  <2> DEFINE F == LittleEndian(f, g)
  <2>1. \A x, y : \A k : k \in Xor(x, y) <=> ~(k \in x <=> k \in y)
      BY DEF Xor
  <2>2. \A k : k \in LowByte(sentCrc) <=> k \in sentCrc /\ k \in 0 .. 7
      BY DEF LowByte
  <2>3. \A k : k \in low <=> ~(k \in sentCrc /\ k \in 0 .. 7 <=> k \in f)
      BY <2>1, <2>2
  <2>4. \A k \in 8 .. 15 : k - 8 \in high <=> ~(k \in sentCrc <=> k - 8 \in g)
      BY <1>9, <2>1
  <2>5. \A k : k \in Xor(sentCrc, F) <=> ~(k \in sentCrc <=> k \in F)
      BY <2>1
  <2>6. \A k : k \in F <=> k \in f \/ (k \in 8 .. 15 /\ k - 8 \in g)
      BY <1>7
  <2>7. \A k : k \in f => k \in 0 .. 7
      BY <1>1
  <2>8. \A k : ~(k \in 0 .. 7 /\ k \in 8 .. 15)
      OBVIOUS
  <2> HIDE DEF F, low, high
  <2>9. \A k \in 8 .. 15 : k \in ReceivedCrc <=> k \in Xor(sentCrc, F)
      BY <1>6, <2>3, <2>4, <2>5, <2>6, <2>7, <2>8
  <2>10. ASSUME NEW k, k \notin 8 .. 15 PROVE k \in ReceivedCrc <=> k \in Xor(sentCrc, F)
      BY <1>6, <1>10, <2>3, <2>5, <2>6, <2>7, <2>10
  <2> QED BY <2>9, <2>10 DEF F
<1>12. ReceivedCrc = Xor(sentCrc, LittleEndian(f, g))
    BY <1>11
<1> QED BY <1>12 DEF f, g

(* When the register has seen the whole message, it has not changed as the *)
(* field has: damage in the message alone leaves something in the          *)
(* register, damage in the field alone leaves the register as it was, and  *)
(* 12 bits across the boundary are too few.                                *)
LEMMA DetectedAtEnd == BurstInv => BurstsDetected
<1> SUFFICES ASSUME BurstInv, Done, NarrowBurst \/ OneSidedBurst
             PROVE  gotCrc # ReceivedCrc
    BY DEF BurstsDetected, CrcMatches
<1> DEFINE a == ErrorInByte(error, i - 1)
           b == ErrorInByte(error, i)
           f == ErrorInByte(error, i + 1)
           g == ErrorInByte(error, i + 2)
<1>1. i \in Nat /\ i = Len(data) /\ \A p \in error : p \in Nat /\ p <= 8 * i + 15
    BY DEF BurstInv, CrcInv, Done
<1>2. error # {} /\ \A j, k \in error : j < k + 16
    BY <1>1 DEF NarrowBurst, OneSidedBurst
<1>3. a \in Octet /\ b \in Octet /\ f \in Octet /\ g \in Octet
    BY DEF ErrorInByte, Octet
<1>4. \A k \in 0 .. 7 : /\ k \in a <=> 8 * i + (0 - 9 - k) \in error
                        /\ k \in b <=> 8 * i + (0 - 1 - k) \in error
                        /\ k \in f <=> 8 * i + (7 - k) \in error
                        /\ k \in g <=> 8 * i + (15 - k) \in error
  <2>1. \A k \in 0 .. 7 : /\ 8 * ((i - 1) - 1) + (7 - k) = 8 * i + (0 - 9 - k)
                          /\ 8 * (i - 1) + (7 - k) = 8 * i + (0 - 1 - k)
                          /\ 8 * ((i + 1) - 1) + (7 - k) = 8 * i + (7 - k)
                          /\ 8 * ((i + 2) - 1) + (7 - k) = 8 * i + (15 - k)
      BY <1>1
  <2> QED BY <2>1 DEF ErrorInByte
<1> SUFFICES errorCrc # LittleEndian(f, g)
  <2>1. ReceivedCrc = Xor(sentCrc, LittleEndian(f, g))
      BY <1>1, ReceivedField DEF BurstInv
  <2>2. Xor(sentCrc, gotCrc) = errorCrc
      BY DEF BurstInv, CrcInv
  <2> QED BY <2>1, <2>2 DEF Xor
<1>5. CASE \A p \in error : p < 8 * i
  <2>1. f = {} /\ g = {}
    <3>1. \A k \in 0 .. 7 : ~(8 * i + (7 - k) < 8 * i) /\ ~(8 * i + (15 - k) < 8 * i)
        BY <1>1
    <3>2. \A k \in f \cup g : k \in 0 .. 7
        BY <1>3 DEF Octet
    <3> QED BY <1>4, <1>5, <3>1, <3>2
  <2>2. error \subseteq 0 .. 8 * i + 15
      BY <1>1
  <2>3. Ahead # {}
      BY <1>2, <2>2 DEF BurstInv, Burst
  <2>4. Ahead = errorCrc
      BY <2>1 DEF Ahead, Xor, AtTop
  <2>5. LittleEndian(f, g) = {}
      BY <2>1 DEF LittleEndian
  <2> QED BY <2>3, <2>4, <2>5
<1>6. CASE \A p \in error : p >= 8 * i
  <2>1. errorCrc = {}
      BY <1>6 DEF BurstInv
  <2>2. PICK p \in error : p \in 8 * i .. 8 * i + 15
      BY <1>1, <1>2, <1>6
  <2>3. f \cup g # {}
      BY <1>1, <1>4, <2>2, FieldHit
  <2>4. LittleEndian(f, g) # {}
      BY <2>3 DEF LittleEndian
  <2> QED BY <2>1, <2>4
<1>7. ASSUME NEW p \in error, p < 8 * i, NEW q \in error, q >= 8 * i
      PROVE  errorCrc # LittleEndian(f, g)
  <2>1. \A j, k \in error : j < k + 12
      BY <1>1, <1>7 DEF NarrowBurst, OneSidedBurst, InField
  <2>2. \A k \in error : k + 11 >= 8 * i
      BY <1>1, <1>7, <2>1
  <2>3. errorCrc = ByteStep(ByteStep({}, a), b)
    <3>1. \A k \in error : k + 16 >= 8 * i
        BY <1>1, <2>2
    <3> QED BY <3>1 DEF BurstInv, LastTwo
  <2>4. a \cup b # {}
    <3>1. p \in 8 * i - 16 .. 8 * i - 1
        BY <1>1, <1>7, <2>2
    <3> QED BY <1>1, <1>4, <3>1, MessageHit
  <2>5. f \cup g # {}
    <3>1. q \in 8 * i .. 8 * i + 15
        BY <1>1, <1>7
    <3> QED BY <1>1, <1>4, <3>1, FieldHit
  <2>6. \A k \in a \cup b \cup f \cup g : k \in 0 .. 7
      BY <1>3 DEF Octet
  <2>7. /\ \A k \in a, m \in f : k <= m - 5
        /\ \A k \in b, m \in f : k <= m + 3
        /\ \A k \in b, m \in g : k <= m - 5
        /\ \A k \in a, m \in g : FALSE
    <3> HIDE DEF a, b, f, g
    <3> DEFINE n == 8 * i
    <3>1. n \in Nat
        BY <1>1
    <3>2. /\ \A k \in a : n + (0 - 9 - k) \in error
          /\ \A k \in b : n + (0 - 1 - k) \in error
          /\ \A k \in f : n + (7 - k) \in error
          /\ \A k \in g : n + (15 - k) \in error
        BY <1>4, <2>6
    <3> HIDE DEF n
    <3>3. ASSUME NEW k \in a, NEW m \in f PROVE k <= m - 5
      <4>1. k \in 0 .. 7 /\ m \in 0 .. 7
          BY <2>6
      <4>2. n + (7 - m) \in error /\ n + (0 - 9 - k) \in error
          BY <3>2
      <4>3. n + (7 - m) < (n + (0 - 9 - k)) + 12
          BY <2>1, <4>2
      <4> QED BY <3>1, <4>1, <4>3
    <3>4. ASSUME NEW k \in b, NEW m \in f PROVE k <= m + 3
      <4>1. k \in 0 .. 7 /\ m \in 0 .. 7
          BY <2>6
      <4>2. n + (7 - m) \in error /\ n + (0 - 1 - k) \in error
          BY <3>2
      <4>3. n + (7 - m) < (n + (0 - 1 - k)) + 12
          BY <2>1, <4>2
      <4> QED BY <3>1, <4>1, <4>3
    <3>5. ASSUME NEW k \in b, NEW m \in g PROVE k <= m - 5
      <4>1. k \in 0 .. 7 /\ m \in 0 .. 7
          BY <2>6
      <4>2. n + (15 - m) \in error /\ n + (0 - 1 - k) \in error
          BY <3>2
      <4>3. n + (15 - m) < (n + (0 - 1 - k)) + 12
          BY <2>1, <4>2
      <4> QED BY <3>1, <4>1, <4>3
    <3>6. ASSUME NEW k \in a, NEW m \in g PROVE FALSE
      <4>1. k \in 0 .. 7 /\ m \in 0 .. 7
          BY <2>6
      <4>2. n + (15 - m) \in error /\ n + (0 - 9 - k) \in error
          BY <3>2
      <4>3. n + (15 - m) < (n + (0 - 9 - k)) + 12
          BY <2>1, <4>2
      <4> QED BY <3>1, <4>1, <4>3
    <3> QED BY <3>3, <3>4, <3>5, <3>6
  <2> HIDE DEF a, b, f, g
  <2> QED BY <1>3, <2>3, <2>4, <2>5, <2>7, BurstAcross
<1> QED BY <1>1, <1>5, <1>6, <1>7

(* The bursts BurstsDetected speaks of are refused, in a message of any    *)
(* length and wherever they fall in it, in the field behind it or across   *)
(* the boundary of the two.                                                *)
THEOREM BurstsAreDetected == CrcSpec => []BurstsDetected
<1>1. CrcInit => BurstInv
  <2> SUFFICES ASSUME CrcInit PROVE BurstInv
      OBVIOUS
  <2>1. CrcInv
      BY CrcInvInductive
  <2>2. error \subseteq 0 .. 8 * (Len(data) + 2) - 1 /\ errorCrc = {} /\ i = 0
      BY DEF CrcInit
  <2>3. ASSUME Burst, error \subseteq 0 .. 8 * i + 15 PROVE Ahead # {}
    <3>1. PICK p \in error : TRUE
        BY <2>3 DEF Burst
    <3>2. p \in 0 .. 15
        BY <2>2, <2>3
    <3>3. CASE p \in 0 .. 7
      <4>1. p \in 8 * 0 .. 8 * 0 + 7
          BY <3>3
      <4>2. (8 * 0 + 7) - p \in ErrorInByte(error, 0 + 1)
          BY <4>1, BitOfPosition
      <4>3. \E k \in ErrorInByte(error, i + 1) : TRUE
          BY <2>2, <4>2
      <4>4. PICK k \in ErrorInByte(error, i + 1) : k \in 0 .. 7
          BY <4>3 DEF ErrorInByte
      <4>5. k + 8 \in AtTop(ErrorInByte(error, i + 1))
          BY DEF AtTop
      <4>6. k + 8 \notin ErrorInByte(error, i + 2)
          BY <4>4 DEF ErrorInByte
      <4>7. k + 8 \in Ahead
          BY <2>2, <4>5, <4>6 DEF Ahead, Xor
      <4> QED BY <4>7
    <3>4. CASE p \in 8 .. 15
      <4>1. p \in 8 * 1 .. 8 * 1 + 7
          BY <3>4
      <4>2. (8 * 1 + 7) - p \in ErrorInByte(error, 1 + 1)
          BY <4>1, BitOfPosition
      <4>3. \E k \in ErrorInByte(error, i + 2) : TRUE
          BY <2>2, <4>2
      <4>4. PICK k \in ErrorInByte(error, i + 2) : k \in 0 .. 7
          BY <4>3 DEF ErrorInByte
      <4>5. k \notin AtTop(ErrorInByte(error, i + 1))
          BY <4>4 DEF AtTop, ErrorInByte
      <4>6. k \in Ahead
          BY <2>2, <4>4, <4>5 DEF Ahead, Xor
      <4> QED BY <4>6
    <3> QED BY <3>2, <3>3, <3>4
  <2>4. errorCrc = LastTwo
    <3>1. \A n \in {i - 1, i} : ErrorInByte(error, n) = {}
      <4>1. \A p \in error : p >= 0
          BY <2>1, <2>2 DEF CrcInv
      <4>2. \A n \in {0 - 1, 0} : \A k \in 0 .. 7 : ~(8 * (n - 1) + (7 - k) >= 0)
          OBVIOUS
      <4> QED BY <2>2, <4>1, <4>2 DEF ErrorInByte
    <3> QED BY <2>2, <3>1, NothingTaken DEF LastTwo
  <2> QED BY <2>1, <2>2, <2>3, <2>4 DEF BurstInv
<1>2. BurstInv /\ [Update]_crcVars => BurstInv'
  <2> SUFFICES ASSUME BurstInv, Update PROVE BurstInv'
      BY DEF BurstInv, CrcInv, Burst, LastTwo, Ahead, crcVars
  <2>1. CrcInv'
      BY CrcInvInductive DEF BurstInv
  <2>2. i \in Nat /\ i' = i + 1 /\ error' = error /\ data' = data
      BY DEF Update, BurstInv, CrcInv
  <2>3. (error \subseteq 0 .. 8 * (Len(data) + 2) - 1)'
      BY <2>2 DEF BurstInv
  <2>4. ((\A k \in error : k >= 8 * i) => errorCrc = {})'
    <3> SUFFICES ASSUME \A k \in error : k >= 8 * (i + 1) PROVE errorCrc' = {}
        BY <2>2
    <3>1. \A k \in error : k \in Nat
        BY DEF BurstInv
    <3>2. \A k \in error : k >= 8 * i /\ ~(k <= 8 * i + 7)
        BY <2>2, <3>1
    <3>3. errorCrc = {}
        BY <3>2 DEF BurstInv
    <3>4. ErrorInByte(error, i + 1) = {}
      <4> SUFFICES ASSUME NEW m \in ErrorInByte(error, i + 1) PROVE FALSE
          OBVIOUS
      <4>1. m \in 0 .. 7 /\ 8 * i + (7 - m) \in error
          BY <2>2, ErrorBits DEF Octet
      <4>2. 8 * i + (7 - m) <= 8 * i + 7
          BY <2>2, <4>1
      <4> QED BY <3>2, <4>1, <4>2
    <3> QED BY <2>2, <3>3, <3>4, NothingTaken DEF Update
  <2>5. (Burst /\ error \subseteq 0 .. 8 * i + 15 => Ahead # {})'
    <3>1. Burst' <=> Burst
        BY <2>2 DEF Burst
    <3> QED BY <2>2, <3>1, BurstStep
  <2>6. ((\A k \in error : k + 16 >= 8 * i) => errorCrc = LastTwo)'
    <3> SUFFICES ASSUME \A k \in error : k + 16 >= 8 * (i + 1) PROVE errorCrc' = LastTwo'
        BY <2>2
    <3>1. \A k \in error : k \in Nat
        BY DEF BurstInv
    <3>2. \A k \in error : k + 16 >= 8 * i /\ k + 8 >= 8 * i
        BY <2>2, <3>1
    <3>3. errorCrc = LastTwo
        BY <3>2 DEF BurstInv
    <3>4. ErrorInByte(error, i - 1) = {}
      <4> SUFFICES ASSUME NEW m \in 0 .. 7, 8 * ((i - 1) - 1) + (7 - m) \in error PROVE FALSE
          BY DEF ErrorInByte
      <4>1. (8 * ((i - 1) - 1) + (7 - m)) + 8 >= 8 * i
          BY <3>2
      <4> QED BY <2>2, <4>1
    <3>5. errorCrc = ByteStep({}, ErrorInByte(error, i))
        BY <3>3, <3>4, NothingTaken DEF LastTwo
    <3>6. errorCrc' = ByteStep(errorCrc, ErrorInByte(error, i + 1))
        BY <2>2 DEF Update
    <3>7. i' - 1 = i
        BY <2>2
    <3> QED BY <2>2, <3>5, <3>6, <3>7 DEF LastTwo
  <2> QED BY <2>1, <2>3, <2>4, <2>5, <2>6 DEF BurstInv
<1>3. BurstInv => BurstsDetected
    BY DetectedAtEnd
<1> QED BY <1>1, <1>2, <1>3, PTL DEF CrcSpec

=============================================================================
