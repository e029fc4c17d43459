------------------------------- MODULE Crc16 -------------------------------
(***************************************************************************)
(* crc16_ccitt_update (src/crc16.cpp), run over the same number of bytes   *)
(* twice: by encode_frame (src/frame.cpp) over the message it sends and by *)
(* decode_region over the message it received, which it then compares with *)
(* the field that came behind it.  What is on the wire is the raw block:   *)
(* the message, then the two bytes of the field, the low one first; the    *)
(* error may be in any of it.  A word is the set of its bits that are 1,   *)
(* so that XOR is the symmetric difference and no integer is taken apart.  *)
(*                                                                         *)
(* The names of its specification are its own, so that one module can      *)
(* prove about the checksum and about framing.                             *)
(***************************************************************************)
EXTENDS Naturals, Sequences

CONSTANTS
    Messages,   \* the messages, sequences of bytes
    Errors      \* the errors, sets of bit positions in wire order

Octet == SUBSET (0 .. 7)
Word == SUBSET (0 .. 15)

ASSUME Crc16Assumption == Messages \subseteq Seq(Octet)

\* The polynomial 0x1021 and the initial value 0xFFFF.
Poly == {12, 5, 0}
InitialCrc == 0 .. 15
TopBit == 15

Xor(A, B) == (A \ B) \cup (B \ A)

ShiftLeft(crc) == {k + 1 : k \in crc \ {TopBit}}

\* Mutant: the polynomial is or-ed into the register.
BitStepOr(crc) == IF TopBit \in crc THEN ShiftLeft(crc) \cup Poly ELSE ShiftLeft(crc)

BitStep(crc) == IF TopBit \in crc THEN Xor(ShiftLeft(crc), Poly) ELSE ShiftLeft(crc)

EightBitSteps(crc) ==
    BitStep(BitStep(BitStep(BitStep(BitStep(BitStep(BitStep(BitStep(crc))))))))

\* One iteration of the loop over the data.
ByteStep(crc, byte) == EightBitSteps(Xor(crc, {k + 8 : k \in byte}))

\* The word of the two bytes of a field that is sent low byte first.
LittleEndian(low, high) == low \cup {k + 8 : k \in high}

LowByte(crc) == crc \cap (0 .. 7)
HighByte(crc) == {k \in 0 .. 7 : k + 8 \in crc}

\* The bits of byte number n (from 1) of the raw block that the error
\* inverts; the most significant bit of a byte counts as the first.
ErrorInByte(error, n) == {k \in 0 .. 7 : 8 * (n - 1) + (7 - k) \in error}

VARIABLES
    data, error,      \* the message and the error in it
    i,                \* the bytes both computations have taken
    sentCrc, gotCrc,  \* the two registers
    errorCrc          \* history: the register for the error alone, begun at 0

crcVars == <<data, error, i, sentCrc, gotCrc, errorCrc>>

CrcInit ==
    /\ data \in Messages
    /\ error \in Errors
    /\ error \subseteq 0 .. 8 * (Len(data) + 2) - 1
    /\ i = 0
    /\ sentCrc = InitialCrc
    /\ gotCrc = InitialCrc
    /\ errorCrc = {}

Update ==
    /\ i < Len(data)
    /\ i' = i + 1
    /\ sentCrc' = ByteStep(sentCrc, data[i'])
    /\ gotCrc' = ByteStep(gotCrc, Xor(data[i'], ErrorInByte(error, i')))
    /\ errorCrc' = ByteStep(errorCrc, ErrorInByte(error, i'))
    /\ UNCHANGED <<data, error>>

CrcSpec == CrcInit /\ [][Update]_crcVars

-----------------------------------------------------------------------------
Done == i = Len(data)

\* The field as it is received, put together again by decode_region.
ReceivedCrc ==
    LittleEndian(Xor(LowByte(sentCrc), ErrorInByte(error, Len(data) + 1)),
                 Xor(HighByte(sentCrc), ErrorInByte(error, Len(data) + 2)))

\* Mutant: the comparison is made in eight bits.
CrcMatchesLowByte == LowByte(gotCrc) = LowByte(ReceivedCrc)

\* decode_region goes on to write the frame out.
CrcMatches == gotCrc = ReceivedCrc

InField(k) == k >= 8 * Len(data)

\* The damaged bits lie within 12 consecutive bits of the raw block, or
\* within 16 that are all in the message or all in the field.
NarrowBurst == error # {} /\ \A j, k \in error : j < k + 12
OneSidedBurst ==
    /\ error # {}
    /\ \A j, k \in error : j < k + 16 /\ (InField(j) <=> InField(k))

(* decode_region refuses every raw block, of the length that was sent, in  *)
(* which a burst of at most 12 bits is inverted, wherever it falls, the    *)
(* CRC field and the boundary before it included, and every burst of at    *)
(* most 16 bits that stays on one side of that boundary.  The limit is     *)
(* that of the code, which sends the field low byte first: a burst of 13   *)
(* bits across the boundary can change the CRC and the field alike, and is *)
(* then accepted.                                                          *)
BurstsDetected == Done /\ (NarrowBurst \/ OneSidedBurst) => ~CrcMatches

(* The difference of the two registers depends on the error only, whatever *)
(* the message: it is what the register makes of the error from zero.  So  *)
(* an error is detected in one message if and only if it is in every other.*)
DifferenceIsOfError == Xor(sentCrc, gotCrc) = errorCrc

=============================================================================
