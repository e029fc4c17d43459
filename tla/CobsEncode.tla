----------------------------- MODULE CobsEncode -----------------------------
(***************************************************************************)
(* cobs_encode (src/cobs.cpp), one action per way through the body of its  *)
(* loop.  The input src and the capacity dstCap are chosen in the initial  *)
(* state and never change.  The output buffer starts as zeros, the one     *)
(* value a finished encoding may not contain, so a byte that the loop      *)
(* forgets to write shows up as a zero in the output.                      *)
(*                                                                         *)
(* The code byte 0xFF of the source is the constant MaxCode, so that TLC   *)
(* reaches full blocks with short inputs; bytes are 0 .. MaxCode.          *)
(***************************************************************************)
EXTENDS Integers, Sequences

CONSTANTS
    MaxCode,   \* 0xFF in the code: the largest code byte and largest byte
    Inputs,    \* the blocks given to the encoder
    Caps       \* the output capacities given to the encoder

Byte == 0 .. MaxCode

ASSUME CobsEncodeAssumption ==
    /\ MaxCode \in Nat /\ MaxCode >= 2
    /\ Inputs \subseteq Seq(Byte)
    /\ Caps \subseteq Nat

VARIABLES
    src, dstCap,        \* the arguments
    dst,                \* the output buffer, indexed from 0
    read, write,        \* next input byte, next free output byte
    codeIdx, code,      \* where the open block's code byte goes, its value
    pc,                 \* "entry", "loop" or "done"
    status, length      \* the result, meaningful when pc = "done"

vars == <<src, dstCap, dst, read, write, codeIdx, code, pc, status, length>>
args == <<src, dstCap>>

CobsStatus == {"Ok", "OutputTooSmall", "MalformedInput"}

Init ==
    /\ src \in Inputs
    /\ dstCap \in Caps
    /\ dst = [i \in 0 .. dstCap - 1 |-> 0]
    /\ read = 0
    /\ write = 1
    /\ codeIdx = 0
    /\ code = 1
    /\ pc = "entry"
    /\ status = "Ok"
    /\ length = 0

\* The call returns status s and length n.
Return(s, n) ==
    /\ pc' = "done"
    /\ status' = s
    /\ length' = n
    /\ UNCHANGED <<args, read, write, codeIdx, code>>

\* Mutant: the counter of a new block starts at 0.
OpenBlockAtZero(at) ==
    /\ codeIdx' = at /\ write' = at + 1 /\ code' = 0 /\ read' = read + 1
    /\ UNCHANGED <<args, pc, status, length>>

\* A new block opens at output index at: its code byte is held back.
OpenBlock(at) ==
    /\ codeIdx' = at
    /\ write' = at + 1
    /\ code' = 1
    /\ read' = read + 1
    /\ UNCHANGED <<args, pc, status, length>>

Enter ==
    /\ pc = "entry"
    /\ \/ /\ dstCap < 1
          /\ Return("OutputTooSmall", 0)
          /\ UNCHANGED dst
       \/ /\ dstCap >= 1
          /\ pc' = "loop"
          /\ UNCHANGED <<args, dst, read, write, codeIdx, code, status, length>>

InLoop == pc = "loop" /\ read < Len(src)
CurrentByte == src[read + 1]

\* A zero closes the open block; the zero itself is not written.
ZeroByte ==
    /\ InLoop
    /\ CurrentByte = 0
    /\ dst' = [dst EXCEPT ![codeIdx] = code]
    /\ \/ write >= dstCap /\ Return("OutputTooSmall", 0)
       \/ write < dstCap /\ OpenBlock(write)

DataByteNoRoom ==
    /\ InLoop
    /\ CurrentByte # 0
    /\ write >= dstCap
    /\ Return("OutputTooSmall", 0)
    /\ UNCHANGED dst

StoreByte ==
    /\ dst' = [dst EXCEPT ![write] = CurrentByte]
    /\ write' = write + 1
    /\ code' = code + 1
    /\ read' = read + 1
    /\ UNCHANGED <<args, codeIdx, pc, status, length>>

\* Mutants: the full block goes unnoticed; the room check is off by one.
DataByteNoBlockLimit == InLoop /\ CurrentByte # 0 /\ write < dstCap /\ StoreByte
DataByteOffByOne ==
    InLoop /\ CurrentByte # 0 /\ write <= dstCap /\ code + 1 # MaxCode /\ StoreByte

\* A non-zero byte that leaves the open block short of its maximal length.
DataByte ==
    /\ InLoop
    /\ CurrentByte # 0
    /\ write < dstCap
    /\ code + 1 # MaxCode
    /\ StoreByte

\* Mutant: a full block always opens another one.
LastByteAlwaysReopens ==
    /\ InLoop /\ CurrentByte # 0 /\ write < dstCap /\ code + 1 = MaxCode
    /\ dst' = [dst EXCEPT ![write] = CurrentByte, ![codeIdx] = MaxCode]
    /\ \/ write + 1 >= dstCap /\ Return("OutputTooSmall", 0)
       \/ write + 1 < dstCap /\ OpenBlock(write + 1)

\* A non-zero byte that fills the open block: the block is emitted, and a new
\* one opens only when input remains.
LastByteOfFullBlock ==
    /\ InLoop
    /\ CurrentByte # 0
    /\ write < dstCap
    /\ code + 1 = MaxCode
    /\ dst' = [dst EXCEPT ![write] = CurrentByte, ![codeIdx] = MaxCode]
    /\ \/ read + 1 = Len(src) /\ Return("Ok", write + 1)
       \/ /\ read + 1 # Len(src)
          /\ \/ write + 1 >= dstCap /\ Return("OutputTooSmall", 0)
             \/ write + 1 < dstCap /\ OpenBlock(write + 1)

CloseFinalBlock ==
    /\ pc = "loop"
    /\ read = Len(src)
    /\ dst' = [dst EXCEPT ![codeIdx] = code]
    /\ Return("Ok", write)

Next ==
    \/ Enter
    \/ ZeroByte
    \/ DataByteNoRoom
    \/ DataByte
    \/ LastByteOfFullBlock
    \/ CloseFinalBlock

Spec == Init /\ [][Next]_vars

-----------------------------------------------------------------------------
(* The type of every variable; in particular the code counter of the open  *)
(* block never passes MaxCode, where the uint8_t of the source would wrap. *)
TypeOK ==
    /\ src \in Seq(Byte)
    /\ dstCap \in Nat
    /\ dst \in [0 .. dstCap - 1 -> Byte]
    /\ read \in 0 .. Len(src)
    /\ write \in Nat
    /\ codeIdx \in Nat
    /\ code \in 1 .. MaxCode
    /\ pc \in {"entry", "loop", "done"}
    /\ status \in CobsStatus
    /\ length \in Nat

Succeeded == pc = "done" /\ status = "Ok"

(* The framing promise: an encoded block holds no 0x00 byte, whatever the  *)
(* input, so 0x00 can delimit frames; since the buffer starts as zeros it  *)
(* also says that every byte of the result was written (cobs.hpp: "The     *)
(* input may contain 0x00 bytes; the output never will").                  *)
NoZeroInOutput ==
    Succeeded => \A i \in 0 .. length - 1 : dst[i] # 0

(* No iteration ever writes past dstCap, not even the code byte stored at  *)
(* codeIdx after the room for it was reserved an iteration earlier.        *)
WritesInBounds ==
    pc = "loop" => codeIdx < write /\ write <= dstCap

(* The size promise of cobs.hpp lines 7 to 9: an input shorter than        *)
(* MaxCode (at most 254 bytes) becomes exactly one byte longer, including  *)
(* the input that is exactly one full block, so it fails only when the     *)
(* buffer is smaller than that.                                            *)
ShortInputGrowsByOne ==
    pc = "done" /\ Len(src) < MaxCode =>
        IF dstCap > Len(src) THEN status = "Ok" /\ length = Len(src) + 1
                             ELSE status = "OutputTooSmall"

Reference == INSTANCE Cobs
Result == [k \in 1 .. length |-> dst[k - 1]]

(* What the loop computes is the encoding of its input, whatever capacity  *)
(* it is given; code bytes held back and stored later land where they      *)
(* belong.                                                                 *)
EncodesAsDefined ==
    Succeeded => Result = Reference!Encoding(src)

(* The encoding is a sequence of whole blocks and stands for the input,    *)
(* with zeros anywhere and one, two or more full runs.  CobsDecode shows   *)
(* that cobs_decode computes that decoding: together, decoding inverts     *)
(* encoding.                                                               *)
DecodesBack ==
    Succeeded => Reference!Decodable(Result) /\ Reference!Decoding(Result) = src

\* Mutant: one byte of overhead whatever the length.
one_byte_overhead(n) == n + 1

cobs_max_encoded_size(n) == n + (n \div (MaxCode - 1)) + 1

(* cobs_max_encoded_size bounds the result for inputs of every length, so  *)
(* a buffer of that size never yields OutputTooSmall.                      *)
MaxSizeSuffices ==
    pc = "done" /\ dstCap >= cobs_max_encoded_size(Len(src)) =>
        status = "Ok" /\ length <= cobs_max_encoded_size(Len(src))

=============================================================================
