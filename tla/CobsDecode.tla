----------------------------- MODULE CobsDecode -----------------------------
(***************************************************************************)
(* cobs_decode (src/cobs.cpp), one action per block header, copied byte,   *)
(* end of block and end of input.  The input is any sequence of bytes, not *)
(* only one that an encoder made: the decoder is what faces the wire.      *)
(*                                                                         *)
(* The output buffer starts with Unwritten in every cell, like the         *)
(* uninitialised raw[] that decode_region passes in.  The code byte 0xFF   *)
(* of the source is the constant MaxCode; bytes are 0 .. MaxCode.          *)
(***************************************************************************)
EXTENDS Integers, Sequences

CONSTANTS
    MaxCode,   \* 0xFF in the code
    Inputs,    \* the regions given to the decoder
    Caps       \* the output capacities given to the decoder

Byte == 0 .. MaxCode
Unwritten == -1

ASSUME CobsDecodeAssumption ==
    /\ MaxCode \in Nat /\ MaxCode >= 2
    /\ Inputs \subseteq Seq(Byte)
    /\ Caps \subseteq Nat

VARIABLES
    src, dstCap,        \* the arguments
    dst,                \* the output buffer, indexed from 0
    read, write,        \* next input byte, next free output byte
    code, i,            \* the code byte of the current block, its loop counter
    pc,                 \* "block", "copy" or "done"
    status, length      \* the result, meaningful when pc = "done"

vars == <<src, dstCap, dst, read, write, code, i, pc, status, length>>
args == <<src, dstCap>>

CobsStatus == {"Ok", "OutputTooSmall", "MalformedInput"}

Init ==
    /\ src \in Inputs
    /\ dstCap \in Caps
    /\ dst = [k \in 0 .. dstCap - 1 |-> Unwritten]
    /\ read = 0
    /\ write = 0
    /\ code = 0
    /\ i = 1
    /\ pc = "block"
    /\ status = "Ok"
    /\ length = 0

\* The call returns status s and length n.
Return(s, n) ==
    /\ pc' = "done"
    /\ status' = s
    /\ length' = n
    /\ UNCHANGED <<args, dst, write, i>>

\* Mutant: no check that there is room.
EmitUnchecked(b) ==
    /\ dst' = [dst EXCEPT ![write] = b] /\ write' = write + 1
    /\ UNCHANGED <<args, code, status, length>>

\* One more output byte, b, if there is room for it.
Emit(b) ==
    /\ write < dstCap
    /\ dst' = [dst EXCEPT ![write] = b]
    /\ write' = write + 1
    /\ UNCHANGED <<args, code, status, length>>

ReadCode ==
    /\ pc = "block"
    /\ read < Len(src)
    /\ code' = src[read + 1]
    /\ read' = read + 1
    /\ \/ code' = 0 /\ Return("MalformedInput", 0)
       \/ /\ code' # 0
          /\ pc' = "copy"
          /\ i' = 1
          /\ UNCHANGED <<args, dst, write, status, length>>

\* Mutant: a truncated block ends the input quietly.
CopyStopsAtEnd ==
    /\ pc = "copy" /\ i < code
    /\ \/ read >= Len(src) /\ Return("Ok", write) /\ UNCHANGED <<read, code>>
       \/ read < Len(src) /\ Emit(src[read + 1])
          /\ read' = read + 1 /\ i' = i + 1 /\ UNCHANGED pc

CopyByte ==
    /\ pc = "copy"
    /\ i < code
    /\ \/ /\ read >= Len(src)
          /\ Return("MalformedInput", 0)
          /\ UNCHANGED <<read, code>>
       \/ /\ read < Len(src)
          /\ write >= dstCap
          /\ Return("OutputTooSmall", 0)
          /\ UNCHANGED <<read, code>>
       \/ /\ read < Len(src)
          /\ Emit(src[read + 1])
          /\ read' = read + 1
          /\ i' = i + 1
          /\ UNCHANGED pc

\* Mutants: the last block has an implicit zero too; a full block has one.
ZeroAfterEveryBlock == code # MaxCode
ZeroAfterFullBlock == read < Len(src)

\* A block shorter than the maximum that is not the last one stands for a
\* trailing zero.
ImplicitZero == code # MaxCode /\ read < Len(src)

\* Mutant: the cell of the implicit zero is skipped, not written.
EndBlockSkipsCell ==
    /\ pc = "copy" /\ i >= code
    /\ write' = IF ImplicitZero THEN write + 1 ELSE write
    /\ pc' = "block"
    /\ UNCHANGED <<args, dst, read, code, i, status, length>>

EndBlock ==
    /\ pc = "copy"
    /\ i >= code
    /\ \/ /\ ~ImplicitZero
          /\ pc' = "block"
          /\ UNCHANGED <<args, dst, write, code, i, status, length>>
       \/ /\ ImplicitZero
          /\ write >= dstCap
          /\ Return("OutputTooSmall", 0)
          /\ UNCHANGED code
       \/ /\ ImplicitZero
          /\ Emit(0)
          /\ pc' = "block"
          /\ UNCHANGED i
    /\ UNCHANGED read

EndOfInput ==
    /\ pc = "block"
    /\ read >= Len(src)
    /\ Return("Ok", write)
    /\ UNCHANGED <<read, code>>

Next == ReadCode \/ CopyByte \/ EndBlock \/ EndOfInput

Spec == Init /\ [][Next]_vars

-----------------------------------------------------------------------------
(* The type of every variable: read and write never leave the two buffers. *)
TypeOK ==
    /\ src \in Seq(Byte)
    /\ dstCap \in Nat
    /\ dst \in [0 .. dstCap - 1 -> Byte \cup {Unwritten}]
    /\ read \in 0 .. Len(src)
    /\ write \in 0 .. dstCap
    /\ code \in Byte
    /\ i \in 1 .. MaxCode
    /\ pc \in {"block", "copy", "done"}
    /\ status \in CobsStatus
    /\ length \in Nat

Succeeded == pc = "done" /\ status = "Ok"

(* Every byte of a successful result was written: decode_region reads      *)
(* raw[0 .. decLen-1] and must find no uninitialised byte there.           *)
ResultWritten ==
    Succeeded => \A k \in 0 .. length - 1 : dst[k] \in Byte

(* The output is shorter than a non-empty input, so the raw buffer of      *)
(* decode_region (254 bytes) is never too small for a region of at most    *)
(* 255 bytes: OutputTooSmall cannot be the reason of a CobsError.          *)
DecodeShrinks ==
    /\ Succeeded /\ Len(src) > 0 => length < Len(src)
    /\ pc = "done" /\ dstCap + 1 >= Len(src) => status # "OutputTooSmall"

Reference == INSTANCE Cobs
Result == [k \in 1 .. length |-> dst[k - 1]]

(* Given room, the loop accepts exactly the sequences of whole blocks (a   *)
(* truncated last block never passes) and computes their decoding.         *)
DecodesAsDefined ==
    pc = "done" /\ dstCap >= Len(src) =>
        IF Reference!Decodable(src)
        THEN /\ status = "Ok"
             /\ Result = Reference!Decoding(src)
        ELSE status = "MalformedInput"

(* What FrameReader hands to decode_region, at most kRegionCap = 0xFF      *)
(* bytes without a zero, has one encoding only: re-encoding what it        *)
(* decodes to gives the same bytes.  So no two regions the reader can hold *)
(* decode to the same block.  (A longer region can end in a superfluous    *)
(* code byte after a full block.)                                          *)
ShortRegionIsCanonical ==
    Succeeded /\ Len(src) \in 1 .. MaxCode /\ (\A k \in 1 .. Len(src) : src[k] # 0) =>
        Reference!Encoding(Result) = src

=============================================================================
