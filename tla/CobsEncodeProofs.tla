-------------------------- MODULE CobsEncodeProofs --------------------------
(***************************************************************************)
(* The encoder's promises for inputs of every length, buffers of every     *)
(* capacity and every block size: it stays inside its buffer, its output   *)
(* holds no zero, and a short input grows by exactly one byte.             *)
(*                                                                         *)
(* None of this is inductive as it stands.  Inside the loop the open block *)
(* reaches from codeIdx to write, so that code counts its bytes, and every *)
(* byte before write is final except the one at codeIdx.                   *)
(*                                                                         *)
(* That it writes what Cobs defines takes more: the closed blocks stand    *)
(* for the input up to the byte where the open block starts, and the open  *)
(* block holds the bytes from there on.                                    *)
(***************************************************************************)
EXTENDS CobsEncode, TLAPS

\* The state of the loop between two iterations.
LoopInv ==
    /\ codeIdx < write /\ write <= dstCap
    /\ code = write - codeIdx
    /\ code < MaxCode
    /\ \A k \in 0 .. write - 1 : k # codeIdx => dst[k] # 0
    /\ Len(src) < MaxCode => write = read + 1

\* The state before the loop.
EntryInv == read = 0 /\ write = 1 /\ codeIdx = 0 /\ code = 1

IInv ==
    /\ TypeOK
    /\ pc = "entry" => EntryInv
    /\ pc = "loop" => LoopInv
    /\ NoZeroInOutput
    /\ ShortInputGrowsByOne
    /\ Succeeded => length <= dstCap

(* A call begins with the first code byte held back.                        *)
LEMMA InitIInv == Init => IInv
<1> SUFFICES ASSUME Init PROVE IInv
    OBVIOUS
<1>1. src \in Seq(Byte) /\ dstCap \in Nat /\ MaxCode \in Nat /\ MaxCode >= 2
    BY CobsEncodeAssumption DEF Init
<1>2. dst \in [0 .. dstCap - 1 -> Byte]
    BY <1>1 DEF Init, Byte
<1>3. TypeOK
    BY <1>1, <1>2 DEF Init, TypeOK, Byte, CobsStatus
<1> QED BY <1>3 DEF Init, IInv, EntryInv, NoZeroInOutput, ShortInputGrowsByOne, Succeeded

(* The next byte exists and is a byte while the loop runs.                 *)
LEMMA CurrentByteIsByte ==
    ASSUME TypeOK, InLoop
    PROVE  CurrentByte \in Byte /\ read + 1 \in 0 .. Len(src)
BY DEF TypeOK, InLoop, CurrentByte

(* Entering the loop, or refusing an empty buffer, keeps the invariant.     *)
LEMMA EnterStep == IInv /\ Enter => IInv'
<1> SUFFICES ASSUME IInv, Enter PROVE IInv'
    OBVIOUS
<1> USE CobsEncodeAssumption DEF IInv, Enter, EntryInv
<1>1. CASE dstCap < 1
    BY <1>1 DEF Return, args, TypeOK, NoZeroInOutput, ShortInputGrowsByOne, Succeeded, CobsStatus
<1>2. CASE dstCap >= 1
    BY <1>2 DEF args, TypeOK, LoopInv, NoZeroInOutput, ShortInputGrowsByOne, Succeeded, CobsStatus
<1> QED BY <1>1, <1>2 DEF TypeOK

(* A zero closes the block by storing its code byte, which is not zero.     *)
LEMMA ZeroByteStep == IInv /\ ZeroByte => IInv'
<1> SUFFICES ASSUME IInv, ZeroByte PROVE IInv'
    OBVIOUS
<1> USE CobsEncodeAssumption
<1>1. TypeOK /\ LoopInv /\ InLoop /\ pc = "loop"
    BY DEF IInv, ZeroByte, InLoop
<1>2. CurrentByte \in Byte /\ read + 1 \in 0 .. Len(src)
    BY <1>1, CurrentByteIsByte
<1>3. dst' = [dst EXCEPT ![codeIdx] = code] /\ code \in Byte \ {0}
    BY <1>1 DEF ZeroByte, TypeOK, LoopInv, Byte
<1>4. CASE write >= dstCap /\ Return("OutputTooSmall", 0)
  <2>1. TypeOK'
      BY <1>1, <1>3, <1>4 DEF TypeOK, Return, args, CobsStatus
  <2>2. ShortInputGrowsByOne'
      BY <1>1, <1>4 DEF TypeOK, Return, args, ShortInputGrowsByOne, LoopInv, InLoop
  <2> QED BY <2>1, <2>2, <1>4 DEF IInv, Return, NoZeroInOutput, Succeeded
<1>5. CASE write < dstCap /\ OpenBlock(write)
  <2>0. dst' \in [0 .. dstCap - 1 -> Byte]
      BY <1>1, <1>3 DEF TypeOK
  <2>1. TypeOK'
      BY <1>1, <1>2, <1>5, <2>0 DEF TypeOK, OpenBlock, args
  <2>2. \A k \in 0 .. write : k # write => dst'[k] # 0
      BY <1>1, <1>3 DEF TypeOK, LoopInv
  <2>3. LoopInv'
      BY <1>1, <1>5, <2>2 DEF TypeOK, LoopInv, OpenBlock, args
  <2>4. pc' = "loop"
      BY <1>1, <1>5 DEF OpenBlock
  <2> QED BY <2>1, <2>3, <2>4 DEF IInv, NoZeroInOutput, ShortInputGrowsByOne, Succeeded
<1> QED BY <1>4, <1>5 DEF ZeroByte

(* Running out of room happens only in a buffer that is too small.          *)
LEMMA DataByteNoRoomStep == IInv /\ DataByteNoRoom => IInv'
<1> SUFFICES ASSUME IInv, DataByteNoRoom PROVE IInv'
    OBVIOUS
<1> USE CobsEncodeAssumption
<1>1. TypeOK /\ LoopInv /\ pc = "loop" /\ read < Len(src) /\ write >= dstCap
    BY DEF IInv, DataByteNoRoom, InLoop
<1>2. TypeOK'
    BY <1>1 DEF TypeOK, DataByteNoRoom, Return, args, CobsStatus
<1>3. ShortInputGrowsByOne'
    BY <1>1 DEF TypeOK, DataByteNoRoom, Return, args, ShortInputGrowsByOne, LoopInv
<1> QED BY <1>2, <1>3 DEF IInv, DataByteNoRoom, Return, NoZeroInOutput, Succeeded

(* A stored byte lengthens the open block, which stays short of a full one. *)
LEMMA DataByteStep == IInv /\ DataByte => IInv'
<1> SUFFICES ASSUME IInv, DataByte PROVE IInv'
    OBVIOUS
<1> USE CobsEncodeAssumption
<1>1. TypeOK /\ LoopInv /\ InLoop /\ pc = "loop"
    BY DEF IInv, DataByte, InLoop
<1>2. CurrentByte \in Byte \ {0} /\ read + 1 \in 0 .. Len(src)
    BY <1>1, CurrentByteIsByte DEF DataByte
<1>3. TypeOK'
    BY <1>1, <1>2 DEF TypeOK, DataByte, StoreByte, args, LoopInv
<1>4. \A k \in 0 .. write : k # codeIdx => dst'[k] # 0
    BY <1>1, <1>2 DEF TypeOK, LoopInv, DataByte, StoreByte
<1>5. LoopInv'
    BY <1>1, <1>4 DEF TypeOK, LoopInv, DataByte, StoreByte, args
<1>6. pc' = "loop"
    BY <1>1 DEF DataByte, StoreByte
<1> QED BY <1>3, <1>5, <1>6 DEF IInv, NoZeroInOutput, ShortInputGrowsByOne, Succeeded

(* A full block is closed, and the code byte of the next one is the only    *)
(* cell that is held back.                                                  *)
LEMMA LastByteStep == IInv /\ LastByteOfFullBlock => IInv'
<1> SUFFICES ASSUME IInv, LastByteOfFullBlock PROVE IInv'
    OBVIOUS
<1> USE CobsEncodeAssumption
<1>1. TypeOK /\ LoopInv /\ InLoop /\ pc = "loop" /\ write < dstCap /\ code + 1 = MaxCode
    BY DEF IInv, LastByteOfFullBlock, InLoop
<1>2. CurrentByte \in Byte \ {0} /\ read + 1 \in 0 .. Len(src)
    BY <1>1, CurrentByteIsByte DEF LastByteOfFullBlock
<1>3. dst' = [dst EXCEPT ![write] = CurrentByte, ![codeIdx] = MaxCode]
    BY DEF LastByteOfFullBlock
<1>4. dst' \in [0 .. dstCap - 1 -> Byte]
  <2>1. MaxCode \in Byte /\ CurrentByte \in Byte
      BY <1>2 DEF Byte
  <2>2. dst \in [0 .. dstCap - 1 -> Byte]
      BY <1>1 DEF TypeOK
  <2> QED BY <1>3, <2>1, <2>2
<1>5. \A k \in 0 .. write : dst'[k] # 0
    BY <1>1, <1>2, <1>3 DEF TypeOK, LoopInv
<1>6. Len(src) < MaxCode => read + 1 = Len(src)
    BY <1>1, <1>2 DEF TypeOK, LoopInv
<1>7. CASE read + 1 = Len(src) /\ Return("Ok", write + 1)
  <2>1. TypeOK'
      BY <1>1, <1>4, <1>7 DEF TypeOK, Return, args, CobsStatus
  <2>2. NoZeroInOutput'
      BY <1>1, <1>5, <1>7 DEF TypeOK, NoZeroInOutput, Succeeded, Return
  <2>3. ShortInputGrowsByOne'
      BY <1>1, <1>7 DEF TypeOK, Return, args, ShortInputGrowsByOne, LoopInv
  <2> QED BY <1>1, <1>7, <2>1, <2>2, <2>3 DEF IInv, Return, Succeeded, args, TypeOK
<1>8. CASE write + 1 >= dstCap /\ read + 1 # Len(src) /\ Return("OutputTooSmall", 0)
  <2>1. TypeOK'
      BY <1>1, <1>4, <1>8 DEF TypeOK, Return, args, CobsStatus
  <2>2. ShortInputGrowsByOne'
      BY <1>6, <1>8 DEF Return, args, ShortInputGrowsByOne
  <2> QED BY <1>8, <2>1, <2>2 DEF IInv, Return, NoZeroInOutput, Succeeded
<1>9. CASE write + 1 < dstCap /\ read + 1 # Len(src) /\ OpenBlock(write + 1)
  <2>1. TypeOK'
      BY <1>1, <1>2, <1>4, <1>9 DEF TypeOK, OpenBlock, args
  <2>2. LoopInv'
      BY <1>1, <1>5, <1>6, <1>9 DEF TypeOK, LoopInv, OpenBlock, args
  <2>3. pc' = "loop"
      BY <1>1, <1>9 DEF OpenBlock
  <2> QED BY <2>1, <2>2, <2>3 DEF IInv, NoZeroInOutput, ShortInputGrowsByOne, Succeeded
<1> QED BY <1>7, <1>8, <1>9 DEF LastByteOfFullBlock

(* The last code byte leaves no cell unwritten.                             *)
LEMMA CloseFinalBlockStep == IInv /\ CloseFinalBlock => IInv'
<1> SUFFICES ASSUME IInv, CloseFinalBlock PROVE IInv'
    OBVIOUS
<1> USE CobsEncodeAssumption
<1>1. TypeOK /\ LoopInv /\ pc = "loop" /\ read = Len(src)
    BY DEF IInv, CloseFinalBlock
<1>2. dst' = [dst EXCEPT ![codeIdx] = code] /\ code \in Byte \ {0}
    BY <1>1 DEF CloseFinalBlock, TypeOK, LoopInv, Byte
<1>3. TypeOK'
    BY <1>1, <1>2 DEF TypeOK, CloseFinalBlock, Return, args, CobsStatus
<1>4. NoZeroInOutput'
    BY <1>1, <1>2 DEF TypeOK, LoopInv, NoZeroInOutput, Succeeded, CloseFinalBlock, Return
<1>5. ShortInputGrowsByOne'
    BY <1>1 DEF TypeOK, LoopInv, CloseFinalBlock, Return, args, ShortInputGrowsByOne
<1> QED BY <1>1, <1>3, <1>4, <1>5 DEF IInv, CloseFinalBlock, Return, args, LoopInv, Succeeded

(* Every step keeps the invariant.                                          *)
LEMMA StepIInv == IInv /\ [Next]_vars => IInv'
<1>1. IInv /\ UNCHANGED vars => IInv'
    BY DEF IInv, TypeOK, EntryInv, LoopInv, NoZeroInOutput, ShortInputGrowsByOne, Succeeded, vars
<1> QED BY <1>1, EnterStep, ZeroByteStep, DataByteNoRoomStep, DataByteStep, LastByteStep,
           CloseFinalBlockStep DEF Next

(* The invariant holds in every reachable state.                           *)
LEMMA Inductive == Spec => []IInv
BY InitIInv, StepIInv, PTL DEF Spec

(* The encoder's variables keep their types: no index leaves the buffer's  *)
(* range upwards and the code counter never passes MaxCode.                *)
THEOREM TypeCorrect == Spec => []TypeOK
<1>1. IInv => TypeOK
    BY DEF IInv
<1> QED BY Inductive, <1>1, PTL

(* No encoding holds a zero byte, so a delimiter is never mistaken.        *)
THEOREM NoDelimiterInside == Spec => []NoZeroInOutput
<1>1. IInv => NoZeroInOutput
    BY DEF IInv
<1> QED BY Inductive, <1>1, PTL

(* No iteration writes outside the output buffer.                          *)
THEOREM StaysInBuffer == Spec => []WritesInBounds
<1>1. IInv => WritesInBounds
    BY DEF IInv, LoopInv, WritesInBounds
<1> QED BY Inductive, <1>1, PTL

(* An input shorter than MaxCode becomes one byte longer, or fails for     *)
(* lack of that much room.                                                 *)
THEOREM OneByteOverhead == Spec => []ShortInputGrowsByOne
<1>1. IInv => ShortInputGrowsByOne
    BY DEF IInv
<1> QED BY Inductive, <1>1, PTL

-----------------------------------------------------------------------------
(* A multiple of d that is at most n is at most n \div d times d.          *)
LEMMA AtMostQuotient ==
    ASSUME NEW a \in Nat, NEW n \in Nat, NEW d \in Nat \ {0}, a * d <= n
    PROVE  n \div d \in Nat /\ a <= n \div d
<1> DEFINE q == n \div d
           r == n % d
<1>1. q \in Nat /\ r \in 0 .. d - 1 /\ n = d * q + r
    OBVIOUS
<1> HIDE DEF q, r
<1>2. SUFFICES ASSUME a >= q + 1 PROVE FALSE
    BY <1>1 DEF q
<1>3. a * d >= (q + 1) * d
    BY <1>1, <1>2
<1>4. (q + 1) * d = d * q + d
    BY <1>1
<1> QED BY <1>1, <1>3, <1>4

\* One byte of overhead per full block so far, and one; the full blocks and the
\* bytes of the open one were all read.
FullBlocks == write - read - 1
SizeLoopInv ==
    /\ FullBlocks >= 0
    /\ FullBlocks * (MaxCode - 1) + (code - 1) <= read

SizeInv ==
    /\ IInv
    /\ pc = "loop" => SizeLoopInv
    /\ MaxSizeSuffices

\* The room that is claimed to be enough.
Room == cobs_max_encoded_size(Len(src))

(* The bytes written never pass that room, and leave some while input      *)
(* remains.                                                                *)
LEMMA RoomTaken ==
    ASSUME TypeOK, LoopInv, SizeLoopInv
    PROVE  /\ FullBlocks \in Nat /\ Room \in Nat
           /\ write <= Room
           /\ read < Len(src) => write < Room
           /\ read < Len(src) /\ code + 1 = MaxCode => write + 1 <= Room
           /\ read + 1 < Len(src) /\ code + 1 = MaxCode => write + 1 < Room
<1> USE CobsEncodeAssumption
<1> DEFINE q == Len(src) \div (MaxCode - 1)
<1>1. /\ FullBlocks \in Nat /\ MaxCode - 1 \in Nat \ {0} /\ read \in 0 .. Len(src)
      /\ write \in Nat /\ code \in Nat /\ code >= 1 /\ Len(src) \in Nat
    BY DEF TypeOK, SizeLoopInv, FullBlocks
<1>2. write = read + 1 + FullBlocks
    BY <1>1 DEF FullBlocks
<1>3. Room = Len(src) + q + 1
    BY DEF Room, cobs_max_encoded_size
<1> DEFINE product == FullBlocks * (MaxCode - 1)
<1>4. product \in Nat /\ product + (code - 1) <= read
    BY <1>1 DEF SizeLoopInv
<1>5. FullBlocks <= q /\ q \in Nat
  <2>1. FullBlocks * (MaxCode - 1) <= Len(src)
      BY <1>1, <1>4
  <2> QED BY <1>1, <2>1, AtMostQuotient
<1>6. ASSUME read < Len(src), code + 1 = MaxCode PROVE FullBlocks + 1 <= q
  <2>1. (FullBlocks + 1) * (MaxCode - 1) = product + (MaxCode - 1)
      BY <1>1
  <2>2. (FullBlocks + 1) * (MaxCode - 1) <= Len(src)
      BY <1>1, <1>4, <1>6, <2>1
  <2> DEFINE next == FullBlocks + 1
  <2>3. next \in Nat /\ next * (MaxCode - 1) <= Len(src)
      BY <1>1, <2>2
  <2> HIDE DEF next
  <2>4. next <= q
      BY <1>1, <2>3, AtMostQuotient
  <2> QED BY <2>4 DEF next
<1> HIDE DEF q, product
<1>7. Room \in Nat /\ write <= Room /\ (read < Len(src) => write < Room)
    BY <1>1, <1>2, <1>3, <1>5
<1>8. read < Len(src) /\ code + 1 = MaxCode => write + 1 <= Room
    BY <1>1, <1>2, <1>3, <1>5, <1>6
<1>9. read + 1 < Len(src) /\ code + 1 = MaxCode => write + 1 < Room
    BY <1>1, <1>2, <1>3, <1>5, <1>6
<1> QED BY <1>1, <1>7, <1>8, <1>9

LEMMA SizeStep == SizeInv /\ [Next]_vars => SizeInv'
<1> SUFFICES ASSUME SizeInv, [Next]_vars PROVE SizeInv'
    OBVIOUS
<1> USE CobsEncodeAssumption
<1>1. IInv'
    BY StepIInv DEF SizeInv
<1>2. TypeOK /\ (pc = "loop" => LoopInv /\ SizeLoopInv) /\ MaxSizeSuffices
    BY DEF SizeInv, IInv
<1>3. CASE Enter
  <2>1. EntryInv /\ UNCHANGED <<read, write, codeIdx, code>>
      BY <1>3 DEF SizeInv, IInv, Enter, Return
  <2>2. SizeLoopInv'
      BY <2>1 DEF EntryInv, SizeLoopInv, FullBlocks
  <2>3. Room \in Nat \ {0}
    <3>1. Len(src) \in Nat /\ MaxCode - 1 \in Nat \ {0} /\ 0 * (MaxCode - 1) <= Len(src)
        BY <1>2 DEF TypeOK
    <3>2. Len(src) \div (MaxCode - 1) \in Nat
        BY <3>1, AtMostQuotient
    <3> QED BY <3>1, <3>2 DEF Room, cobs_max_encoded_size
  <2>4. MaxSizeSuffices'
      BY <1>2, <1>3, <2>3 DEF Enter, Return, args, MaxSizeSuffices, Room, TypeOK
  <2> QED BY <1>1, <2>2, <2>4 DEF SizeInv
<1>4. CASE ZeroByte
  <2>1. pc = "loop" /\ read < Len(src) /\ Len(src) \in Nat
      BY <1>2, <1>4 DEF ZeroByte, InLoop, TypeOK
  <2>2. CASE write >= dstCap /\ Return("OutputTooSmall", 0)
      BY <1>1, <1>2, <2>1, <2>2, RoomTaken
         DEF SizeInv, Return, args, MaxSizeSuffices, Room, TypeOK
  <2>3. CASE write < dstCap /\ OpenBlock(write)
    <3>1. FullBlocks' = FullBlocks /\ code' = 1 /\ read' = read + 1
        BY <1>2, <2>3 DEF OpenBlock, FullBlocks, TypeOK
    <3>2. SizeLoopInv'
        BY <1>2, <2>1, <3>1, RoomTaken DEF SizeLoopInv, TypeOK
    <3> QED BY <1>1, <2>1, <2>3, <3>2 DEF SizeInv, OpenBlock, MaxSizeSuffices
  <2> QED BY <1>4, <2>2, <2>3 DEF ZeroByte
<1>5. CASE DataByteNoRoom
  <2>1. pc = "loop" /\ read < Len(src) /\ Len(src) \in Nat
      BY <1>2, <1>5 DEF DataByteNoRoom, InLoop, TypeOK
  <2> QED BY <1>1, <1>2, <1>5, <2>1, RoomTaken
         DEF SizeInv, DataByteNoRoom, Return, args, MaxSizeSuffices, Room, TypeOK
<1>6. CASE DataByte
  <2>1. FullBlocks' = FullBlocks /\ code' = code + 1 /\ read' = read + 1 /\ pc' = pc /\ pc = "loop"
      BY <1>2, <1>6 DEF DataByte, StoreByte, InLoop, FullBlocks, TypeOK
  <2>2. SizeLoopInv'
      BY <1>2, <2>1, RoomTaken DEF SizeLoopInv, TypeOK
  <2> QED BY <1>1, <2>1, <2>2 DEF SizeInv, MaxSizeSuffices
<1>7. CASE LastByteOfFullBlock
  <2>1. pc = "loop" /\ read < Len(src) /\ Len(src) \in Nat /\ code + 1 = MaxCode
      BY <1>2, <1>7 DEF LastByteOfFullBlock, InLoop, TypeOK
  <2>2. CASE read + 1 = Len(src) /\ Return("Ok", write + 1)
      BY <1>1, <1>2, <2>1, <2>2, RoomTaken
         DEF SizeInv, Return, args, MaxSizeSuffices, Room, TypeOK
  <2>3. CASE read + 1 # Len(src) /\ write + 1 >= dstCap /\ Return("OutputTooSmall", 0)
      BY <1>1, <1>2, <2>1, <2>3, RoomTaken
         DEF SizeInv, Return, args, MaxSizeSuffices, Room, TypeOK
  <2>4. CASE OpenBlock(write + 1)
    <3>1. FullBlocks' = FullBlocks + 1 /\ code' = 1 /\ read' = read + 1
        BY <1>2, <2>4 DEF OpenBlock, FullBlocks, TypeOK
    <3>2. (FullBlocks + 1) * (MaxCode - 1) = FullBlocks * (MaxCode - 1) + (MaxCode - 1)
        BY <1>2, <2>1, RoomTaken
    <3>4. FullBlocks \in Nat /\ FullBlocks * (MaxCode - 1) + (code - 1) <= read
        BY <1>2, <2>1, RoomTaken DEF SizeLoopInv
    <3>5. FullBlocks * (MaxCode - 1) \in Nat /\ read \in Nat /\ code = MaxCode - 1
        BY <1>2, <2>1, <3>4 DEF TypeOK
    <3>3. SizeLoopInv'
        BY <3>1, <3>2, <3>4, <3>5 DEF SizeLoopInv
    <3> QED BY <1>1, <2>1, <2>4, <3>3 DEF SizeInv, OpenBlock, MaxSizeSuffices
  <2> QED BY <1>7, <2>2, <2>3, <2>4 DEF LastByteOfFullBlock
<1>8. CASE CloseFinalBlock
    BY <1>1, <1>2, <1>8, RoomTaken
       DEF SizeInv, CloseFinalBlock, Return, args, MaxSizeSuffices, Room, TypeOK
<1>9. CASE UNCHANGED vars
    BY <1>1, <1>9 DEF SizeInv, vars, SizeLoopInv, FullBlocks, MaxSizeSuffices
<1> QED BY <1>3, <1>4, <1>5, <1>6, <1>7, <1>8, <1>9 DEF Next

(* A buffer of cobs_max_encoded_size bytes is always enough, for inputs of *)
(* every length.                                                           *)
THEOREM MaxSizeIsEnough == Spec => []MaxSizeSuffices
<1>1. Init => SizeInv
    BY InitIInv DEF Init, SizeInv, MaxSizeSuffices
<1>2. SizeInv => MaxSizeSuffices
    BY DEF SizeInv
<1> QED BY <1>1, <1>2, SizeStep, PTL DEF Spec

-----------------------------------------------------------------------------
(* What the loop computes.  The blocks before the open one encode the      *)
(* bytes up to Start, and the cells of the open block, but for its code    *)
(* byte, hold the bytes from there to read, none of which is zero.         *)
Theory == INSTANCE CobsProofs

Buffer == [k \in 1 .. dstCap |-> dst[k - 1]]
Start == read - (code - 1)

BlocksInv ==
    /\ code - 1 <= read
    /\ \A j \in 1 .. code - 1 : src[Start + j] # 0 /\ Buffer[(codeIdx + 1) + j] = src[Start + j]
    /\ Theory!BlocksOf(src, Start, Buffer, codeIdx + 1)

ComputeInv ==
    /\ IInv
    /\ pc = "loop" => BlocksInv
    /\ Succeeded => Theory!EncodedIn(src, Buffer, length)

(* The hypothesis of the theory, and bytes as its numbers.                 *)
LEMMA TheoryApplies == ASSUME TypeOK PROVE Theory!CodeSize /\ src \in Seq(Nat)
BY CobsEncodeAssumption DEF Theory!CodeSize, TypeOK, Byte

(* A block of the right bytes takes the blocks on, or completes the        *)
(* encoding.                                                               *)
LEMMA BlockCloses ==
    ASSUME TypeOK, LoopInv, BlocksInv, NEW c \in 0 .. MaxCode - 1, Theory!IsRun(src, Start, c),
           NEW u, \A k \in 1 .. codeIdx : u[k] = Buffer[k], Theory!Wrote(src, Start, c, u, codeIdx + 1)
    PROVE  /\ Start + c = Len(src) => Theory!EncodedIn(src, u, (codeIdx + 1) + c)
           /\ Start + c # Len(src) =>
                Theory!BlocksOf(src, IF c = MaxCode - 1 THEN Start + c ELSE Start + c + 1,
                                u, (codeIdx + 1) + (c + 1))
<1> PICK e \in Nat \ {0}, start \in 0 .. Len(src) : e = codeIdx + 1 /\ e - 1 = codeIdx /\ start = Start
    BY DEF TypeOK, LoopInv, BlocksInv, Start
<1> PICK s \in Seq(Nat) : s = src
    BY TheoryApplies
<1> PICK d : d = Buffer
    OBVIOUS
<1>1. Theory!CodeSize
    BY TheoryApplies
<1>2. Theory!BlocksOf(s, start, d, e)
    BY DEF BlocksInv
<1>3. \A k \in 1 .. e - 1 : u[k] = d[k]
    OBVIOUS
<1>4. Theory!IsRun(s, start, c) /\ Theory!Wrote(s, start, c, u, e)
    OBVIOUS
<1>5. /\ start + c = Len(s) => Theory!EncodedIn(s, u, e + c)
      /\ start + c # Len(s) =>
           Theory!BlocksOf(s, IF c = MaxCode - 1 THEN start + c ELSE start + c + 1, u, e + (c + 1))
    BY <1>1, <1>2, <1>3, <1>4, Theory!BlockClosed
<1> QED BY <1>5

(* Nothing is encoded before the loop.                                     *)
LEMMA EnterComputes == ComputeInv /\ Enter => ComputeInv'
<1> SUFFICES ASSUME ComputeInv, Enter PROVE ComputeInv'
    OBVIOUS
<1>1. IInv' /\ TypeOK
    BY StepIInv DEF Next, ComputeInv, IInv
<1>2. CASE Return("OutputTooSmall", 0)
    BY <1>1, <1>2 DEF ComputeInv, Return, Succeeded
<1>3. CASE pc' = "loop" /\ UNCHANGED <<args, dst, read, write, codeIdx, code, status, length>>
  <2>1. EntryInv
      BY DEF ComputeInv, IInv, Enter
  <2>2. read' = 0 /\ code' = 1 /\ codeIdx' = 0 /\ src' = src
      BY <1>3, <2>1 DEF EntryInv, args
  <2>3. Theory!BlocksOf(src', 0, Buffer', 1)
      BY <1>1, <2>2, TheoryApplies, Theory!NoBlocksYet
  <2>4. BlocksInv'
    <3>1. Start' = 0 /\ codeIdx' + 1 = 1 /\ code' - 1 = 0 /\ 0 <= read'
        BY <2>2 DEF Start
    <3>2. Theory!BlocksOf(src', Start', Buffer', codeIdx' + 1)
        BY <2>3, <3>1
    <3> QED BY <3>1, <3>2 DEF BlocksInv
  <2> QED BY <1>1, <1>3, <2>4 DEF ComputeInv, Succeeded
<1> QED BY <1>2, <1>3 DEF Enter

(* A zero closes the run before it.                                        *)
LEMMA ZeroByteComputes == ComputeInv /\ ZeroByte => ComputeInv'
<1> SUFFICES ASSUME ComputeInv, ZeroByte PROVE ComputeInv'
    OBVIOUS
<1>1. IInv'
    BY StepIInv DEF Next, ComputeInv
<1>2. TypeOK /\ LoopInv /\ BlocksInv /\ InLoop /\ CurrentByte = 0
    BY DEF ComputeInv, IInv, ZeroByte, InLoop
<1>3. CASE Return("OutputTooSmall", 0)
    BY <1>1, <1>3 DEF ComputeInv, Return, Succeeded
<1>4. CASE write < dstCap /\ OpenBlock(write)
  <2> PICK c \in 0 .. MaxCode - 1 : c = code - 1 /\ c # MaxCode - 1
      BY <1>2, CobsEncodeAssumption DEF TypeOK, LoopInv
  <2>1. Start + c = read /\ read + 1 <= Len(src) /\ read # Len(src)
      BY <1>2 DEF Start, TypeOK, InLoop
  <2>2. Theory!IsRun(src, Start, c)
      BY <1>2, <2>1 DEF Theory!IsRun, BlocksInv, CurrentByte, TypeOK
  <2>3. \A k \in 1 .. dstCap : Buffer'[k] = IF k = codeIdx + 1 THEN code ELSE Buffer[k]
      BY <1>2, <1>4 DEF ZeroByte, OpenBlock, args, Buffer, TypeOK, LoopInv
  <2>4. \A k \in 1 .. codeIdx : Buffer'[k] = Buffer[k]
      BY <1>2, <2>3 DEF TypeOK, LoopInv
  <2>5. Theory!Wrote(src, Start, c, Buffer', codeIdx + 1)
    <3>1. Buffer'[codeIdx + 1] = c + 1
        BY <1>2, <2>3 DEF TypeOK, LoopInv
    <3>2. ASSUME NEW j \in 1 .. c PROVE Buffer'[(codeIdx + 1) + j] = src[Start + j]
      <4>1. (codeIdx + 1) + j \in 1 .. dstCap /\ (codeIdx + 1) + j # codeIdx + 1
          BY <1>2 DEF TypeOK, LoopInv
      <4> QED BY <1>2, <2>3, <4>1 DEF BlocksInv
    <3> QED BY <3>1, <3>2 DEF Theory!Wrote
  <2>6. Theory!BlocksOf(src, Start + c + 1, Buffer', (codeIdx + 1) + (c + 1))
      BY <1>2, <2>1, <2>2, <2>4, <2>5, BlockCloses
  <2>7. BlocksInv'
    <3>1. /\ Start' = Start + c + 1 /\ codeIdx' + 1 = (codeIdx + 1) + (c + 1)
          /\ code' - 1 = 0 /\ 0 <= read' /\ src' = src
        BY <1>2, <1>4, <2>1 DEF OpenBlock, Start, TypeOK, LoopInv, args
    <3>2. Theory!BlocksOf(src', Start', Buffer', codeIdx' + 1)
        BY <2>6, <3>1
    <3> QED BY <3>1, <3>2 DEF BlocksInv
  <2>8. pc' = "loop"
      BY <1>2, <1>4 DEF OpenBlock, InLoop
  <2> QED BY <1>1, <2>7, <2>8 DEF ComputeInv, Succeeded
<1> QED BY <1>3, <1>4 DEF ZeroByte

(* A stored byte lengthens the run, behind the blocks.                     *)
LEMMA DataByteComputes == ComputeInv /\ DataByte => ComputeInv'
<1> SUFFICES ASSUME ComputeInv, DataByte PROVE ComputeInv'
    OBVIOUS
<1>1. IInv'
    BY StepIInv DEF Next, ComputeInv
<1>2. TypeOK /\ LoopInv /\ BlocksInv /\ InLoop /\ CurrentByte # 0 /\ write < dstCap /\ StoreByte
    BY DEF ComputeInv, IInv, DataByte, InLoop
<1>3. /\ Start' = Start /\ code' = code + 1 /\ read' = read + 1 /\ codeIdx' = codeIdx
      /\ src' = src /\ code \in Nat /\ read = Start + (code - 1) /\ code - 1 <= read
      /\ codeIdx \in Nat /\ write = codeIdx + code
    BY <1>2 DEF StoreByte, Start, TypeOK, args, LoopInv, BlocksInv
<1>4. \A k \in 1 .. dstCap : Buffer'[k] = IF k = write + 1 THEN CurrentByte ELSE Buffer[k]
    BY <1>2 DEF StoreByte, args, Buffer, TypeOK, LoopInv
<1>5. Theory!BlocksOf(src, Start, Buffer', codeIdx + 1)
  <2>1. \A k \in 1 .. (codeIdx + 1) - 1 : Buffer'[k] = Buffer[k]
      BY <1>2, <1>4 DEF TypeOK, LoopInv
  <2>2. Theory!BlocksOf(src, Start, Buffer, codeIdx + 1)
      BY <1>2 DEF BlocksInv
  <2> QED BY <1>2, <2>1, <2>2, TheoryApplies, Theory!BlocksSame
<1>6. ASSUME NEW j \in 1 .. code
      PROVE  src[Start + j] # 0 /\ Buffer'[(codeIdx + 1) + j] = src[Start + j]
  <2>1. (codeIdx + 1) + j \in 1 .. dstCap
      BY <1>2, <1>3 DEF TypeOK
  <2>2. CASE j = code
    <3>1. (codeIdx + 1) + j = write + 1 /\ Start + j = read + 1
        BY <1>2, <1>3, <2>2 DEF TypeOK
    <3> QED BY <1>2, <1>4, <2>1, <3>1 DEF CurrentByte
  <2>3. CASE j # code
    <3>1. (codeIdx + 1) + j # write + 1 /\ j \in 1 .. code - 1
        BY <1>3, <2>3
    <3> QED BY <1>2, <1>4, <2>1, <3>1 DEF BlocksInv
  <2> QED BY <2>2, <2>3
<1>7. BlocksInv'
  <2>1. code' - 1 = code /\ code' - 1 <= read'
      BY <1>3, <1>2 DEF TypeOK
  <2> QED BY <1>3, <1>5, <1>6, <2>1 DEF BlocksInv
<1>8. pc' = "loop"
    BY <1>2 DEF StoreByte, InLoop
<1> QED BY <1>1, <1>7, <1>8 DEF ComputeInv, Succeeded

(* Where a block ends.                                                     *)
LEMMA BlockEnd ==
    ASSUME NEW idx \in Nat, NEW w \in Nat, NEW c \in Nat, c = w - idx
    PROVE  w = idx + c /\ w + 1 = (idx + 1) + c
OBVIOUS

(* The byte that fills a block closes a full run.                          *)
LEMMA LastByteComputes == ComputeInv /\ LastByteOfFullBlock => ComputeInv'
<1> SUFFICES ASSUME ComputeInv, LastByteOfFullBlock PROVE ComputeInv'
    OBVIOUS
<1>1. IInv'
    BY StepIInv DEF Next, ComputeInv
<1>2. /\ TypeOK /\ LoopInv /\ BlocksInv /\ InLoop /\ CurrentByte # 0 /\ write < dstCap
      /\ code + 1 = MaxCode /\ dst' = [dst EXCEPT ![write] = CurrentByte, ![codeIdx] = MaxCode]
    BY DEF ComputeInv, IInv, LastByteOfFullBlock, InLoop
<1>3. src' = src /\ dstCap' = dstCap
    BY DEF LastByteOfFullBlock, Return, OpenBlock, args
<1> PICK c \in 0 .. MaxCode - 1 : c = code /\ c = MaxCode - 1
    BY <1>2, CobsEncodeAssumption DEF TypeOK, LoopInv
<1>4. /\ Start + c = read + 1 /\ read + 1 <= Len(src)
      /\ codeIdx \in Nat /\ write = codeIdx + c /\ write + 1 = (codeIdx + 1) + c /\ c \in Nat
  <2>1. Start + c = read + 1
      BY <1>2 DEF Start, TypeOK
  <2>2. read + 1 <= Len(src)
      BY <1>2 DEF TypeOK, InLoop
  <2>3. codeIdx \in Nat /\ write \in Nat /\ c \in Nat /\ code \in Nat /\ c = code
      BY <1>2 DEF TypeOK
  <2>4. code = write - codeIdx
      BY <1>2 DEF LoopInv
  <2>5. write = codeIdx + c /\ write + 1 = (codeIdx + 1) + c
    <3>1. c = write - codeIdx
        BY <2>4
    <3> QED BY <2>3, <3>1, BlockEnd
  <2> QED BY <2>1, <2>2, <2>3, <2>5
<1>5. Theory!IsRun(src, Start, c)
  <2>1. ASSUME NEW j \in 1 .. c PROVE src[Start + j] # 0
    <3>1. CASE j = c
        BY <1>2, <1>4, <3>1 DEF CurrentByte
    <3>2. CASE j # c
      <4>1. j \in 1 .. code - 1
          BY <1>4, <3>2
      <4> QED BY <1>2, <4>1 DEF BlocksInv
    <3> QED BY <3>1, <3>2
  <2> QED BY <1>4, <2>1 DEF Theory!IsRun
<1>6. \A k \in 1 .. dstCap : Buffer'[k] = IF k = write + 1 THEN CurrentByte
                                           ELSE IF k = codeIdx + 1 THEN MaxCode ELSE Buffer[k]
    BY <1>2, <1>3 DEF Buffer, TypeOK, LoopInv
<1>7. ASSUME NEW k \in 1 .. codeIdx PROVE Buffer'[k] = Buffer[k]
  <2>1. k \in 1 .. dstCap /\ k # write + 1 /\ k # codeIdx + 1
      BY <1>2, <1>4 DEF TypeOK
  <2> QED BY <1>6, <2>1
<1>8. Theory!Wrote(src, Start, c, Buffer', codeIdx + 1)
  <2>1. Buffer'[codeIdx + 1] = c + 1
      BY <1>2, <1>4, <1>6 DEF TypeOK, LoopInv
  <2>2. ASSUME NEW j \in 1 .. c PROVE Buffer'[(codeIdx + 1) + j] = src[Start + j]
    <3>0. dstCap \in Nat /\ write < dstCap
        BY <1>2 DEF TypeOK
    <3>1. (codeIdx + 1) + j \in 1 .. dstCap /\ (codeIdx + 1) + j # codeIdx + 1
        BY <1>4, <3>0
    <3>2. CASE j = c
        BY <1>4, <1>6, <3>1, <3>2 DEF CurrentByte
    <3>3. CASE j # c
      <4>1. j \in 1 .. code - 1 /\ (codeIdx + 1) + j # write + 1
          BY <1>4, <3>3
      <4> QED BY <1>2, <1>6, <3>1, <4>1 DEF BlocksInv
    <3> QED BY <3>2, <3>3
  <2> QED BY <2>1, <2>2 DEF Theory!Wrote
<1>9. /\ Start + c = Len(src) => Theory!EncodedIn(src, Buffer', (codeIdx + 1) + c)
      /\ Start + c # Len(src) => Theory!BlocksOf(src, Start + c, Buffer', (codeIdx + 1) + (c + 1))
    BY <1>2, <1>5, <1>7, <1>8, BlockCloses
<1>10. CASE read + 1 = Len(src) /\ Return("Ok", write + 1)
  <2>1. Theory!EncodedIn(src', Buffer', length')
      BY <1>3, <1>4, <1>9, <1>10 DEF Return
  <2>2. pc' = "done"
      BY <1>10 DEF Return
  <2> QED BY <1>1, <2>1, <2>2 DEF ComputeInv
<1>11. CASE Return("OutputTooSmall", 0)
    BY <1>1, <1>11 DEF ComputeInv, Return, Succeeded
<1>12. CASE read + 1 # Len(src) /\ OpenBlock(write + 1)
  <2>1. /\ Start' = Start + c /\ codeIdx' + 1 = (codeIdx + 1) + (c + 1)
        /\ code' - 1 = 0 /\ 0 <= read'
      BY <1>2, <1>4, <1>12 DEF OpenBlock, Start, TypeOK
  <2>2. Theory!BlocksOf(src', Start', Buffer', codeIdx' + 1)
      BY <1>3, <1>4, <1>9, <1>12, <2>1
  <2>3. BlocksInv'
      BY <2>1, <2>2 DEF BlocksInv
  <2>4. pc' = "loop"
      BY <1>2, <1>12 DEF OpenBlock, InLoop
  <2> QED BY <1>1, <2>3, <2>4 DEF ComputeInv, Succeeded
<1> QED BY <1>10, <1>11, <1>12 DEF LastByteOfFullBlock

(* The end of the input closes the last run.                               *)
LEMMA CloseFinalBlockComputes == ComputeInv /\ CloseFinalBlock => ComputeInv'
<1> SUFFICES ASSUME ComputeInv, CloseFinalBlock PROVE ComputeInv'
    OBVIOUS
<1>1. IInv'
    BY StepIInv DEF Next, ComputeInv
<1>2. /\ TypeOK /\ LoopInv /\ BlocksInv /\ read = Len(src) /\ src' = src /\ dstCap' = dstCap
      /\ dst' = [dst EXCEPT ![codeIdx] = code] /\ pc' = "done" /\ length' = write
    BY DEF ComputeInv, IInv, CloseFinalBlock, Return, args
<1> PICK c \in 0 .. MaxCode - 1 : c = code - 1
    BY <1>2, CobsEncodeAssumption DEF TypeOK, LoopInv
<1>3. Start + c = Len(src) /\ write = (codeIdx + 1) + c
    BY <1>2 DEF Start, TypeOK, LoopInv
<1>4. Theory!IsRun(src, Start, c)
    BY <1>2, <1>3 DEF Theory!IsRun, BlocksInv, TypeOK
<1>5. \A k \in 1 .. dstCap : Buffer'[k] = IF k = codeIdx + 1 THEN code ELSE Buffer[k]
    BY <1>2 DEF Buffer, TypeOK, LoopInv
<1>6. \A k \in 1 .. codeIdx : Buffer'[k] = Buffer[k]
    BY <1>2, <1>5 DEF TypeOK, LoopInv
<1>7. Theory!Wrote(src, Start, c, Buffer', codeIdx + 1)
  <2>1. Buffer'[codeIdx + 1] = c + 1
      BY <1>2, <1>5 DEF TypeOK, LoopInv
  <2>2. ASSUME NEW j \in 1 .. c PROVE Buffer'[(codeIdx + 1) + j] = src[Start + j]
    <3>1. (codeIdx + 1) + j \in 1 .. dstCap /\ (codeIdx + 1) + j # codeIdx + 1
        BY <1>2 DEF TypeOK, LoopInv
    <3> QED BY <1>2, <1>5, <3>1 DEF BlocksInv
  <2> QED BY <2>1, <2>2 DEF Theory!Wrote
<1>8. Theory!EncodedIn(src', Buffer', length')
    BY <1>2, <1>3, <1>4, <1>6, <1>7, BlockCloses
<1> QED BY <1>1, <1>2, <1>8 DEF ComputeInv

(* Every step keeps it.                                                    *)
LEMMA StepComputes == ComputeInv /\ [Next]_vars => ComputeInv'
<1> SUFFICES ASSUME ComputeInv, [Next]_vars PROVE ComputeInv'
    OBVIOUS
<1>1. IInv'
    BY StepIInv DEF ComputeInv
<1>2. CASE DataByteNoRoom
    BY <1>1, <1>2 DEF DataByteNoRoom, Return, ComputeInv, Succeeded
<1>3. CASE UNCHANGED vars
  <2>1. Buffer' = Buffer /\ Start' = Start
      BY <1>3 DEF vars, Buffer, Start
  <2> QED BY <1>1, <1>3, <2>1 DEF ComputeInv, BlocksInv, Succeeded, vars
<1> QED BY <1>2, <1>3, EnterComputes, ZeroByteComputes, DataByteComputes, LastByteComputes,
           CloseFinalBlockComputes DEF Next

(* The definitions that the runs check are those of the theory.            *)
LEMMA SameDefinitions ==
    /\ \A s : Reference!Encoding(s) = Theory!Encoding(s)
    /\ \A r : Reference!Decoding(r) = Theory!Decoding(r)
    /\ \A r : Reference!Decodable(r) <=> Theory!Decodable(r)
<1>1. \A s : Reference!Encoding(s) = Theory!Encoding(s)
    BY DEF Reference!Encoding, Theory!Encoding, Reference!RunLength, Theory!RunLength
<1>2. \A r : Reference!Decoding(r) = Theory!Decoding(r)
    BY DEF Reference!Decoding, Theory!Decoding, Reference!IsCodePosition, Theory!IsCodePosition
<1>3. \A r : Reference!Decodable(r) <=> Theory!Decodable(r)
    BY DEF Reference!Decodable, Theory!Decodable, Reference!CodePositions, Theory!CodePositions,
           Reference!IsCodePosition, Theory!IsCodePosition
<1> QED BY <1>1, <1>2, <1>3

(* The loop computes what it should.                                       *)
LEMMA Computes == Spec => []ComputeInv
<1>1. Init => ComputeInv
    BY InitIInv DEF Init, ComputeInv, Succeeded
<1> QED BY <1>1, StepComputes, PTL DEF Spec

(* The result is the first length bytes of the buffer.                     *)
LEMMA ResultIsPrefix ==
    ASSUME IInv, Succeeded
    PROVE  Result = Theory!Prefix(Buffer, length)
<1>1. length \in Nat /\ dstCap \in Nat /\ length <= dstCap
    BY DEF IInv, TypeOK
<1>2. \A k \in 1 .. length : Buffer[k] = dst[k - 1]
    BY <1>1 DEF Buffer
<1> QED BY <1>2 DEF Result, Theory!Prefix

(* cobs_encode computes the encoding of its input, for inputs of every     *)
(* length, and never a wrong one for lack of room.                         *)
THEOREM EncodesTheInput == Spec => []EncodesAsDefined
<1>1. ComputeInv => EncodesAsDefined
    BY ResultIsPrefix, SameDefinitions DEF ComputeInv, EncodesAsDefined, Theory!EncodedIn
<1> QED BY <1>1, Computes, PTL

(* What cobs_encode returns is made of whole blocks, and decodes to what   *)
(* it was given.                                                           *)
THEOREM EncodingIsUndone == Spec => []DecodesBack
<1>1. ComputeInv => DecodesBack
    BY ResultIsPrefix, SameDefinitions DEF ComputeInv, DecodesBack, Theory!EncodedIn
<1> QED BY <1>1, Computes, PTL

=============================================================================
