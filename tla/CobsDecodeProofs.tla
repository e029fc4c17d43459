-------------------------- MODULE CobsDecodeProofs --------------------------
(***************************************************************************)
(* The decoder's promises for inputs of every length and content: reads    *)
(* and writes stay inside the buffers, a result has no unwritten byte, and *)
(* it is shorter than the input.                                           *)
(*                                                                         *)
(* The strengthening is a race between the two indices: writing never      *)
(* overtakes reading, and after a code byte it lags behind, because the    *)
(* code byte itself produces nothing and an implicit zero is written only  *)
(* while input remains.                                                    *)
(*                                                                         *)
(* That it computes what Cobs defines takes more: the code bytes read so   *)
(* far are a chain, and the output is what the input up to there stands    *)
(* for.  In a region that the reader can hold, the input is also what the  *)
(* encoder would have made of the output.                                  *)
(***************************************************************************)
EXTENDS CobsDecode, TLAPS

\* Everything before write is written, and write has not overtaken read.
BlockInv ==
    /\ write <= read
    /\ read > 0 /\ read = Len(src) => write < read
CopyInv == write < read

IInv ==
    /\ TypeOK
    /\ \A k \in 0 .. write - 1 : dst[k] \in Byte
    /\ pc = "block" => BlockInv
    /\ pc = "copy" => CopyInv /\ code \in 1 .. MaxCode /\ i <= code
    /\ Succeeded => length = write
    /\ DecodeShrinks

(* A call begins with nothing written and nothing read.                     *)
LEMMA InitIInv == Init => IInv
<1> SUFFICES ASSUME Init PROVE IInv
    OBVIOUS
<1>1. src \in Seq(Byte) /\ dstCap \in Nat /\ MaxCode \in Nat /\ MaxCode >= 2
    BY CobsDecodeAssumption DEF Init
<1>2. TypeOK
    BY <1>1 DEF Init, TypeOK, Byte, Unwritten, CobsStatus
<1> QED BY <1>1, <1>2 DEF Init, IInv, BlockInv, DecodeShrinks, Succeeded

(* Reading a code byte keeps the invariant: it pays for the output.         *)
LEMMA ReadCodeStep == IInv /\ ReadCode => IInv'
<1> SUFFICES ASSUME IInv, ReadCode PROVE IInv'
    OBVIOUS
<1> USE CobsDecodeAssumption
<1>1. TypeOK /\ BlockInv /\ pc = "block" /\ read < Len(src)
    BY DEF IInv, ReadCode
<1>2. code' \in Byte /\ read' = read + 1 /\ read' \in 0 .. Len(src)
    BY <1>1 DEF ReadCode, TypeOK
<1>3. CASE code' = 0 /\ Return("MalformedInput", 0)
  <2>1. TypeOK'
      BY <1>1, <1>2, <1>3 DEF TypeOK, Return, args, CobsStatus
  <2> QED BY <2>1, <1>3 DEF IInv, Return, DecodeShrinks, Succeeded
<1>4. CASE code' # 0 /\ pc' = "copy" /\ i' = 1 /\ UNCHANGED <<args, dst, write, status, length>>
  <2>1. TypeOK'
      BY <1>1, <1>2, <1>4 DEF TypeOK, args
  <2>2. write < read'
      BY <1>1, <1>2 DEF BlockInv, TypeOK
  <2> QED BY <1>2, <1>4, <2>1, <2>2 DEF IInv, CopyInv, DecodeShrinks, Succeeded, Byte
<1> QED BY <1>3, <1>4 DEF ReadCode

(* What one more output byte does.                                         *)
LEMMA EmitStep ==
    ASSUME IInv, NEW b \in Byte, Emit(b)
    PROVE  /\ dst' \in [0 .. dstCap - 1 -> Byte \cup {Unwritten}]
           /\ write' = write + 1 /\ write' \in 0 .. dstCap
           /\ \A k \in 0 .. write' - 1 : dst'[k] \in Byte
BY DEF IInv, TypeOK, Emit

(* Copying a byte keeps the invariant, whichever way it ends.               *)
LEMMA CopyByteStep == IInv /\ CopyByte => IInv'
<1> SUFFICES ASSUME IInv, CopyByte PROVE IInv'
    OBVIOUS
<1> USE CobsDecodeAssumption
<1>1. TypeOK /\ CopyInv /\ pc = "copy" /\ code \in 1 .. MaxCode /\ i < code
    BY DEF IInv, CopyByte
<1>2. CASE read >= Len(src) /\ Return("MalformedInput", 0) /\ UNCHANGED <<read, code>>
  <2>1. TypeOK'
      BY <1>1, <1>2 DEF TypeOK, Return, args, CobsStatus
  <2> QED BY <1>2, <2>1 DEF IInv, Return, DecodeShrinks, Succeeded
<1>3. CASE read < Len(src) /\ write >= dstCap /\ Return("OutputTooSmall", 0) /\ UNCHANGED <<read, code>>
  <2>1. TypeOK'
      BY <1>1, <1>3 DEF TypeOK, Return, args, CobsStatus
  <2>2. ~(dstCap + 1 >= Len(src))
      BY <1>1, <1>3 DEF TypeOK, CopyInv
  <2> QED BY <1>3, <2>1, <2>2 DEF IInv, Return, args, DecodeShrinks, Succeeded
<1>4. CASE read < Len(src) /\ Emit(src[read + 1]) /\ read' = read + 1 /\ i' = i + 1 /\ UNCHANGED pc
  <2>1. src[read + 1] \in Byte
      BY <1>1, <1>4 DEF TypeOK
  <2>2. TypeOK'
      BY <1>1, <1>4, <2>1, EmitStep DEF TypeOK, Emit, args
  <2>3. CopyInv'
      BY <1>1, <1>4 DEF CopyInv, Emit, TypeOK
  <2>4. i' <= code
      BY <1>1, <1>4 DEF TypeOK
  <2> QED BY <1>1, <1>4, <2>1, <2>2, <2>3, <2>4, EmitStep DEF IInv, Emit, DecodeShrinks, Succeeded
<1> QED BY <1>2, <1>3, <1>4 DEF CopyByte

(* The end of a block keeps the invariant; its zero has a byte to spare.    *)
LEMMA EndBlockStep == IInv /\ EndBlock => IInv'
<1> SUFFICES ASSUME IInv, EndBlock PROVE IInv'
    OBVIOUS
<1> USE CobsDecodeAssumption
<1>1. TypeOK /\ CopyInv /\ pc = "copy" /\ read' = read
    BY DEF IInv, EndBlock
<1>2. CASE pc' = "block" /\ UNCHANGED <<args, dst, write, code, i, status, length>>
  <2>1. TypeOK'
      BY <1>1, <1>2 DEF TypeOK, args
  <2>2. BlockInv'
      BY <1>1, <1>2 DEF BlockInv, CopyInv, args, TypeOK
  <2> QED BY <1>2, <2>1, <2>2 DEF IInv, DecodeShrinks, Succeeded
<1>3. CASE ImplicitZero /\ write >= dstCap /\ Return("OutputTooSmall", 0) /\ UNCHANGED code
  <2>1. TypeOK'
      BY <1>1, <1>3 DEF TypeOK, Return, args, CobsStatus
  <2>2. ~(dstCap + 1 >= Len(src))
      BY <1>1, <1>3 DEF TypeOK, CopyInv, ImplicitZero
  <2> QED BY <1>3, <2>1, <2>2 DEF IInv, Return, args, DecodeShrinks, Succeeded
<1>4. CASE ImplicitZero /\ Emit(0) /\ pc' = "block" /\ UNCHANGED i
  <2>1. 0 \in Byte
      BY DEF Byte
  <2>2. TypeOK'
      BY <1>1, <1>4, <2>1, EmitStep DEF TypeOK, Emit, args
  <2>3. BlockInv'
      BY <1>1, <1>4 DEF BlockInv, CopyInv, Emit, args, ImplicitZero, TypeOK
  <2> QED BY <1>4, <2>1, <2>2, <2>3, EmitStep DEF IInv, DecodeShrinks, Succeeded
<1> QED BY <1>2, <1>3, <1>4 DEF EndBlock

(* The end of the input keeps the invariant.                                *)
LEMMA EndOfInputStep == IInv /\ EndOfInput => IInv'
<1> SUFFICES ASSUME IInv, EndOfInput PROVE IInv'
    OBVIOUS
<1> USE CobsDecodeAssumption
<1>1. TypeOK /\ BlockInv /\ read = Len(src)
    BY DEF IInv, EndOfInput, TypeOK
<1>2. TypeOK'
    BY <1>1 DEF TypeOK, EndOfInput, Return, args, CobsStatus
<1>3. DecodeShrinks'
    BY <1>1 DEF TypeOK, BlockInv, EndOfInput, Return, args, DecodeShrinks, Succeeded
<1> QED BY <1>2, <1>3 DEF IInv, EndOfInput, Return, Succeeded

(* The invariant holds in every reachable state.                           *)
LEMMA Inductive == Spec => []IInv
<1>1. IInv /\ UNCHANGED vars => IInv'
    BY DEF IInv, TypeOK, BlockInv, CopyInv, DecodeShrinks, Succeeded, vars
<1>2. IInv /\ [Next]_vars => IInv'
    BY <1>1, ReadCodeStep, CopyByteStep, EndBlockStep, EndOfInputStep DEF Next
<1> QED BY InitIInv, <1>2, PTL DEF Spec

(* No index leaves its buffer, whatever the bytes on the wire say.         *)
THEOREM TypeCorrect == Spec => []TypeOK
<1>1. IInv => TypeOK
    BY DEF IInv
<1> QED BY Inductive, <1>1, PTL

(* No byte of a decoded block is uninitialised memory.                     *)
THEOREM NothingUnwritten == Spec => []ResultWritten
<1>1. IInv => ResultWritten
    BY DEF IInv, ResultWritten
<1> QED BY Inductive, <1>1, PTL

(* A decoded block is shorter than its region, so it fits a buffer one     *)
(* byte smaller, as decode_region's is.                                    *)
THEOREM Shrinks == Spec => []DecodeShrinks
<1>1. IInv => DecodeShrinks
    BY DEF IInv
<1> QED BY Inductive, <1>1, PTL

-----------------------------------------------------------------------------
(* What the loop computes.  Between two blocks the input read so far is a  *)
(* chain of blocks, and the output is what it stands for, together with    *)
(* the next code byte if there is one.  Inside a block, which began at     *)
(* Position, the output is what the bytes up to read stand for.            *)
Theory == INSTANCE CobsProofs

Out == [k \in 1 .. dstCap |-> dst[k - 1]]
Written == Theory!Prefix(Out, write)
Position == read - (i - 1)

BetweenBlocks ==
    \E P : /\ Theory!Chain(src, P, read + 1)
           /\ read < Len(src) => Theory!StandFor(src, P \cup {read + 1}, read + 1, Written)
           /\ read = Len(src) /\ read > 0 => Theory!StandFor(src, P, read, Written)

InsideBlock ==
    /\ Position >= 1 /\ code = src[Position]
    /\ \E P : /\ Theory!Chain(src, P, Position)
              /\ Theory!StandFor(src, P \cup {Position}, read, Written)

Answer ==
    /\ status = "Ok" => Theory!Decodable(src) /\ Theory!Prefix(Out, length) = Theory!Decoding(src)
    /\ status = "MalformedInput" => ~ Theory!Decodable(src)

ComputeInv ==
    /\ IInv
    /\ pc = "block" => BetweenBlocks
    /\ pc = "copy" => InsideBlock
    /\ pc = "done" => Answer

(* The invariant of the indices is kept by every step.                     *)
LEMMA StepIInv == IInv /\ [Next]_vars => IInv'
<1>1. IInv /\ UNCHANGED vars => IInv'
    BY DEF IInv, TypeOK, BlockInv, CopyInv, DecodeShrinks, Succeeded, vars
<1> QED BY <1>1, ReadCodeStep, CopyByteStep, EndBlockStep, EndOfInputStep DEF Next

(* The hypothesis of the theory, and bytes as its numbers.                 *)
LEMMA TheoryApplies == ASSUME TypeOK PROVE Theory!CodeSize /\ src \in Seq(Nat) /\ Len(src) \in Nat
BY CobsDecodeAssumption DEF Theory!CodeSize, TypeOK, Byte

(* What is written so far is a sequence of bytes.                          *)
LEMMA WrittenShape ==
    ASSUME IInv
    PROVE  /\ write \in Nat /\ \A k \in 1 .. write : k \in 1 .. dstCap /\ Out[k] \in Nat /\ Out[k] = dst[k - 1]
           /\ Written \in Seq(Nat) /\ Len(Written) = write
<1>1. write \in 0 .. dstCap /\ dstCap \in Nat /\ \A k \in 0 .. write - 1 : dst[k] \in Byte
    BY DEF IInv, TypeOK
<1>2. ASSUME NEW k \in 1 .. write PROVE k \in 1 .. dstCap /\ Out[k] \in Nat /\ Out[k] = dst[k - 1]
  <2>1. k \in 1 .. dstCap /\ k - 1 \in 0 .. write - 1
      BY <1>1
  <2>2. Out[k] = dst[k - 1] /\ dst[k - 1] \in Byte
      BY <1>1, <2>1 DEF Out
  <2> QED BY <2>1, <2>2, CobsDecodeAssumption DEF Byte
<1>3. Written \in Seq(Nat) /\ Len(Written) = write
    BY <1>1, <1>2, Theory!PrefixShape DEF Written
<1> QED BY <1>1, <1>2, <1>3

(* One more output byte.                                                   *)
LEMMA EmitAppends ==
    ASSUME IInv, NEW b \in Byte, Emit(b)
    PROVE  Written' = Written \o <<b>>
<1>1. /\ write \in Nat /\ dstCap \in Nat /\ write < dstCap /\ write' = write + 1 /\ dstCap' = dstCap
      /\ dst \in [0 .. dstCap - 1 -> Byte \cup {Unwritten}] /\ dst' = [dst EXCEPT ![write] = b]
    BY DEF IInv, TypeOK, Emit, args
<1> PICK u : u = Out'
    OBVIOUS
<1>2. \A k \in 1 .. write : u[k] = Out[k]
    BY <1>1 DEF Out
<1>3. u[write + 1] = b /\ b \in Nat
    BY <1>1, CobsDecodeAssumption DEF Out, Byte
<1>4. Theory!Prefix(u, write + 1) = Theory!Prefix(Out, write) \o <<b>>
  <2> PICK n \in Nat : n = write
      BY <1>1
  <2> PICK d : d = Out
      OBVIOUS
  <2>1. \A k \in 1 .. n : d[k] \in Nat
      BY WrittenShape
  <2>2. (\A k \in 1 .. n : u[k] = d[k]) /\ u[n + 1] = b /\ b \in Nat
      BY <1>2, <1>3
  <2>3. Theory!Prefix(u, n + 1) = Theory!Prefix(d, n) \o <<b>>
      BY <2>1, <2>2, Theory!PrefixGrows
  <2> QED BY <2>3
<1> QED BY <1>1, <1>4 DEF Written

(* What is written does not change with what does not touch the output.    *)
LEMMA WrittenStays == UNCHANGED <<dstCap, dst, write>> => Written' = Written
BY DEF Written, Out

(* A code byte begins a block, or breaks the chain if it is zero.          *)
LEMMA ReadCodeComputes == ComputeInv /\ ReadCode => ComputeInv'
<1> SUFFICES ASSUME ComputeInv, ReadCode PROVE ComputeInv'
    OBVIOUS
<1>1. IInv' /\ IInv /\ TypeOK
    BY StepIInv DEF Next, ComputeInv, IInv
<1>2. /\ BetweenBlocks /\ read < Len(src) /\ read \in Nat /\ read' = read + 1 /\ code' = src[read + 1]
    BY <1>1 DEF ComputeInv, ReadCode, TypeOK
<1> PICK P : /\ Theory!Chain(src, P, read + 1)
             /\ Theory!StandFor(src, P \cup {read + 1}, read + 1, Written)
    BY <1>2 DEF BetweenBlocks
<1>3. CASE code' = 0 /\ Return("MalformedInput", 0)
  <2>1. ~ Theory!Decodable(src)
    <3>1. read + 1 <= Len(src) /\ src[read + 1] = 0
        BY <1>1, <1>2, <1>3 DEF TypeOK
    <3> QED BY <1>1, <3>1, TheoryApplies, Theory!ChainBreaks
  <2>2. pc' = "done" /\ status' = "MalformedInput" /\ src' = src
      BY <1>3 DEF Return, args
  <2> QED BY <1>1, <2>1, <2>2 DEF ComputeInv, Answer
<1>4. CASE pc' = "copy" /\ i' = 1 /\ UNCHANGED <<args, dst, write, status, length>>
  <2>1. Position' = read + 1 /\ src' = src /\ Written' = Written
      BY <1>2, <1>4, WrittenStays DEF Position, args
  <2>2. InsideBlock'
    <3>1. Position' >= 1 /\ code' = src'[Position']
        BY <1>2, <2>1
    <3>2. /\ Theory!Chain(src', P, Position')
          /\ Theory!StandFor(src', P \cup {Position'}, read', Written')
        BY <1>2, <2>1
    <3> QED BY <3>1, <3>2 DEF InsideBlock
  <2> QED BY <1>1, <1>4, <2>2 DEF ComputeInv
<1> QED BY <1>3, <1>4 DEF ReadCode

(* A byte that is not a code byte stands for itself; a block that reaches  *)
(* behind the end breaks the chain.                                        *)
LEMMA CopyByteComputes == ComputeInv /\ CopyByte => ComputeInv'
<1> SUFFICES ASSUME ComputeInv, CopyByte PROVE ComputeInv'
    OBVIOUS
<1>1. IInv' /\ IInv /\ TypeOK
    BY StepIInv DEF Next, ComputeInv, IInv
<1>2. InsideBlock /\ i < code /\ i \in Nat /\ i >= 1 /\ read \in Nat /\ code \in Nat
    BY <1>1, CobsDecodeAssumption DEF ComputeInv, CopyByte, TypeOK, Byte
<1> PICK P : /\ Theory!Chain(src, P, Position)
             /\ Theory!StandFor(src, P \cup {Position}, read, Written)
    BY <1>2 DEF InsideBlock
<1>3. /\ Position \in Nat \ {0} /\ Position <= read /\ code = src[Position]
      /\ Position + code > read + 1
    BY <1>2 DEF InsideBlock, Position
<1>4. CASE read >= Len(src) /\ Return("MalformedInput", 0)
  <2>1. read = Len(src)
      BY <1>1, <1>4 DEF TypeOK
  <2>2. ~ Theory!Decodable(src)
    <3>1. Position <= Len(src) /\ Position + src[Position] > Len(src) + 1
        BY <1>3, <2>1
    <3> QED BY <1>1, <3>1, TheoryApplies, Theory!ChainBreaks
  <2>3. pc' = "done" /\ status' = "MalformedInput" /\ src' = src
      BY <1>4 DEF Return, args
  <2> QED BY <1>1, <2>2, <2>3 DEF ComputeInv, Answer
<1>5. CASE Return("OutputTooSmall", 0)
    BY <1>1, <1>5 DEF Return, ComputeInv, Answer
<1>6. CASE read < Len(src) /\ Emit(src[read + 1]) /\ read' = read + 1 /\ i' = i + 1 /\ UNCHANGED pc
  <2> PICK b \in Byte : b = src[read + 1]
      BY <1>1, <1>6 DEF TypeOK
  <2>1. Written' = Written \o <<b>>
      BY <1>1, <1>6, EmitAppends
  <2>2. /\ Position' = Position /\ src' = src /\ code' = code
      BY <1>2, <1>6 DEF Position, Emit, args
  <2>3. Theory!StandFor(src, P \cup {Position}, read', Written')
    <3>1. Theory!StandFor(src, P \cup {Position}, read + 1,
                          Written \o Theory!Piece(src, P \cup {Position}, read + 1))
        BY <1>2, <1>3, Theory!OneMorePiece
    <3>2. read + 1 \notin P \cup {Position}
        BY <1>2, <1>3 DEF Theory!Chain
    <3>3. Theory!Piece(src, P \cup {Position}, read + 1) = <<b>>
        BY <3>2 DEF Theory!Piece
    <3> QED BY <1>6, <2>1, <3>1, <3>3
  <2>4. InsideBlock'
      BY <1>3, <2>2, <2>3 DEF InsideBlock
  <2>5. pc' = "copy"
      BY <1>6 DEF CopyByte
  <2> QED BY <1>1, <2>4, <2>5 DEF ComputeInv
<1> QED BY <1>4, <1>5, <1>6 DEF CopyByte

(* The end of a block is a chain that is one block longer; the zero        *)
(* written is what the code byte after it stands for.                      *)
LEMMA EndBlockComputes == ComputeInv /\ EndBlock => ComputeInv'
<1> SUFFICES ASSUME ComputeInv, EndBlock PROVE ComputeInv'
    OBVIOUS
<1>1. IInv' /\ IInv /\ TypeOK
    BY StepIInv DEF Next, ComputeInv, IInv
<1>2. /\ InsideBlock /\ i = code /\ i \in Nat /\ i >= 1 /\ read \in Nat /\ read' = read
      /\ pc = "copy" /\ i \in 1 .. MaxCode /\ read <= Len(src)
    BY <1>1 DEF ComputeInv, EndBlock, IInv, TypeOK
<1> PICK P : /\ Theory!Chain(src, P, Position)
             /\ Theory!StandFor(src, P \cup {Position}, read, Written)
    BY <1>2 DEF InsideBlock
<1>0. Position \in Nat \ {0} /\ code - 1 \in Nat
    BY <1>2 DEF InsideBlock, Position
<1> PICK e \in Nat \ {0}, c \in Nat : e = Position /\ c = code - 1
    BY <1>0
<1>3. src[e] = c + 1 /\ src[e] \in Nat \ {0} /\ read = e + c /\ read + 1 = e + (c + 1)
  <2>1. e = read - (i - 1) /\ c = i - 1 /\ src[e] = i
      BY <1>2 DEF InsideBlock, Position
  <2> QED BY <1>2, <2>1
<1>4. Theory!Chain(src, P \cup {e}, read + 1) /\ \A q \in P : q < e /\ q + src[q] <= e
    BY <1>3, Theory!ChainGrows
<1>5. CASE Return("OutputTooSmall", 0)
    BY <1>1, <1>5 DEF Return, ComputeInv, Answer
<1>6. ASSUME pc' = "block", src' = src,
             read < Len(src) => Written' = Theory!WithNextCode(Written, c),
             read = Len(src) => Written' = Written
      PROVE  ComputeInv'
  <2>1. ASSUME read < Len(src)
        PROVE  Theory!StandFor(src, (P \cup {e}) \cup {read + 1}, read + 1, Written')
    <3>1. \A q \in P : q \in Nat \ {0} /\ q < e /\ q + src[q] <= e /\ src[q] \in Nat
        BY <1>4 DEF Theory!Chain
    <3>2. Theory!CodeSize /\ Written \in Seq(Nat)
        BY <1>1, TheoryApplies, WrittenShape
    <3> PICK next \in Nat, t \in Seq(Nat) : next = read + 1 /\ t = Written
        BY <1>2, <3>2
    <3>3. Theory!StandFor(src, P \cup {e}, e + c, t) /\ next = e + (c + 1)
        BY <1>3
    <3>4. Theory!StandFor(src, P \cup {e, next}, next, Theory!WithNextCode(t, c))
        BY <1>3, <3>1, <3>2, <3>3, Theory!NextBlockReadBack
    <3>5. P \cup {e, next} = (P \cup {e}) \cup {next}
        OBVIOUS
    <3> QED BY <1>6, <2>1, <3>4, <3>5
  <2>2. read = Len(src) => Theory!StandFor(src, P \cup {e}, read, Written')
      BY <1>6
  <2> DEFINE Q == P \cup {e}
  <2>3. /\ Theory!Chain(src, Q, read + 1)
        /\ read < Len(src) => Theory!StandFor(src, Q \cup {read + 1}, read + 1, Written')
        /\ read = Len(src) /\ read > 0 => Theory!StandFor(src, Q, read, Written')
      BY <1>4, <2>1, <2>2
  <2> HIDE DEF Q
  <2>4. BetweenBlocks'
      BY <1>2, <1>6, <2>3 DEF BetweenBlocks
  <2> QED BY <1>1, <1>6, <2>4 DEF ComputeInv
<1>7. CASE ~ImplicitZero /\ pc' = "block" /\ UNCHANGED <<args, dst, write, code, i, status, length>>
  <2>1. Written' = Written /\ src' = src
      BY <1>7, WrittenStays DEF args
  <2>2. read < Len(src) => c + 1 = MaxCode
      BY <1>2, <1>7 DEF ImplicitZero
  <2> QED BY <1>6, <1>7, <2>1, <2>2 DEF Theory!WithNextCode
<1>8. CASE ImplicitZero /\ Emit(0) /\ pc' = "block" /\ UNCHANGED i
  <2>1. 0 \in Byte
      BY CobsDecodeAssumption DEF Byte
  <2>2. Written' = Written \o <<0>> /\ src' = src
      BY <1>1, <1>8, <2>1, EmitAppends DEF Emit, args
  <2>3. read < Len(src) /\ c + 1 # MaxCode
      BY <1>2, <1>8 DEF ImplicitZero
  <2> QED BY <1>6, <1>8, <2>2, <2>3 DEF Theory!WithNextCode
<1> QED BY <1>5, <1>7, <1>8 DEF EndBlock

(* At the end of the input the chain holds all its code positions.         *)
LEMMA EndOfInputComputes == ComputeInv /\ EndOfInput => ComputeInv'
<1> SUFFICES ASSUME ComputeInv, EndOfInput PROVE ComputeInv'
    OBVIOUS
<1>1. IInv' /\ IInv /\ TypeOK
    BY StepIInv DEF Next, ComputeInv, IInv
<1>2. /\ BetweenBlocks /\ read = Len(src) /\ pc' = "done" /\ length' = write /\ src' = src
      /\ status' = "Ok" /\ Out' = Out
    BY <1>1 DEF ComputeInv, EndOfInput, TypeOK, Return, args, Out
<1>3. Theory!Decodable(src) /\ Written = Theory!Decoding(src)
  <2>1. CASE src = <<>>
    <3>1. Written = <<>>
      <4>1. write = 0
          BY <1>1, <1>2, <2>1 DEF IInv, BlockInv, EndOfInput, TypeOK
      <4> QED BY <1>1, <4>1, WrittenShape
    <3> QED BY <2>1, <3>1 DEF Theory!Decodable, Theory!Decoding
  <2>2. CASE src # <<>>
    <3> PICK r \in Seq(Nat), n \in Nat \ {0} : r = src /\ n = Len(src) /\ n = Len(r)
        BY <1>1, <2>2, TheoryApplies
    <3>1. PICK P : Theory!Chain(r, P, n + 1) /\ Theory!StandFor(r, P, n, Written)
        BY <1>2 DEF BetweenBlocks
    <3>2. Theory!Decodable(r) /\ Theory!Decoding(r) = Written
        BY <1>1, <2>2, <3>1, TheoryApplies, Theory!DecodingFollowed
    <3> QED BY <3>2
  <2> QED BY <2>1, <2>2
<1>4. Answer'
    BY <1>2, <1>3 DEF Answer, Written
<1> QED BY <1>1, <1>2, <1>4 DEF ComputeInv

(* Every step keeps it.                                                    *)
LEMMA StepComputes == ComputeInv /\ [Next]_vars => ComputeInv'
<1> SUFFICES ASSUME ComputeInv, [Next]_vars PROVE ComputeInv'
    OBVIOUS
<1>1. CASE UNCHANGED vars
  <2>1. IInv'
      BY StepIInv DEF ComputeInv
  <2>2. Out' = Out /\ Written' = Written /\ Position' = Position
      BY <1>1 DEF vars, Out, Written, Position
  <2> QED BY <1>1, <2>1, <2>2 DEF ComputeInv, BetweenBlocks, InsideBlock, Answer, vars
<1> QED BY <1>1, ReadCodeComputes, CopyByteComputes, EndBlockComputes, EndOfInputComputes DEF Next

(* The loop starts with no blocks.                                         *)
LEMMA InitComputes == Init => ComputeInv
<1> SUFFICES ASSUME Init PROVE ComputeInv
    OBVIOUS
<1>1. IInv /\ TypeOK /\ pc = "block" /\ read = 0 /\ write = 0
    BY InitIInv DEF Init, IInv
<1>2. Written = <<>>
    BY <1>1, WrittenShape
<1>3. Theory!Chain(src, {}, 1) /\ Theory!StandFor(src, {} \cup {1}, 1, <<>>)
    BY Theory!ChainBegins, Theory!FirstStandsForNothing
<1>4. BetweenBlocks
  <2>1. read + 1 = 1 /\ ~ (read > 0)
      BY <1>1
  <2>2. /\ Theory!Chain(src, {}, read + 1)
        /\ Theory!StandFor(src, {} \cup {read + 1}, read + 1, Written)
      BY <1>2, <1>3, <2>1
  <2> QED BY <2>1, <2>2 DEF BetweenBlocks
<1> QED BY <1>1, <1>4 DEF ComputeInv

(* It holds in every reachable state.                                      *)
LEMMA Computes == Spec => []ComputeInv
BY InitComputes, StepComputes, PTL DEF Spec

(* The definitions that the runs check are those of the theory.            *)
LEMMA SameDefinitions ==
    /\ \A s : Reference!Encoding(s) = Theory!Encoding(s)
    /\ \A r : Reference!Decoding(r) = Theory!Decoding(r)
    /\ \A r : Reference!Decodable(r) <=> Theory!Decodable(r)
<1>1. \A s : Reference!Encoding(s) = Theory!Encoding(s)
    BY DEF Reference!Encoding, Theory!Encoding, Reference!RunLength, Theory!RunLength
<1>2. \A r : Reference!Decoding(r) = Theory!Decoding(r)
    BY DEF Reference!Decoding, Theory!Decoding, Reference!IsCodePosition, Theory!IsCodePosition
<1>3. \A r : Reference!Decodable(r) <=> Theory!Decodable(r)
    BY DEF Reference!Decodable, Theory!Decodable, Reference!CodePositions, Theory!CodePositions,
           Reference!IsCodePosition, Theory!IsCodePosition
<1> QED BY <1>1, <1>2, <1>3

(* The result is the first length bytes of the buffer.                     *)
LEMMA ResultIsPrefix ==
    ASSUME IInv, Succeeded
    PROVE  Result = Theory!Prefix(Out, length) /\ length = write
<1>1. length \in Nat /\ dstCap \in Nat /\ length <= dstCap /\ length = write
    BY DEF IInv, TypeOK
<1>2. \A k \in 1 .. length : Out[k] = dst[k - 1]
    BY <1>1 DEF Out
<1> QED BY <1>1, <1>2 DEF Result, Theory!Prefix

(* cobs_decode accepts the sequences of whole blocks and no others, and    *)
(* computes their decoding, for regions of every length.                   *)
THEOREM DecodesTheInput == Spec => []DecodesAsDefined
<1>1. ASSUME ComputeInv PROVE DecodesAsDefined
  <2> SUFFICES ASSUME pc = "done", dstCap >= Len(src)
               PROVE  IF Reference!Decodable(src)
                      THEN status = "Ok" /\ Result = Reference!Decoding(src)
                      ELSE status = "MalformedInput"
      BY DEF DecodesAsDefined
  <2>1. IInv /\ Answer /\ status \in CobsStatus
      BY <1>1 DEF ComputeInv, IInv, TypeOK
  <2>2. status # "OutputTooSmall"
      BY <2>1 DEF IInv, TypeOK, DecodeShrinks
  <2>3. CASE status = "Ok"
    <3>1. Theory!Decodable(src) /\ Result = Theory!Decoding(src)
        BY <2>1, <2>3, ResultIsPrefix DEF Answer, Succeeded
    <3> QED BY <2>3, <3>1, SameDefinitions
  <2>4. CASE status = "MalformedInput"
    <3>1. ~ Theory!Decodable(src)
        BY <2>1, <2>4 DEF Answer
    <3> QED BY <2>4, <3>1, SameDefinitions
  <2> QED BY <2>1, <2>2, <2>3, <2>4 DEF CobsStatus
<1> QED BY <1>1, Computes, PTL

-----------------------------------------------------------------------------
(* A region that FrameReader can hold is what its decoding encodes to.     *)
(* The blocks read so far are those that the encoding of every sequence    *)
(* begins with that begins with the bytes written so far: such a region    *)
(* has a block of full length only at its end, so every block read before  *)
(* the last one has written its zero.                                      *)
Short == Len(src) \in 1 .. MaxCode /\ \A k \in 1 .. Len(src) : src[k] # 0

Extends(t) ==
    /\ t \in Seq(Nat) /\ Len(t) >= write
    /\ \A k \in 1 .. write : t[k] = Out[k]

EncodedBefore(n, start) ==
    \A t, f : Extends(t) /\ Theory!Encodes(t, f) =>
                  Theory!Completes(f[start], Theory!Prefix(src, n), f[0])

WholeEncoded == \A f : Theory!Encodes(Written, f) => Theory!Prefix(src, Len(src)) = f[0]

BlockStart == write - (i - 1)

CanonicalInside ==
    /\ i - 1 <= write
    /\ \A j \in 1 .. i - 1 : Out[BlockStart + j] = src[Position + j]
    /\ EncodedBefore(Position - 1, BlockStart)

CanonicalInv ==
    /\ ComputeInv
    /\ Short => /\ pc = "block" /\ read < Len(src) => EncodedBefore(read, write)
                /\ pc = "block" /\ read = Len(src) => WholeEncoded
                /\ pc = "copy" => CanonicalInside
                /\ Succeeded => WholeEncoded

(* What extends the output with one more byte extends the output, and has  *)
(* that byte.                                                              *)
LEMMA EmitExtends ==
    ASSUME IInv, NEW b \in Byte, Emit(b)
    PROVE  /\ \A t : Extends(t)' => Extends(t) /\ t[write + 1] = b /\ Len(t) >= write + 1
           /\ \A k \in 1 .. write : Out'[k] = Out[k]
           /\ Out'[write + 1] = b
<1>1. /\ write \in Nat /\ dstCap \in Nat /\ write < dstCap /\ write' = write + 1 /\ dstCap' = dstCap
      /\ dst \in [0 .. dstCap - 1 -> Byte \cup {Unwritten}] /\ dst' = [dst EXCEPT ![write] = b]
    BY DEF IInv, TypeOK, Emit, args
<1>2. \A k \in 1 .. write : Out'[k] = Out[k]
    BY <1>1 DEF Out
<1>3. Out'[write + 1] = b
    BY <1>1 DEF Out
<1>4. ASSUME NEW t, Extends(t)' PROVE Extends(t) /\ t[write + 1] = b /\ Len(t) >= write + 1
  <2>1. t \in Seq(Nat) /\ Len(t) >= write + 1 /\ \A k \in 1 .. write + 1 : t[k] = Out'[k]
      BY <1>1, <1>4 DEF Extends
  <2> QED BY <1>1, <1>2, <1>3, <2>1 DEF Extends
<1> QED BY <1>2, <1>3, <1>4

(* The output extends itself.                                              *)
LEMMA WrittenExtends == ASSUME IInv PROVE Extends(Written) /\ Len(Written) = write
<1>1. write \in Nat /\ \A k \in 1 .. write : Out[k] \in Nat
    BY WrittenShape
<1>2. \A k \in 1 .. write : Written[k] = Out[k]
    BY <1>1, Theory!PrefixShape DEF Written
<1> QED BY <1>1, <1>2, WrittenShape DEF Extends

(* A block that was copied is the block its bytes encode to.               *)
LEMMA BlockIsCanonical ==
    ASSUME IInv, InsideBlock, CanonicalInside, Short, i = code,
           NEW t, Extends(t), NEW f, Theory!Encodes(t, f),
           code = MaxCode \/ Len(t) = write \/ t[write + 1] = 0
    PROVE  /\ Len(t) = write => Theory!Prefix(src, read) = f[0]
           /\ Len(t) # write =>
                Theory!Completes(f[IF code = MaxCode THEN write ELSE write + 1],
                                 Theory!Prefix(src, read), f[0])
<1>1. /\ TypeOK /\ write \in Nat /\ read \in Nat /\ i \in 1 .. MaxCode /\ MaxCode \in Nat
      /\ read <= Len(src) /\ Position >= 1 /\ code = src[Position]
    BY CobsDecodeAssumption DEF IInv, TypeOK, InsideBlock
<1> PICK e \in Nat \ {0}, c \in 0 .. MaxCode - 1 : e = Position /\ c = i - 1
    BY <1>1 DEF Position
<1>2. read = e + c /\ src[e] = c + 1 /\ c \in Nat
  <2>1. e = read - c
      BY DEF Position
  <2> QED BY <1>1, <2>1
<1>3. t \in Seq(Nat) /\ Len(t) \in Nat /\ Len(t) >= write /\ \A k \in 1 .. write : t[k] = Out[k]
    BY DEF Extends
<1>4. c <= write
    BY DEF CanonicalInside
<1> PICK start \in 0 .. Len(t) : start = BlockStart /\ start = write - c
    BY <1>1, <1>2, <1>3, <1>4 DEF BlockStart
<1>5. start + c = write
    BY <1>1, <1>2
<1>6. ASSUME NEW j \in 1 .. c PROVE t[start + j] = src[e + j] /\ src[e + j] # 0
  <2>1. Out[start + j] = src[e + j]
      BY DEF CanonicalInside
  <2>2. start + j \in 1 .. write /\ e + j \in 1 .. Len(src)
      BY <1>1, <1>2, <1>5
  <2> QED BY <1>3, <2>1, <2>2 DEF Short
<1>7. Theory!IsRun(t, start, c)
  <2>1. start + c <= Len(t) /\ start + c + 1 = write + 1
      BY <1>3, <1>5
  <2>2. c = MaxCode - 1 \/ start + c = Len(t) \/ t[start + c + 1] = 0
      BY <1>1, <1>5
  <2> QED BY <1>6, <2>1, <2>2 DEF Theory!IsRun
<1>8. Theory!Wrote(t, start, c, src, e)
    BY <1>2, <1>6 DEF Theory!Wrote
<1>9. Theory!Completes(f[start], Theory!Prefix(src, e - 1), f[0])
    BY DEF CanonicalInside, EncodedBefore
<1>10. \A k \in 1 .. e - 1 : src[k] \in Nat
  <2>1. src \in Seq(Nat) /\ \A k \in 1 .. e - 1 : k \in 1 .. Len(src)
      BY <1>1, <1>2, TheoryApplies
  <2> QED BY <2>1
<1>11. Theory!Encoded(t, start, c, f, src, e)
    BY <1>1, <1>3, <1>7, <1>8, <1>9, <1>10, TheoryApplies, Theory!BlockEncoded
<1>12. c = MaxCode - 1 <=> code = MaxCode
  <2>1. c \in Nat /\ MaxCode \in Nat /\ code = c + 1
      BY <1>1, <1>2
  <2> HIDE <1>1
  <2> QED BY <2>1
<1> QED BY <1>2, <1>5, <1>11, <1>12 DEF Theory!Encoded

(* Reading a code byte leaves the output alone.                            *)
LEMMA ReadCodeCanonical == CanonicalInv /\ ReadCode => CanonicalInv'
<1> SUFFICES ASSUME CanonicalInv, ReadCode PROVE CanonicalInv'
    OBVIOUS
<1>1. ComputeInv' /\ IInv /\ TypeOK
    BY StepComputes DEF Next, CanonicalInv, ComputeInv, IInv
<1>2. src' = src /\ read < Len(src) /\ read \in Nat /\ read' = read + 1 /\ write \in Nat
    BY <1>1 DEF ReadCode, Return, args, TypeOK
<1>3. CASE Return("MalformedInput", 0)
    BY <1>1, <1>2, <1>3 DEF Return, CanonicalInv, Succeeded
<1>4. CASE pc' = "copy" /\ i' = 1 /\ UNCHANGED <<args, dst, write, status, length>>
  <2>1. Short' => Short
      BY <1>2 DEF Short
  <2>2. ASSUME Short PROVE CanonicalInside'
    <3>1. EncodedBefore(read, write)
        BY <1>2, <2>2 DEF CanonicalInv, ReadCode
    <3>2. BlockStart' = write /\ Position' - 1 = read /\ i' - 1 = 0 /\ write' = write
        BY <1>2, <1>4 DEF BlockStart, Position
    <3>3. \A t : Extends(t)' => Extends(t)
        BY <1>4 DEF Extends, Out, args
    <3>4. EncodedBefore(Position - 1, BlockStart)'
        BY <1>2, <3>1, <3>2, <3>3 DEF EncodedBefore
    <3> QED BY <1>2, <3>2, <3>4 DEF CanonicalInside
  <2> QED BY <1>1, <1>4, <2>1, <2>2 DEF CanonicalInv, Succeeded
<1> QED BY <1>3, <1>4 DEF ReadCode

(* A copied byte is the next one of the block.                             *)
LEMMA CopyByteCanonical == CanonicalInv /\ CopyByte => CanonicalInv'
<1> SUFFICES ASSUME CanonicalInv, CopyByte PROVE CanonicalInv'
    OBVIOUS
<1>1. ComputeInv' /\ IInv /\ TypeOK
    BY StepComputes DEF Next, CanonicalInv, ComputeInv, IInv
<1>2. read \in Nat /\ write \in Nat /\ i \in Nat /\ i >= 1 /\ pc = "copy"
    BY <1>1 DEF TypeOK, CopyByte
<1>3. CASE Return("MalformedInput", 0) \/ Return("OutputTooSmall", 0)
    BY <1>1, <1>3 DEF Return, CanonicalInv, Succeeded
<1>4. CASE read < Len(src) /\ Emit(src[read + 1]) /\ read' = read + 1 /\ i' = i + 1 /\ UNCHANGED pc
  <2> PICK b \in Byte : b = src[read + 1]
      BY <1>1, <1>4 DEF TypeOK
  <2>1. /\ \A t : Extends(t)' => Extends(t)
        /\ \A k \in 1 .. write : Out'[k] = Out[k]
        /\ Out'[write + 1] = b
    <3>1. Emit(b)
        BY <1>4
    <3> QED BY <1>1, <3>1, EmitExtends
  <2>2. /\ src' = src /\ write' = write + 1 /\ Position' = Position /\ BlockStart' = BlockStart
        /\ i' - 1 = i
      BY <1>2, <1>4 DEF Emit, args, Position, BlockStart
  <2>3. Short' => Short
      BY <2>2 DEF Short
  <2>4. ASSUME Short PROVE CanonicalInside'
    <3>1. CanonicalInside
        BY <1>2, <2>4 DEF CanonicalInv
    <3>2. EncodedBefore(Position - 1, BlockStart)'
        BY <2>1, <2>2, <3>1 DEF CanonicalInside, EncodedBefore
    <3>3. ASSUME NEW j \in 1 .. i PROVE Out'[BlockStart + j] = src[Position + j]
      <4>1. CASE j = i
        <5>1. BlockStart + j = write + 1 /\ Position + j = read + 1
            BY <1>2, <4>1 DEF BlockStart, Position
        <5> QED BY <2>1, <5>1
      <4>2. CASE j # i
        <5>1. j \in 1 .. i - 1
            BY <1>2, <4>2
        <5>2. BlockStart + j \in 1 .. write
            BY <1>2, <3>1, <5>1 DEF BlockStart, CanonicalInside
        <5> QED BY <2>1, <3>1, <5>1, <5>2 DEF CanonicalInside
      <4> QED BY <4>1, <4>2
    <3>4. i' - 1 <= write'
        BY <1>2, <2>2, <3>1 DEF CanonicalInside
    <3> QED BY <2>2, <3>2, <3>3, <3>4 DEF CanonicalInside
  <2> QED BY <1>1, <1>2, <1>4, <2>3, <2>4 DEF CanonicalInv, Succeeded
<1> QED BY <1>3, <1>4 DEF CopyByte

(* The end of a block: before the end of the input it is a short one,      *)
(* since a full one would have filled the region.                          *)
LEMMA EndBlockCanonical == CanonicalInv /\ EndBlock => CanonicalInv'
<1> SUFFICES ASSUME CanonicalInv, EndBlock PROVE CanonicalInv'
    OBVIOUS
<1>1. ComputeInv' /\ IInv /\ TypeOK /\ InsideBlock /\ i = code /\ pc = "copy"
    BY StepComputes DEF Next, CanonicalInv, ComputeInv, IInv, EndBlock, TypeOK
<1>2. read \in Nat /\ write \in Nat /\ read' = read /\ Len(src) \in Nat /\ read <= Len(src)
    BY <1>1 DEF TypeOK, EndBlock
<1>3. CASE Return("OutputTooSmall", 0)
    BY <1>1, <1>3 DEF Return, CanonicalInv, Succeeded
<1>4. ASSUME Short PROVE CanonicalInside /\ (read < Len(src) => code # MaxCode)
  <2>1. ASSUME read < Len(src), code = MaxCode PROVE FALSE
    <3>1. Position >= 1 /\ Position = read - (MaxCode - 1) /\ MaxCode \in Nat
        BY <1>1, <2>1, CobsDecodeAssumption DEF InsideBlock, Position
    <3>2. read >= MaxCode
        BY <1>2, <3>1
    <3>3. Len(src) <= MaxCode
        BY <1>4, <3>1 DEF Short
    <3> QED BY <1>2, <2>1, <3>1, <3>2, <3>3
  <2> QED BY <1>1, <1>4, <2>1 DEF CanonicalInv
<1>5. CASE ~ImplicitZero /\ pc' = "block" /\ UNCHANGED <<args, dst, write, code, i, status, length>>
  <2>1. Short' = Short /\ Written' = Written /\ src' = src
      BY <1>5, WrittenStays DEF Short, args
  <2>2. ASSUME Short PROVE read = Len(src) /\ WholeEncoded'
    <3>1. read = Len(src)
        BY <1>2, <1>4, <1>5, <2>2 DEF ImplicitZero
    <3>2. ASSUME NEW f, Theory!Encodes(Written, f) PROVE Theory!Prefix(src, Len(src)) = f[0]
        BY <1>1, <1>4, <2>2, <3>1, <3>2, WrittenExtends, BlockIsCanonical
    <3>3. WholeEncoded
        BY <3>2 DEF WholeEncoded
    <3> QED BY <2>1, <3>1, <3>3 DEF WholeEncoded
  <2> QED BY <1>1, <1>2, <1>5, <2>1, <2>2 DEF CanonicalInv, Succeeded
<1>6. CASE ImplicitZero /\ Emit(0) /\ pc' = "block" /\ UNCHANGED i
  <2>0. 0 \in Byte
      BY CobsDecodeAssumption DEF Byte
  <2>1. \A t : Extends(t)' => Extends(t) /\ t[write + 1] = 0 /\ Len(t) >= write + 1
      BY <1>1, <1>6, <2>0, EmitExtends
  <2>2. src' = src /\ write' = write + 1 /\ read < Len(src)
      BY <1>6 DEF Emit, args, ImplicitZero
  <2>3. Short' = Short
      BY <2>2 DEF Short
  <2>4. ASSUME Short PROVE EncodedBefore(read, write)'
    <3>1. ASSUME NEW t, NEW f, Extends(t)', Theory!Encodes(t, f)
          PROVE  Theory!Completes(f[write + 1], Theory!Prefix(src, read), f[0])
      <4>1. Extends(t) /\ t[write + 1] = 0 /\ Len(t) # write /\ code # MaxCode
          BY <1>2, <1>4, <2>1, <2>2, <2>4, <3>1 DEF Extends
      <4> QED BY <1>1, <1>4, <2>4, <3>1, <4>1, BlockIsCanonical
    <3> QED BY <1>2, <2>2, <3>1 DEF EncodedBefore
  <2> QED BY <1>1, <1>2, <1>6, <2>2, <2>3, <2>4 DEF CanonicalInv, Succeeded
<1> QED BY <1>3, <1>5, <1>6 DEF EndBlock

(* The end of the input leaves the output alone.                           *)
LEMMA EndOfInputCanonical == CanonicalInv /\ EndOfInput => CanonicalInv'
<1> SUFFICES ASSUME CanonicalInv, EndOfInput PROVE CanonicalInv'
    OBVIOUS
<1>1. ComputeInv' /\ TypeOK
    BY StepComputes DEF Next, CanonicalInv, ComputeInv, IInv
<1>2. /\ read = Len(src) /\ pc = "block" /\ pc' = "done" /\ src' = src
      /\ UNCHANGED <<dstCap, dst, write>>
    BY <1>1 DEF EndOfInput, TypeOK, Return, args
<1>3. Short' = Short /\ WholeEncoded' = WholeEncoded
    BY <1>2, WrittenStays DEF Short, WholeEncoded
<1> QED BY <1>1, <1>2, <1>3 DEF CanonicalInv

(* Every step keeps it.                                                    *)
LEMMA StepCanonical == CanonicalInv /\ [Next]_vars => CanonicalInv'
<1> SUFFICES ASSUME CanonicalInv, [Next]_vars PROVE CanonicalInv'
    OBVIOUS
<1>1. CASE UNCHANGED vars
  <2>1. ComputeInv'
      BY StepComputes DEF CanonicalInv
  <2>2. Out' = Out /\ Written' = Written /\ Position' = Position /\ BlockStart' = BlockStart
      BY <1>1 DEF vars, Out, Written, Position, BlockStart
  <2>3. /\ Short' = Short /\ WholeEncoded' = WholeEncoded
        /\ EncodedBefore(read, write)' = EncodedBefore(read, write)
        /\ CanonicalInside' = CanonicalInside
      BY <1>1, <2>2 DEF vars, Short, WholeEncoded, EncodedBefore, CanonicalInside, Extends
  <2> QED BY <1>1, <2>1, <2>3 DEF CanonicalInv, Succeeded, vars
<1> QED BY <1>1, ReadCodeCanonical, CopyByteCanonical, EndBlockCanonical, EndOfInputCanonical DEF Next

(* No blocks, and nothing written: any encoding goes on from there.        *)
LEMMA InitCanonical == Init => CanonicalInv
<1> SUFFICES ASSUME Init PROVE CanonicalInv
    OBVIOUS
<1>1. ComputeInv /\ TypeOK /\ pc = "block" /\ read = 0 /\ write = 0
    BY InitComputes DEF Init, ComputeInv, IInv
<1>2. EncodedBefore(read, write)
  <2>1. ASSUME NEW t, NEW f, Extends(t), Theory!Encodes(t, f)
        PROVE  Theory!Completes(f[0], Theory!Prefix(src, 0), f[0])
    <3>1. Theory!BlocksOf(t, 0, src, 1)
        BY <1>1, <2>1, TheoryApplies, Theory!NoBlocksYet DEF Extends
    <3>2. 1 - 1 = 0
        OBVIOUS
    <3> QED BY <2>1, <3>1, <3>2 DEF Theory!BlocksOf
  <2> QED BY <1>1, <2>1 DEF EncodedBefore
<1>3. Short => read # Len(src)
    BY <1>1 DEF Short
<1> QED BY <1>1, <1>2, <1>3 DEF CanonicalInv, Succeeded

(* No two regions that FrameReader can hold decode to the same block: each *)
(* is what its decoding encodes to.                                        *)
THEOREM ShortRegionsAreCanonical == Spec => []ShortRegionIsCanonical
<1>1. ASSUME CanonicalInv PROVE ShortRegionIsCanonical
  <2> SUFFICES ASSUME Succeeded, Short PROVE Reference!Encoding(Result) = src
      BY DEF ShortRegionIsCanonical, Short
  <2>1. IInv /\ TypeOK /\ WholeEncoded
      BY <1>1 DEF CanonicalInv, ComputeInv, IInv
  <2>2. Result = Written /\ Written \in Seq(Nat)
      BY <2>1, ResultIsPrefix, WrittenShape DEF Written
  <2> PICK w \in Seq(Nat) : w = Written /\ Len(w) \in Nat
      BY <2>2
  <2> PICK f : Theory!Encodes(w, f) /\ Theory!Encoding(w) = f[0]
      BY <2>1, TheoryApplies, Theory!EncodingFollowed
  <2>3. Theory!Prefix(src, Len(src)) = f[0]
      BY <2>1 DEF WholeEncoded
  <2>4. Theory!Prefix(src, Len(src)) = src
    <3>1. src \in Seq(Nat)
        BY <2>1, TheoryApplies
    <3> QED BY <3>1 DEF Theory!Prefix
  <2> QED BY <2>2, <2>3, <2>4, SameDefinitions
<1>2. Spec => []CanonicalInv
    BY InitCanonical, StepCanonical, PTL DEF Spec
<1> QED BY <1>1, <1>2, PTL

=============================================================================
