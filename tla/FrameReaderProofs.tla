------------------------- MODULE FrameReaderProofs -------------------------
(***************************************************************************)
(* The FrameReader is correct for every alphabet, buffer size and decoder: *)
(* its variables keep their types, its buffer holds the prefix of the      *)
(* piece that fits, and so it implements FrameSplitter.                    *)
(***************************************************************************)
EXTENDS FrameReaderHistory, TLAPS

\* A piece is a sequence of data bytes, of any length.
PieceOK == piece \in Seq(Byte \ {Delimiter})

IInv == TypeOK /\ PieceOK /\ BufferIsPrefix

(* A region and a piece that begin are in order.                           *)
LEMMA EmptyRegion ==
    region = <<>> /\ piece = <<>> /\ overflow = FALSE
        => /\ region \in Seq(Byte \ {Delimiter}) /\ Len(region) <= RegionCap
           /\ PieceOK /\ BufferIsPrefix
<1> SUFFICES ASSUME region = <<>>, piece = <<>>, overflow = FALSE
             PROVE  /\ region \in Seq(Byte \ {Delimiter}) /\ Len(region) <= RegionCap
                    /\ PieceOK /\ BufferIsPrefix
    OBVIOUS
<1>1. <<>> \in Seq(Byte \ {Delimiter}) /\ Len(<<>>) = 0
    OBVIOUS
<1>2. ~(0 > RegionCap) /\ 0 <= RegionCap
    BY FrameReaderAssumption
<1>3. \A k \in 1 .. Len(region) : region[k] = piece[k]
    OBVIOUS
<1> QED BY <1>1, <1>2, <1>3 DEF PieceOK, BufferIsPrefix

(* The same of the next state.                                              *)
LEMMA EmptyRegionNext ==
    (region = <<>> /\ piece = <<>> /\ overflow = FALSE)'
        => (/\ region \in Seq(Byte \ {Delimiter}) /\ Len(region) <= RegionCap
            /\ PieceOK /\ BufferIsPrefix)'
BY EmptyRegion, PTL

(* A new reader is in order.                                                *)
LEMMA InitIInv == HInit => IInv
BY FrameReaderAssumption, EmptyRegion DEF HInit, Init, IInv, TypeOK, Event

(* A byte that fits extends the buffer and the piece alike.                 *)
LEMMA AccumulateStep ==
    ASSUME IInv, NEW byte \in Byte, HPush(byte), Accumulate(byte)
    PROVE  IInv'
<1> USE FrameReaderAssumption DEF IInv, TypeOK, PieceOK, BufferIsPrefix
<1>1. byte # Delimiter /\ region' = Append(region, byte) /\ piece' = Append(piece, byte)
    BY DEF HPush, Accumulate
<1>2. ~overflow /\ Len(piece) = Len(region)
    BY DEF Accumulate
<1>3. BufferIsPrefix'
    BY <1>1, <1>2 DEF Accumulate
<1>4. TypeOK' /\ PieceOK'
    BY <1>1 DEF Accumulate, Event
<1> QED BY <1>3, <1>4

(* A byte that does not fit extends the piece only.                         *)
LEMMA OverflowStep ==
    ASSUME IInv, NEW byte \in Byte, HPush(byte), Overflow(byte)
    PROVE  IInv'
<1> USE FrameReaderAssumption DEF IInv, TypeOK, PieceOK, BufferIsPrefix
<1>1. byte # Delimiter /\ region' = region /\ overflow' /\ piece' = Append(piece, byte)
    BY DEF HPush, Overflow
<1>2. Len(piece) >= RegionCap
    BY DEF Overflow
<1>3. BufferIsPrefix'
    BY <1>1, <1>2 DEF Overflow
<1>4. TypeOK' /\ PieceOK'
    BY <1>1 DEF Overflow, Event
<1> QED BY <1>3, <1>4

(* A delimiter, whatever it closes, leaves an empty region and piece.       *)
LEMMA DelimiterStep ==
    ASSUME IInv, NEW byte \in Byte, HPush(byte),
           SkipEmpty(byte) \/ CloseOverflowed(byte) \/ CloseRegion(byte)
    PROVE  IInv'
<1> USE FrameReaderAssumption DEF IInv, PieceOK, BufferIsPrefix
<1>1. piece' = <<>> /\ region' = <<>> /\ overflow' = FALSE
    BY DEF HPush, SkipEmpty, CloseOverflowed, CloseRegion, StartRegion, TypeOK
<1>2. frame' \in Frame /\ lastStatus' \in FrameStatus /\ event' \in Event
  <2>1. CASE SkipEmpty(byte) \/ CloseOverflowed(byte)
      BY <2>1 DEF SkipEmpty, CloseOverflowed, TypeOK, Event
  <2>2. CASE CloseRegion(byte)
    <3>1. Len(region) \in 1 .. RegionCap /\ region \in [1 .. Len(region) -> Byte \ {Delimiter}]
        BY <2>2 DEF CloseRegion, TypeOK
    <3>2. /\ DecodeRegion(region).status \in FrameStatus
          /\ DecodeRegion(region).status = "Ok" => DecodeRegion(region).frame \in Frame
        BY <3>1
    <3> QED BY <2>2, <3>2 DEF CloseRegion, TypeOK, Event
  <2> QED BY <2>1, <2>2
<1> HIDE DEF PieceOK, BufferIsPrefix
<1>3. (region \in Seq(Byte \ {Delimiter}))' /\ (Len(region) <= RegionCap)' /\ PieceOK' /\ BufferIsPrefix'
    BY <1>1, EmptyRegionNext
<1> QED BY <1>1, <1>2, <1>3 DEF TypeOK

(* So does a reset.                                                         *)
LEMMA ResetStep == IInv /\ HReset => IInv'
BY EmptyRegionNext DEF IInv, TypeOK, HReset, Reset, StartRegion

(* The invariant holds in every reachable state.                           *)
LEMMA Inductive == HSpec => []IInv
<1>1. IInv /\ UNCHANGED hVars => IInv'
    BY DEF IInv, TypeOK, PieceOK, BufferIsPrefix, hVars, readerVars
<1>2. ASSUME IInv, NEW byte \in Byte, HPush(byte) PROVE IInv'
    BY <1>2, AccumulateStep, OverflowStep, DelimiterStep DEF HPush, Push
<1>3. IInv /\ [HNext]_hVars => IInv'
    BY <1>1, <1>2, ResetStep DEF HNext
<1> QED BY InitIInv, <1>3, PTL DEF HSpec

(* The region never outgrows its buffer and never holds a delimiter.       *)
THEOREM TypeCorrect == HSpec => []TypeOK
<1>1. IInv => TypeOK
    BY DEF IInv
<1> QED BY Inductive, <1>1, PTL

(* The buffer is the prefix of the piece, the flag says if it is a proper  *)
(* one.                                                                    *)
THEOREM PrefixKept == HSpec => []BufferIsPrefix
<1>1. IInv => BufferIsPrefix
    BY DEF IInv
<1> QED BY Inductive, <1>1, PTL

-----------------------------------------------------------------------------
(* While nothing has overflowed the buffer is the piece itself.            *)
LEMMA RegionIsPiece ==
    ASSUME IInv
    PROVE  /\ ~overflow => region = piece /\ Len(piece) <= RegionCap
           /\ overflow => Len(piece) > RegionCap /\ piece # <<>>
BY FrameReaderAssumption DEF IInv, TypeOK, PieceOK, BufferIsPrefix

(* Each way through push is one step of the splitter.                      *)
LEMMA PushRefines ==
    ASSUME IInv, NEW byte \in Byte, HPush(byte)
    PROVE  Splitter!Next
<1> USE FrameReaderAssumption
<1>1. CASE Accumulate(byte) \/ Overflow(byte)
  <2>1. Splitter!Gather(byte)
      BY <1>1 DEF HPush, Accumulate, Overflow, Splitter!Gather
  <2> QED BY <2>1 DEF Splitter!Next
<1>2. CASE SkipEmpty(byte)
  <2>1. Splitter!Boundary
      BY <1>2, RegionIsPiece DEF HPush, SkipEmpty, Splitter!Boundary
  <2> QED BY <2>1 DEF Splitter!Next
<1>3. CASE CloseOverflowed(byte)
  <2>1. Splitter!Verdict(piece) = "BufferTooSmall" /\ piece # <<>>
      BY <1>3, RegionIsPiece DEF CloseOverflowed, Splitter!Verdict
  <2>2. Splitter!Refuse
      BY <1>3, <2>1 DEF HPush, CloseOverflowed, Splitter!Refuse
  <2> QED BY <2>2 DEF Splitter!Next
<1>4. CASE CloseRegion(byte)
  <2>1. region = piece /\ piece # <<>> /\ piece' = <<>>
      BY <1>4, RegionIsPiece DEF HPush, CloseRegion
  <2>2. Splitter!Verdict(piece) = DecodeRegion(region).status
      BY <1>4, <2>1, RegionIsPiece DEF CloseRegion, Splitter!Verdict, IInv, TypeOK
  <2>3. Splitter!Accept \/ Splitter!Refuse
      BY <1>4, <2>1, <2>2 DEF CloseRegion, Splitter!Accept, Splitter!Refuse
  <2> QED BY <2>3 DEF Splitter!Next
<1> QED BY <1>1, <1>2, <1>3, <1>4 DEF HPush, Push

(* The reader implements the splitter, with piece for the splitter's piece *)
(* and its own variables for the rest: what a bounded buffer, a flag and   *)
(* two resets do is what cutting at delimiters does.                       *)
THEOREM ReaderImplementsSplitter == HSpec => RefinesSplitter
<1>1. HInit => Splitter!Init
    BY DEF HInit, Init, Splitter!Init
<1>2. IInv /\ [HNext]_hVars => [Splitter!Next]_(Splitter!splitterVars)
  <2>1. HReset => Splitter!Next
      BY DEF HReset, Reset, Splitter!Next, Splitter!Forget
  <2>2. UNCHANGED hVars => UNCHANGED Splitter!splitterVars
      BY DEF hVars, readerVars, Splitter!splitterVars
  <2> QED BY <2>1, <2>2, PushRefines DEF HNext
<1> QED BY <1>1, <1>2, Inductive, PTL DEF HSpec, RefinesSplitter, Splitter!Spec

=============================================================================
