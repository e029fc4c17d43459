------------------------- MODULE FrameReaderHistory -------------------------
(***************************************************************************)
(* FrameReader with one history variable, piece: every byte pushed since   *)
(* the latest delimiter or reset, the dropped ones included.  The reader   *)
(* never reads it.  With it the reader is shown to implement               *)
(* FrameSplitter.                                                          *)
(***************************************************************************)
EXTENDS FrameReader

VARIABLE piece

hVars == <<readerVars, piece>>

HInit == Init /\ piece = <<>>

HPush(byte) ==
    /\ Push(byte)
    /\ piece' = IF byte = Delimiter THEN <<>> ELSE Append(piece, byte)

HReset == Reset /\ piece' = <<>>

HNext == HReset \/ \E byte \in Byte : HPush(byte)

HSpec == HInit /\ [][HNext]_hVars

-----------------------------------------------------------------------------
Splitter == INSTANCE FrameSplitter WITH Limit <- RegionCap

(* The reader implements the splitter: a region cut short by the buffer is *)
(* never decoded, the overflow of one piece never dooms another, a failed  *)
(* decode leaves the previous frame alone, and frame, lastStatus and the   *)
(* returned event change only as the splitter says.                        *)
RefinesSplitter == Splitter!Spec

(* The buffer holds the first RegionCap bytes of the piece, and the        *)
(* overflow flag says exactly that the piece is longer than that: neither  *)
(* survives a delimiter or a reset, and no byte is dropped in between.     *)
BufferIsPrefix ==
    /\ overflow <=> Len(piece) > RegionCap
    /\ Len(region) = IF overflow THEN RegionCap ELSE Len(piece)
    /\ \A k \in 1 .. Len(region) : region[k] = piece[k]

=============================================================================
