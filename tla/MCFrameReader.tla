--------------------------- MODULE MCFrameReader ---------------------------
EXTENDS FrameReaderHistory, FiniteSets

CONSTANTS a, b, zero

MCByte == {a, b, zero}
MCRegionCap == 3
MCFrameStatus == {"Ok", "BufferTooSmall", "Truncated", "CobsError", "CrcMismatch"}
MCInitialFrame == <<>>
MCFrame == {<<>>, <<a>>, <<b>>, <<a, b>>}

\* Some regions are good and name different frames, also one that fills the
\* buffer and one that is a prefix of longer ones; the rest fail one way or another.
MCDecodeRegion(r) ==
    IF r \in {<<a>>, <<b>>, <<a, b>>} THEN [status |-> "Ok", frame |-> r]
    ELSE IF r = <<a, a, b>> THEN [status |-> "Ok", frame |-> <<b>>]
    ELSE IF Len(r) = 1 THEN [status |-> "Truncated", frame |-> <<>>]
    ELSE IF r[1] = b THEN [status |-> "CrcMismatch", frame |-> <<>>]
    ELSE [status |-> "CobsError", frame |-> <<>>]

\* Pieces are followed to two bytes past the end of the buffer.
MaxPiece == RegionCap + 2
ShortPiece == Len(piece) <= MaxPiece

=============================================================================
