CONSTANTS
    a = a
    b = b
    zero = zero
    Byte <- MCByte
    Delimiter = zero
    RegionCap <- MCRegionCap
    Frame <- MCFrame
    FrameStatus <- MCFrameStatus
    InitialFrame <- MCInitialFrame
    DecodeRegion <- MCDecodeRegion
SPECIFICATION HSpec
CONSTRAINT ShortPiece
INVARIANTS
    TypeOK
    BufferIsPrefix
PROPERTY RefinesSplitter
