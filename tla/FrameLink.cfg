CONSTANTS
    FrameLength <- MCFrameLength
    RegionCap <- MCRegionCap
    MaxFaults <- MCMaxFaults
    Delimiter = Delimiter
    Junk = Junk
    NoFrame = NoFrame
SPECIFICATION Spec
INVARIANTS
    DeliveredAsSent
    OnlyDamagedFramesLost
    ErrorsBounded
CHECK_DEADLOCK FALSE
