CONSTANTS
    Threads = {t1, t2}
    None = None
    Delimiter = Delimiter
    ReadFirst <- MCReadFirst
    MayRaise = TRUE
    MaxDepth = 2
    MaxCalls = 2
    MaxPolls = 2
    MaxPackets = 1
SPECIFICATION FairSpec
INVARIANTS
    FramesAccounted
    SeenOnce
    ReplyUsedOnce
    LoneCallMatches
PROPERTY OperationsReturn
CHECK_DEADLOCK FALSE
