CONSTANTS
    Table <- MCTable
    DecodeArgs <- MCDecodeArgs
    EncodeRets <- MCEncodeRets
    DecodeRets <- MCDecodeRets
    Run <- MCRun
    Requests <- MCRequests
    InitialState <- MCInitialState
    ReplyCap <- MCReplyCap
    LengthValues <- MCLengthValues
    LateReplies = TRUE
    FailedSendsArrive = TRUE
    Endless = FALSE
    MaxCalls = 3
    MaxStreams = 2
    MaxLosses = 1
    MaxRestarts = 1
SPECIFICATION FairSpec
INVARIANTS
    TypeOK
    AnswersInOrder
    CleanCallMatches
    StreamsInOrder
    NoStreamLost
PROPERTY CallReturns
CHECK_DEADLOCK FALSE
