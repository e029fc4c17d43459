CONSTANTS
    Table <- MCTable
    DecodeArgs <- MCDecodeArgs
    EncodeRets <- MCEncodeRets
    DecodeRets <- MCDecodeRets
    Run <- MCRun
    Requests <- MCRequests
    InitialState <- MCInitialState
    ReplyCap <- MCReplyCap
    LengthValues <- MCLengthValues
    LateReplies = TRUE
    FailedSendsArrive = FALSE
    Endless = TRUE
    MaxCalls = 1
    MaxStreams = 1
    MaxLosses = 1
    MaxRestarts = 0
SPECIFICATION FairSpec
PROPERTY CallReturns
CHECK_DEADLOCK FALSE
