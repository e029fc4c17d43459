CONSTANTS
    Table <- MCTable
    DecodeArgs <- MCDecodeArgs
    EncodeRets <- MCEncodeRets
    DecodeRets <- MCDecodeRets
    Run <- MCRun
    Requests <- MCRequests
    InitialState <- MCInitialState
    ReplyCap <- MCReplyCap
    LengthValues <- MCLengthValues
    LateReplies = TRUE
    FailedSendsArrive = FALSE
    Endless = FALSE
    MaxCalls = 2
    MaxStreams = 0
    MaxLosses = 0
    MaxRestarts = 0
SPECIFICATION Spec
INVARIANT RepliesMatch
CHECK_DEADLOCK FALSE
