CONSTANTS
    Table <- MCTable
    DecodeArgs <- MCDecodeArgs
    EncodeRets <- MCEncodeRets
    DecodeRets <- MCDecodeRets
    Run <- MCRun
    Requests <- MCRequestsAll
    InitialState <- MCInitialState
    ReplyCap <- MCReplyCap
    LengthValues <- MCLengthValues
    LateReplies = FALSE
    FailedSendsArrive = FALSE
    Endless = FALSE
    MaxCalls = 3
    MaxStreams = 1
    MaxLosses = 1
    MaxRestarts = 1
SPECIFICATION Spec
INVARIANT RepliesMatch
PROPERTY RefinesAbstractCall
CHECK_DEADLOCK FALSE
