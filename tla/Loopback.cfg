CONSTANTS
    Radix <- MCRadix
    MaxPayload <- MCMaxPayload
    AdcChannelCount = 4
    MaxNameLen = 2
    BlockLen = 4
    Contracts <- MCContracts
    Run <- MCRun
    InitialDevice <- PoweredUp
    Arguments <- MCArguments
    StreamContract <- TelemetryStream
    StreamFields <- Telemetry
    Counters <- MCCounters
    StreamTable <- MCStreamTable
    Packets <- MCPackets
    StreamPayloads <- MCStreamPayloads
    MaxSteps = 3
    MaxForeign = 1
SPECIFICATION Spec
INVARIANTS
    RunsOnlyEncodings
    AnswersTruly
    StreamsGivenAsWritten
PROPERTY RefinesLocalCalls
CHECK_DEADLOCK FALSE
