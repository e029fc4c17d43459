CONSTANTS
    Messages <- MCMessages
    Errors <- MCErrors
SPECIFICATION CrcSpec
INVARIANTS
    BurstsDetected
    DifferenceIsOfError
CHECK_DEADLOCK FALSE
