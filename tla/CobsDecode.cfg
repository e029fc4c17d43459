CONSTANTS
    MaxCode <- MCMaxCode
    Inputs <- MCInputs
    Caps <- MCCaps
SPECIFICATION Spec
INVARIANTS
    TypeOK
    ResultWritten
    DecodeShrinks
    DecodesAsDefined
    ShortRegionIsCanonical
CHECK_DEADLOCK FALSE
