CONSTANTS
    MaxCode <- MCMaxCode
    Inputs <- MCInputs
    Caps <- MCCaps
SPECIFICATION Spec
INVARIANTS
    TypeOK
    NoZeroInOutput
    WritesInBounds
    EncodesAsDefined
    DecodesBack
    ShortInputGrowsByOne
    MaxSizeSuffices
CHECK_DEADLOCK FALSE
