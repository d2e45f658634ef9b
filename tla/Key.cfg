SPECIFICATION Spec
CONSTANTS
    Codes = {4, 5, 6}
    NONE = 255
    LONG_SCANS = 6
    COUNT_WRAP = 16
    MIN_GAP = 6
    evNON = evNON
    evRst = evRst
INVARIANTS
    TypeOK
    LongFlagOK
PROPERTY
    KeyStreamSpec
