SPECIFICATION Spec
CONSTANTS
    Clients = {c1, c2}
    Other = other
    RXBUFNB = 3
    RING = 3
    MaxFrames = 6
    NONE = NONE
INVARIANTS
    TypeOK
    InOrder
    PacedExactlyOnce
    
CHECK_DEADLOCK FALSE
