SPECIFICATION Spec
CONSTANTS
    Events = {KeyUP, KeyConfirm, RegSave}
    EVENTBUFLEN = 4
    evNON = evNON
INVARIANTS
    TypeOK
PROPERTY
    FifoSpec
