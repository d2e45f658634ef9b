SPECIFICATION Spec
CONSTANTS
    MenuEdits = {"brightness"}
    NetEdits = {"format"}
    MaxResets = 0
PROPERTY
    AckedWriteIsKept
