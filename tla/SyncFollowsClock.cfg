SPECIFICATION FpgaSpec
CONSTANTS
    Addr <- MCAddr
    Data <- MCData
    Cached <- MCCached
    Values <- MCValues
    Reset <- MCReset
    LAST = "0xff"
    NONE = NONE
    MaxTrouble = 0
    Orders <- MCSelections
    BridgeCommands = {}
    ClockTypes <- MCClockTypes
    GPS_MODE = "none"
    PowerOn <- MCPowerOn
    TIMEOUT = 1
    DriftRegs <- MCDriftRegs
    Measured <- MCMeasured
    PULSE_GAP = 3
INVARIANT
    SyncFollowsClock
