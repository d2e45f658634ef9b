SPECIFICATION FpgaFairSpec
CONSTANTS
    Addr <- MCAddr
    Data <- MCData
    Cached <- MCCached
    Values <- MCValues
    Reset <- MCReset
    LAST = "0xff"
    NONE = NONE
    MaxTrouble = 1
    Orders <- MCOrders
    BridgeCommands <- MCBridgeCommands
    ClockTypes <- MCClockTypes
    GPS_MODE = "0x80"
    PowerOn <- MCPowerOn
    TIMEOUT = 1
    DriftRegs <- MCDriftRegs
    Measured <- MCMeasured
    PULSE_GAP = 3
INVARIANTS
    FpgaTypeOK
    CacheIsGenuine
    PulseTracked
    DriftWhole
PROPERTIES
    BusExclusive
    NoSilentLoss
    LoopRuns
VIEW Seen
