SPECIFICATION PanelFairSpec
CONSTANTS
    Lists <- MCLists
    Home = "Home"
    Tree <- MCTree
    Depth <- MCDepth
    OLED_LINES = 2
    NULL = NULL
    TICKS = 10
    SLOTS = 5
    SCAN_TICK = 2
    DISPLAY_SLOT = 1
    CNT_DOWN = 3
    LONG_CNT_DOWN = 2
    MIN_GAP = 2
    EVENTBUFLEN = 3
INVARIANTS
    PanelTypeOK
    ExitProtocol
    QueueNeverFull
    ActsOnWhatIsShown
PROPERTIES
    IdleReturnsToMain
    KeyWakesMenu
    ExitLeaves
VIEW InUse
