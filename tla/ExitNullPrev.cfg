SPECIFICATION PanelSpec
CONSTANTS
    Lists <- TinyLists
    Home = "Home"
    Tree <- TinyTree
    Depth <- TinyDepth
    OLED_LINES = 2
    NULL = NULL
    TICKS = 4
    SLOTS = 3
    SCAN_TICK = 2
    DISPLAY_SLOT = 1
    CNT_DOWN = 3
    LONG_CNT_DOWN = 2
    MIN_GAP = 2
    EVENTBUFLEN = 2
INVARIANT
    PreviousStateExists
