SPECIFICATION EditSpec
CONSTANTS
    Lists <- MCLists
    Home = "Home"
    Tree <- MCTree
    Depth <- MCDepth
    OLED_LINES = 8
    NULL = NULL
    Fields <- MCFields
    RANGE = 3
INVARIANTS
    TypeOK
    ChainOK
    WindowOK
    EditTypeOK
PROPERTY
    NavSpec
    ConfirmsWhatIsShown
VIEW InUse
