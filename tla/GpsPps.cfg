SPECIFICATION GpsFairSpec
CONSTANTS
    NOMINAL = 20
    DAY = 110
    WORD = 256
    Tol_Arr_Numb = 3
    FiFo_Active_cnt_MAX = 3
    OnTime <- MCOnTime
    Gaps <- MCGaps
INVARIANTS
    GpsTypeOK
    AverageGenuine
    StaysTuned
    NoOverflow
PROPERTIES
    RisesAreLost
    BecomesActive
