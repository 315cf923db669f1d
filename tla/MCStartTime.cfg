\* One line of a thread and one report are enough.
SPECIFICATION Spec
CONSTANTS
    EMPTY = EMPTY
    NO_NUMBER = NO_NUMBER
    NONE = NONE
    PortTexts <- MCPortTexts
    FilterTexts <- MCFilterTexts
    INT32_MAX = 19
    UINT16_MAX = 9
    UINT64_MAX = 99
    DEFAULT_PORT = 4
    MAX_TEXT = 2
    aprs1 = aprs1
    sbs1 = sbs1
    windgps = windgps
    other = other
    MISSING = MISSING
    JUNK = JUNK
    Names = {aprs1, sbs1, windgps, other}
    Keywords <- MCKeywords
    Sections <- MCSections
    Uninitialized <- MCUninitialized
    MAX_LIST = 1
    MAX_HEIGHT = 500
    NO_FILTER = 999
    UINT32_MAX = 7
    ULONG = 64
    Threads = {t1, t2}
    Gps = gps
    FREE = FREE
    MAX_TIME = 2
    MAX_LINES = 1
SYMMETRY Symmetry
CHECK_DEADLOCK FALSE
INVARIANT UtcCurrent
