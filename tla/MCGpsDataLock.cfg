\* Four time stamps let each feed update twice.
CONSTANTS
    high = high
    low = low
    GpsFeeds = {high, low}
    Fallback = fallback
    GpsPriority <- MCPriority
    MAX_TS = 4
    OBJ_OUTDATED = 3
SPECIFICATION GpsSpec
PROPERTY GoodPositionLocked
