\* The program ends after a signal.  The sensor feed that keeps sending has the
\* lower priority.
SPECIFICATION Spec
CONSTANTS
    gpsHigh = gpsHigh
    gpsLow = gpsLow
    sensorHigh = sensorHigh
    sensorLow = sensorLow
    NOBODY = NOBODY
    Talker = sensorLow
    SensorFeeds = {sensorHigh, sensorLow}
    SensorPriority <- MCSensorPriority
    Pressures = {1}
    GpsFeeds = {gpsHigh, gpsLow}
    GpsPriority <- MCGpsPriority
    Fallback = fallback
    MAX_TS = 3
    OBJ_OUTDATED = 2
CHECK_DEADLOCK FALSE
INVARIANTS ReferenceNotNewer FinalPositionGood
PROPERTIES HeldWhileSending SignalEnds TalkerTakesOver
