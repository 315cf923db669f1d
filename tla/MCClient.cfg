\* The kind of the client, and up to two keep-alive messages being written at
\* once; the rest is finite as it is.
CONSTANTS
    Kinds = {"APRS", "SBS", "GPS", "SENSOR"}
    MAX_BEACONS = 2
SPECIFICATION FairSpec
INVARIANTS OneActivity OneTimerLoop ReturnsOnlyWhenStopped AbortsOnlyInStop
PROPERTIES ImplementsManager RetriesConnect DetectsSilence StopJoins
