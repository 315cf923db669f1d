\* The simplest kind shows it; all kinds share scheduleStop and run.
CONSTANTS
    Kinds = {"SBS"}
    MAX_BEACONS = 1
SPECIFICATION FairSpec
PROPERTY StopWaitsForRun
