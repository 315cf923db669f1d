\* Two ids, with all the data Supersedes tells apart.
CONSTANTS
    Ids = {a1, a2}
    Priorities = {1, 2}
    TimeStamps = {1, 2}
    OBJ_OUTDATED = 2
    AC_DELETE_THRESHOLD = 4
SPECIFICATION FairSpec
PROPERTIES ImplementsStore SilentAircraftVanish
