\* Three ids are the least that put an erased aircraft before, between and
\* behind kept ones.  Two rounds outdate, three delete.
CONSTANTS
    Ids = {a1, a2, a3}
    Priorities = {1}
    TimeStamps = {1, 2}
    OBJ_OUTDATED = 2
    AC_DELETE_THRESHOLD = 3
SPECIFICATION Spec
SYMMETRY Symmetry
INVARIANTS IndexConsistent FlarmIsFresh ReportsCurrent
