----------------------- MODULE AircraftDataRefinement -----------------------
(***************************************************************************)
(* AircraftData implements AircraftStore.  The abstract content of an id   *)
(* is the aircraft of the vector that has this id; m_index plays no part   *)
(* in the mapping, so that an update that follows a wrong index shows.  A  *)
(* run of processAircrafts takes effect when it locks the mutex: aircraft  *)
(* its loop has not reached yet are seen as the loop will leave them.      *)
(***************************************************************************)
EXTENDS AircraftData

AbstractAircraft(a) ==
    IF a.age >= AC_DELETE_THRESHOLD THEN [known |-> FALSE]
    ELSE [known |-> TRUE, targetType |-> a.targetType, prio |-> a.prio,
          ts |-> a.ts, age |-> a.age]

\* The aircraft at position k of vector c when the loop still has to visit the
\* positions from pending on.
Seen(c, pending, k) == IF k >= pending THEN Older(c[k]) ELSE c[k]

StoreOf(c, pending) ==
    [id \in Ids |->
        IF \E k \in DOMAIN c : c[k].id = id
        THEN AbstractAircraft(Seen(c, pending, CHOOSE k \in DOMAIN c : c[k].id = id))
        ELSE [known |-> FALSE]]

Pending == IF mutex = "process" THEN it ELSE Len(m_container) + 1

AbstractStore == StoreOf(m_container, Pending)

Store == INSTANCE AircraftStore WITH store <- AbstractStore

\* Every behaviour of the vector, its index and the processing loop is one of
\* the abstract store: an update reaches exactly the aircraft it names and
\* replaces it only when AircraftStore!Supersedes allows it, and the loop ages,
\* downgrades and erases all aircraft as one atomic round, missing none and
\* taking none twice while it erases under its own iterator.
ImplementsStore == Store!Spec
=============================================================================
