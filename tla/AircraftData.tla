---------------------------- MODULE AircraftData ----------------------------
(***************************************************************************)
(* The container of all aircraft the feeds have reported.  It is a vector  *)
(* of aircraft (m_container) and a hash map from aircraft ids to positions *)
(* in that vector (m_index).  Feed threads call update; the main thread    *)
(* calls processAircrafts and get_serialized once a second.  All three     *)
(* hold m_mutex from their first to their last statement.                  *)
(*                                                                         *)
(* update and get_serialized are single steps.  processAircrafts is one    *)
(* step per iteration of its loop, with the mutex held, so that its        *)
(* repair of m_index while it erases aircraft is visible.                  *)
(***************************************************************************)
EXTENDS Object, ListOps

CONSTANTS Ids,                  \* aircraft ids
          Priorities,           \* priorities of the feeds
          TimeStamps,           \* values of TimeStamp, a linear order
          AC_DELETE_THRESHOLD   \* rounds until an aircraft is deleted

ASSUME AircraftAssumption ==
    /\ Priorities \subseteq Nat
    /\ TimeStamps \subseteq Nat
    /\ AC_DELETE_THRESHOLD \in Nat
    /\ OBJ_OUTDATED < AC_DELETE_THRESHOLD

VARIABLES m_container,  \* the vector, its first element at 1
          m_index,      \* id -> position in the vector, the first one is 0
          mutex,        \* "free", or "process" while processAircrafts runs
          it,           \* position of the loop's iterator in m_container
          index,        \* the loop's own count of the positions kept
          del           \* has this run of the loop erased an aircraft?

loop == <<it, index, del>>
vars == <<m_container, m_index, mutex, loop>>

AC_NO_FLARM_THRESHOLD == OBJ_OUTDATED

TargetType == {"FLARM", "TRANSPONDER"}

\* What AircraftProcessor renders: the PFLAU and PFLAA sentences of aircraft
\* id, made from the data that carries time stamp ts.
Report(id, ts) == [id |-> id, ts |-> ts]

Serialized == {<< >>} \cup {<<Report(id, ts)>> : id \in Ids, ts \in TimeStamps}

Aircraft == [id : Ids, targetType : TargetType, prio : Priorities,
             ts : TimeStamps, age : Nat, serialized : Serialized]

\* An aircraft as a feed hands it over: just constructed and unpacked.
Update == [id : Ids, targetType : TargetType, prio : Priorities,
           ts : TimeStamps, age : {0}, serialized : {<< >>}]

TypeOK ==
    /\ m_container \in Seq(Aircraft)
    /\ DOMAIN m_index \subseteq Ids
    /\ \A id \in DOMAIN m_index : m_index[id] \in Nat
    /\ mutex \in {"free", "process"}
    /\ it \in 1 .. Len(m_container) + 1
    /\ index \in Nat
    /\ del \in BOOLEAN

Init ==
    /\ m_container = << >>
    /\ m_index = << >>
    /\ mutex = "free"
    /\ it = 1
    /\ index = 0
    /\ del = FALSE
-----------------------------------------------------------------------------
\* Mutant: without the preference for FLARM targets.
CanUpdateAnyTarget(update, stored) ==
    update.ts > stored.ts /\ ObjectCanUpdate(update, stored)

\* Aircraft::canUpdate, called on the update with the stored aircraft.
CanUpdate(update, stored) ==
    /\ update.ts > stored.ts
    /\ \/ stored.targetType = "TRANSPONDER"
       \/ update.targetType = "FLARM"
    /\ ObjectCanUpdate(update, stored)

\* Mutant: the report of the old data stays.
AssignKeepReport(stored, update) ==
    [update EXCEPT !.id = stored.id, !.age = 0, !.serialized = stored.serialized]

\* Aircraft::assign: everything but the id comes from the update.
Assign(stored, update) == [update EXCEPT !.id = stored.id, !.age = 0]

\* update, when the id is known: Object::tryUpdate on the element found.
TryUpdate(update) ==
    /\ mutex = "free"
    /\ update.id \in DOMAIN m_index
    /\ LET stored == m_container[m_index[update.id] + 1]
       IN  /\ CanUpdate(update, stored)
           /\ m_container' = [m_container EXCEPT
                                ![m_index[update.id] + 1] = Assign(stored, update)]
    /\ UNCHANGED <<m_index, mutex, loop>>

\* update, when the id is unknown: insert.
Insert(update) ==
    /\ mutex = "free"
    /\ update.id \notin DOMAIN m_index
    /\ m_index' = [id \in DOMAIN m_index \cup {update.id} |->
                      IF id = update.id THEN Len(m_container) ELSE m_index[id]]
    /\ m_container' = Append(m_container, update)
    /\ UNCHANGED <<mutex, loop>>
-----------------------------------------------------------------------------
(***************************************************************************)
(* processAircrafts.                                                       *)
(***************************************************************************)
BeginProcess ==
    /\ mutex = "free"
    /\ mutex' = "process"
    /\ it' = 1
    /\ index' = 0
    /\ del' = FALSE
    /\ UNCHANGED <<m_container, m_index>>

\* Mutant: without the FLARM threshold.
OlderKeepTarget(aircraft) == Aged(aircraft)

\* Mutant: the counter stops once the aircraft is outdated.
OlderUntilOutdated(aircraft) ==
    LET older == IF aircraft.age < OBJ_OUTDATED THEN Aged(aircraft) ELSE aircraft
    IN  IF older.age = AC_NO_FLARM_THRESHOLD
        THEN [older EXCEPT !.targetType = "TRANSPONDER"]
        ELSE older

\* The iterator's aircraft after ++(*it) and the FLARM threshold.
Older(aircraft) ==
    LET older == Aged(aircraft)
    IN  IF older.age = AC_NO_FLARM_THRESHOLD
        THEN [older EXCEPT !.targetType = "TRANSPONDER"]
        ELSE older

\* AircraftProcessor::process; inRange is the verdict of the distance filter.
Process(aircraft, inRange) ==
    [aircraft EXCEPT !.serialized =
        IF inRange THEN <<Report(aircraft.id, aircraft.ts)>> ELSE << >>]

\* Mutant: positions are never repaired.
ReindexNever(idx, container, pos, value, deleted) == idx

\* if (del && it != end) m_index.at(id) = index, on the values of the step.
Reindex(idx, container, pos, value, deleted) ==
    IF deleted /\ pos <= Len(container)
    THEN [idx EXCEPT ![container[pos].id] = value]
    ELSE idx

EraseAircraft ==
    LET aircraft == Older(m_container[it])
        rest     == Without(m_container, it)
        others   == [id \in DOMAIN m_index \ {aircraft.id} |-> m_index[id]]
    IN  /\ mutex = "process"
        /\ it <= Len(m_container)
        /\ aircraft.age >= AC_DELETE_THRESHOLD
        /\ del' = TRUE
        /\ m_container' = rest
        /\ m_index' = Reindex(others, rest, it, index, TRUE)
        /\ UNCHANGED <<mutex, it, index>>

KeepAircraft ==
    LET aircraft == Older(m_container[it])
    IN  /\ mutex = "process"
        /\ it <= Len(m_container)
        /\ aircraft.age < AC_DELETE_THRESHOLD
        /\ \E inRange \in BOOLEAN :
              m_container' = [m_container EXCEPT ![it] =
                  IF aircraft.age = 1 THEN Process(aircraft, inRange) ELSE aircraft]
        /\ it' = it + 1
        /\ index' = index + 1
        /\ m_index' = Reindex(m_index, m_container, it + 1, index + 1, del)
        /\ UNCHANGED <<mutex, del>>

EndProcess ==
    /\ mutex = "process"
    /\ it > Len(m_container)
    /\ mutex' = "free"
    /\ it' = 1
    /\ index' = 0
    /\ del' = FALSE
    /\ UNCHANGED <<m_container, m_index>>

\* get_serialized: what it appends to the message while it holds the mutex.
get_serialized ==
    Flattened([k \in DOMAIN m_container |->
        IF m_container[k].age < OBJ_OUTDATED
        THEN m_container[k].serialized ELSE << >>])
-----------------------------------------------------------------------------
Next ==
    \/ \E u \in Update : TryUpdate(u)
    \/ \E u \in Update : Insert(u)
    \/ BeginProcess
    \/ EraseAircraft
    \/ KeepAircraft
    \/ EndProcess

\* The serve loop calls processAircrafts again and again, and a call runs to
\* its end; feeds owe nothing.
Fairness ==
    /\ WF_vars(BeginProcess)
    /\ WF_vars(EraseAircraft)
    /\ WF_vars(KeepAircraft)
    /\ WF_vars(EndProcess)

Spec == Init /\ [][Next]_vars
FairSpec == Spec /\ Fairness
-----------------------------------------------------------------------------
(***************************************************************************)
(* Properties.                                                             *)
(***************************************************************************)
\* m_index and m_container agree whenever the mutex is free: every id of the
\* index leads to the one aircraft with that id, and every aircraft is found.
\* update relies on it (m_container[index->second]), and so does the call of
\* m_index.at in processAircrafts, whose exception would be swallowed.
IndexConsistent ==
    mutex = "free" =>
        /\ DOMAIN m_index = {m_container[k].id : k \in DOMAIN m_container}
        /\ \A k \in DOMAIN m_container : m_index[m_container[k].id] = k - 1

\* An aircraft keeps its FLARM status for less than AC_NO_FLARM_THRESHOLD
\* rounds without an update: after that transponder data is accepted again,
\* so a FLARM device that falls silent does not lock an aircraft.
FlarmIsFresh ==
    \A k \in DOMAIN m_container :
        m_container[k].targetType = "FLARM" =>
            m_container[k].age < AC_NO_FLARM_THRESHOLD

\* The agreement of index and vector at every point of the loop, strong enough
\* to be inductive: ids are unique and all indexed; as long as the loop has not
\* erased anything all positions are right, after that those up to and with
\* the iterator's are, because each iteration of processAircrafts repairs the
\* position of the aircraft the next one will visit.
LoopInv ==
    /\ \A j, k \in DOMAIN m_container :
          m_container[j].id = m_container[k].id => j = k
    /\ DOMAIN m_index = {m_container[k].id : k \in DOMAIN m_container}
    /\ \A k \in DOMAIN m_container :
          mutex = "free" \/ ~del \/ k <= it => m_index[m_container[k].id] = k - 1
    /\ index = it - 1

\* Every stored aircraft is younger than the delete threshold, and its report,
\* if it has one, was rendered from the data it holds now: Aircraft::assign
\* drops the report together with the data it was made from.
StoredAircraftSound ==
    \A k \in DOMAIN m_container :
        LET a == m_container[k]
        IN  /\ a.age < AC_DELETE_THRESHOLD
            /\ a.serialized # << >> =>
                  a.serialized = <<Report(a.id, a.ts)>> /\ a.age >= 1

\* The inductive invariant: with TypeOK, all that the proofs carry along.
IInv == TypeOK /\ LoopInv /\ StoredAircraftSound /\ FlarmIsFresh

\* Whatever get_serialized appends was made from the data held at this very
\* moment, is not outdated, and no aircraft appears twice in one message: an
\* accepted update erases the report of the data it replaces.
ReportsCurrent ==
    mutex = "free" =>
        /\ \A n \in DOMAIN get_serialized :
              \E k \in DOMAIN m_container :
                 /\ get_serialized[n] = Report(m_container[k].id, m_container[k].ts)
                 /\ m_container[k].age \in 1 .. OBJ_OUTDATED - 1
        /\ \A m, n \in DOMAIN get_serialized :
              get_serialized[m].id = get_serialized[n].id => m = n

\* An aircraft nobody updates any more does not stay in the container: again
\* and again it is either gone or has just been updated.
SilentAircraftVanish ==
    \A id \in Ids :
        []<>(\/ \A k \in DOMAIN m_container : m_container[k].id # id
             \/ \E k \in DOMAIN m_container :
                   m_container[k].id = id /\ m_container[k].age = 0)
=============================================================================
