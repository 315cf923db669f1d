---------------------------- MODULE AircraftStore ----------------------------
(***************************************************************************)
(* What AircraftData promises, without vector, index and mutex: at most    *)
(* one aircraft per id, replaced only by data that supersedes it, and a    *)
(* round that ages all aircraft at once.                                   *)
(***************************************************************************)
EXTENDS Naturals

CONSTANTS Ids, Priorities, TimeStamps, OBJ_OUTDATED, AC_DELETE_THRESHOLD

VARIABLE store   \* id -> what is known of that aircraft

Absent == [known |-> FALSE]

Known(targetType, prio, ts, age) ==
    [known |-> TRUE, targetType |-> targetType, prio |-> prio, ts |-> ts,
     age |-> age]

Init == store = [id \in Ids |-> Absent]

\* An aircraft is replaced by newer data only; as long as it is fresh, neither
\* transponder data nor a feed of lower priority replaces what a FLARM device
\* or a feed of higher priority has reported.
Supersedes(targetType, prio, ts, old) ==
    /\ ts > old.ts
    /\ old.age < OBJ_OUTDATED =>
          /\ old.targetType = "FLARM" => targetType = "FLARM"
          /\ prio >= old.prio

Accept(id, targetType, prio, ts) ==
    /\ store[id].known => Supersedes(targetType, prio, ts, store[id])
    /\ store' = [store EXCEPT ![id] = Known(targetType, prio, ts, 0)]

\* One round older: FLARM status ends when the data is outdated, and the
\* aircraft is forgotten at the delete threshold.
RoundOlder(a) ==
    IF ~a.known \/ a.age + 1 >= AC_DELETE_THRESHOLD THEN Absent
    ELSE Known(IF a.age + 1 >= OBJ_OUTDATED THEN "TRANSPONDER" ELSE a.targetType,
               a.prio, a.ts, a.age + 1)

Round == store' = [id \in Ids |-> RoundOlder(store[id])]

Next ==
    \/ \E id \in Ids, targetType \in {"FLARM", "TRANSPONDER"},
          prio \in Priorities, ts \in TimeStamps : Accept(id, targetType, prio, ts)
    \/ Round

Spec == Init /\ [][Next]_store
=============================================================================
