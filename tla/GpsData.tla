------------------------------ MODULE GpsData ------------------------------
(***************************************************************************)
(* The one GPS position, with the GPS feeds that update it: GpsFeed        *)
(* returns false from process when GpsData::update throws, and the feed's  *)
(* client stops.  Each feed has a client of its own here.  The main thread *)
(* takes the report once a second.  All operations hold m_mutex from their *)
(* first to their last statement.                                          *)
(***************************************************************************)
EXTENDS Object

CONSTANTS GpsFeeds,        \* the GPS feeds
          Fallback,     \* the position of the configuration
          GpsPriority,     \* feed -> its priority
          MAX_TS        \* bound: time stamps are 1 .. MAX_TS

ASSUME GpsAssumption ==
    /\ Fallback \notin GpsFeeds
    /\ GpsPriority \in [GpsFeeds -> Nat]
    /\ MAX_TS \in Nat

VARIABLES m_position,        \* the position and where it comes from
          m_positionLocked,
          m_groundMode,
          running            \* the feeds whose client has not stopped

gps == <<m_position, m_positionLocked, m_groundMode, running>>

TimeStamps == 0 .. MAX_TS

\* good: isPositionGood() holds of the position.
Position == [from : GpsFeeds \cup {Fallback}, prio : Nat, ts : TimeStamps,
             good : BOOLEAN, age : 0 .. OBJ_OUTDATED]

GpsTypeOK ==
    /\ m_position \in Position
    /\ m_positionLocked \in BOOLEAN
    /\ m_groundMode \in BOOLEAN
    /\ running \subseteq GpsFeeds

\* The fallback has too few satellites to be good, and no time.
GpsInit ==
    /\ m_position = [from |-> Fallback, prio |-> 0, ts |-> 0, good |-> FALSE, age |-> 0]
    /\ m_positionLocked = FALSE
    /\ m_groundMode \in BOOLEAN
    /\ running = GpsFeeds

\* Mutant: the time stamps are not compared.
CanUpdateAnyTime(update, stored) == ObjectCanUpdate(update, stored)

\* GpsPosition::canUpdate
CanUpdate(update, stored) == update.ts > stored.ts /\ ObjectCanUpdate(update, stored)

\* The exception of update ends the feed.
Throws(feed) == running \ {feed}

\* Mutant: in ground mode every position stops the feed.
UpdateAnyPosition(feed, ts, good) ==
    LET update == [from |-> feed, prio |-> GpsPriority[feed], ts |-> ts,
                   good |-> good, age |-> 0]
    IN  /\ feed \in running
        /\ CanUpdate(update, m_position)
        /\ m_position' = update
        /\ running' = IF m_groundMode THEN Throws(feed) ELSE running
        /\ UNCHANGED <<m_positionLocked, m_groundMode>>

\* GpsFeed::process on a sentence that carries a position: GpsData::update with
\* GpsPosition::assign.
Update(feed, ts, good) ==
    LET update == [from |-> feed, prio |-> GpsPriority[feed], ts |-> ts,
                   good |-> good, age |-> 0]
    IN  /\ feed \in running
        /\ IF m_positionLocked
           THEN running' = Throws(feed) /\ UNCHANGED m_position
           ELSE /\ CanUpdate(update, m_position)
                /\ m_position' = update
                /\ running' = IF m_groundMode /\ good THEN Throws(feed) ELSE running
        /\ UNCHANGED <<m_positionLocked, m_groundMode>>

\* get_serialized: the position is one round older.  Ages from OBJ_OUTDATED on
\* are not told apart.
get_serialized ==
    /\ m_position' = IF m_position.age < OBJ_OUTDATED THEN Aged(m_position)
                     ELSE m_position
    /\ UNCHANGED <<m_positionLocked, m_groundMode, running>>

GpsNext ==
    \/ \E feed \in GpsFeeds, ts \in 1 .. MAX_TS, good \in BOOLEAN : Update(feed, ts, good)
    \/ get_serialized

GpsSpec == GpsInit /\ [][GpsNext]_gps
-----------------------------------------------------------------------------
\* In ground mode a feed does not outlive its own good position: no feed whose
\* position is the current one, and good, is still running.  (GpsFeed::process
\* returns false, "stop the GPS feed as soon as it receives a good position")
GoodPositionStopsFeed ==
    m_groundMode /\ m_position.good => m_position.from \notin running

\* When all GPS feeds have stopped, what they leave is a good position, although
\* another feed may have replaced the first good one by a worse one meanwhile.
FinalPositionGood == running = {} => m_position.good

\* "hence locked" (doc of GpsData::update): a good position received in ground
\* mode is never replaced.
GoodPositionLocked ==
    [][m_groundMode /\ m_position.good =>
          m_position'.from = m_position.from /\ m_position'.ts = m_position.ts]_gps
=============================================================================
