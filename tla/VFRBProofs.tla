----------------------------- MODULE VFRBProofs -----------------------------
(***************************************************************************)
(* Proofs about VFRB and what it runs: the data it composes, Sensors and   *)
(* GpsData, the ClientManager and the Server.  They hold for any feeds and *)
(* any number of them, any priorities, pressures and time stamps, any      *)
(* number of slots that m_activeConnections can count, any addresses, and  *)
(* any order of the threads.                                               *)
(***************************************************************************)
EXTENDS VFRB, ClientManager, Server, SequenceTheorems, FiniteSetTheorems,
        WellFoundedInduction, TLAPS

-----------------------------------------------------------------------------
(***************************************************************************)
(* WindData and AtmosphereData.                                            *)
(***************************************************************************)

\* The inductive invariant: the stored wind has the priority of its feed, and
\* is not older than the feed's silence.
SensorInv ==
    /\ SensorsTypeOK
    /\ m_wind.prio = IF m_wind.from = NOBODY THEN 0 ELSE SensorPriority[m_wind.from]
    /\ m_wind.age <= silence
    /\ PressureOfReport

\* Aging changes nothing but the age, which stays below its bound.
LEMMA OlderWind ==
    ASSUME SensorsTypeOK
    PROVE  /\ Older(m_wind).age \in 0 .. OBJ_OUTDATED
           /\ Older(m_wind) = [m_wind EXCEPT !.age = Older(m_wind).age]
  BY OutdatedAssumption DEF SensorsTypeOK, Older, Aged

\* The age of what is older by a message.
LEMMA OlderAge ==
    ASSUME SensorsTypeOK
    PROVE  Older(m_wind).age = IF m_wind.age < OBJ_OUTDATED THEN m_wind.age + 1 ELSE m_wind.age
  BY OutdatedAssumption DEF SensorsTypeOK, Older, Aged

\* Aging of the atmosphere.
LEMMA OlderAtmosphere ==
    ASSUME SensorsTypeOK
    PROVE  /\ Older(m_atmosphere).age \in 0 .. OBJ_OUTDATED
           /\ Older(m_atmosphere) = [m_atmosphere EXCEPT !.age = Older(m_atmosphere).age]
  BY OutdatedAssumption DEF SensorsTypeOK, Older, Aged

\* The invariant holds initially.
LEMMA SensorInvInit == SensorsInit => SensorInv
<1> SUFFICES ASSUME SensorsInit PROVE SensorInv
  OBVIOUS
<1>1. SensorsTypeOK
  <2>1. 0 \in 0 .. OBJ_OUTDATED /\ 0 \in Nat
    BY OutdatedAssumption
  <2>2. << >> \in Reports(SensorFeeds) /\ << >> \in Reports(Pressures)
    BY Zenon DEF Reports
  <2>3. m_wind \in [from : SensorFeeds \cup {NOBODY}, serialized : Reports(SensorFeeds),
                   prio : Nat, age : 0 .. OBJ_OUTDATED]
    BY <2>1, <2>2 DEF SensorsInit
  <2>4. m_atmosphere \in [from : SensorFeeds \cup {NOBODY}, serialized : Reports(Pressures),
                         pressure : Pressures \cup {FallbackPressure},
                         prio : Nat, age : 0 .. OBJ_OUTDATED]
    BY <2>1, <2>2 DEF SensorsInit
  <2>5. QED
    BY <2>1, <2>3, <2>4, Zenon DEF SensorsInit, SensorsTypeOK
<1>2. m_wind.prio = 0 /\ m_wind.from = NOBODY
  BY DEF SensorsInit
<1>3. m_wind.age <= silence
  BY DEF SensorsInit
<1>4. PressureOfReport
  BY DEF SensorsInit, PressureOfReport
<1>5. QED
  BY <1>1, <1>2, <1>3, <1>4 DEF SensorInv

\* A feed is not refused because of its own earlier updates, nor because of
\* the initial object.
LEMMA OwnAccepted ==
    ASSUME SensorInv, NEW feed \in SensorFeeds, m_wind.from \in {feed, NOBODY}
    PROVE  ObjectCanUpdate(WindOf(feed), m_wind)
<1>1. SensorPriority[feed] \in Nat /\ feed # NOBODY
  BY SensorAssumption
<1>2. m_wind.prio \in {0, SensorPriority[feed]}
  BY <1>1 DEF SensorInv
<1>3. WindOf(feed).prio = SensorPriority[feed]
  BY DEF WindOf
<1>4. WindOf(feed).prio >= m_wind.prio
  BY <1>1, <1>2, <1>3
<1>5. QED
  BY <1>4 DEF ObjectCanUpdate

\* An update of the wind keeps the invariant.
LEMMA UpdateWindStep ==
    ASSUME SensorInv, NEW feed \in SensorFeeds, UpdateWind(feed)
    PROVE  SensorInv'
<1>1. CASE ObjectCanUpdate(WindOf(feed), m_wind)
  <2>1. /\ m_wind' = WindOf(feed) /\ unreported' = TRUE /\ UNCHANGED m_atmosphere
        /\ feed # NOBODY
    BY <1>1, SensorAssumption DEF UpdateWind
  <2>2. WindOf(feed) \in [from : SensorFeeds \cup {NOBODY}, serialized : Reports(SensorFeeds),
                          prio : Nat, age : 0 .. OBJ_OUTDATED]
    BY SensorAssumption, OutdatedAssumption DEF WindOf, Reports
  <2>3. silence' = 0 /\ 0 \in 0 .. OBJ_OUTDATED
    BY <2>1, OutdatedAssumption DEF UpdateWind, Heard, WindOf
  <2>4. SensorsTypeOK'
    BY <2>1, <2>2, <2>3 DEF SensorInv, SensorsTypeOK
  <2>5. QED
    BY <2>1, <2>3, <2>4 DEF SensorInv, WindOf, PressureOfReport
<1>2. CASE ~ObjectCanUpdate(WindOf(feed), m_wind)
  <2>1. UNCHANGED <<m_wind, unreported, m_atmosphere>>
    BY <1>2 DEF UpdateWind
  <2>2. UNCHANGED silence
    BY <1>2, <2>1, OwnAccepted DEF UpdateWind, Heard
  <2>3. QED
    BY <2>1, <2>2 DEF SensorInv, SensorsTypeOK, PressureOfReport
<1>3. QED
  BY <1>1, <1>2

\* An update of the atmosphere keeps the invariant.
LEMMA UpdateAtmosphereStep ==
    ASSUME SensorInv, NEW feed \in SensorFeeds, NEW pressure \in Pressures,
           UpdateAtmosphere(feed, pressure)
    PROVE  SensorInv'
<1>1. /\ m_atmosphere' = [from |-> feed, serialized |-> <<pressure>>, pressure |-> pressure,
                          prio |-> SensorPriority[feed], age |-> 0]
      /\ UNCHANGED <<m_wind, unreported, silence>>
  BY DEF UpdateAtmosphere, Assign
<1>2. SensorsTypeOK'
  BY <1>1, SensorAssumption, OutdatedAssumption DEF SensorInv, SensorsTypeOK, Reports
<1>3. QED
  BY <1>1, <1>2 DEF SensorInv, PressureOfReport

\* Reporting the wind keeps the invariant.
LEMMA ReportWindStep == SensorInv /\ get_serialized_wind => SensorInv'
<1> SUFFICES ASSUME SensorInv, get_serialized_wind PROVE SensorInv'
  OBVIOUS
<1> DEFINE older == Older(m_wind)
<1>1. /\ older.age \in 0 .. OBJ_OUTDATED
      /\ older = [m_wind EXCEPT !.age = older.age]
  BY OlderWind DEF SensorInv
<1>2. /\ m_wind' = [older EXCEPT !.serialized = << >>]
      /\ unreported' = FALSE /\ UNCHANGED m_atmosphere
  BY DEF get_serialized_wind
<1> HIDE DEF older
<1>3. m_wind \in [from : SensorFeeds \cup {NOBODY}, serialized : Reports(SensorFeeds),
                  prio : Nat, age : 0 .. OBJ_OUTDATED]
  BY DEF SensorInv, SensorsTypeOK
<1>4. /\ m_wind' = [from |-> m_wind.from, serialized |-> << >>, prio |-> m_wind.prio,
                    age |-> older.age]
  BY <1>1, <1>2, <1>3
<1>5. /\ silence' \in 0 .. OBJ_OUTDATED
      /\ older.age <= silence'
  BY OutdatedAssumption, OlderAge DEF get_serialized_wind, Unheard, SensorInv, SensorsTypeOK, older
<1>6. SensorsTypeOK'
  BY <1>1, <1>2, <1>3, <1>4, <1>5, Zenon DEF SensorInv, SensorsTypeOK, Reports
<1>7. QED
  BY <1>2, <1>4, <1>5, <1>6 DEF SensorInv, PressureOfReport

\* Reporting the atmosphere keeps the invariant.
LEMMA ReportAtmosphereStep == SensorInv /\ get_serialized_atmosphere => SensorInv'
<1> SUFFICES ASSUME SensorInv, get_serialized_atmosphere PROVE SensorInv'
  OBVIOUS
<1> DEFINE older == Older(m_atmosphere)
<1>1. /\ older.age \in 0 .. OBJ_OUTDATED
      /\ older = [m_atmosphere EXCEPT !.age = older.age]
  BY OlderAtmosphere DEF SensorInv
<1>2. m_atmosphere' = older /\ UNCHANGED <<m_wind, unreported, silence>>
  BY DEF get_serialized_atmosphere
<1> HIDE DEF older
<1>3. SensorsTypeOK'
  BY <1>1, <1>2 DEF SensorInv, SensorsTypeOK
<1>4. /\ m_atmosphere'.serialized = m_atmosphere.serialized
      /\ m_atmosphere'.pressure = m_atmosphere.pressure
  BY <1>1, <1>2 DEF SensorInv, SensorsTypeOK
<1>5. QED
  BY <1>2, <1>3, <1>4 DEF SensorInv, PressureOfReport

\* SensorInv is an invariant.
LEMMA SensorInvInvariant == SensorsSpec => []SensorInv
<1>1. SensorInv /\ [SensorsNext]_sensors => SensorInv'
  <2> SUFFICES ASSUME SensorInv, [SensorsNext]_sensors PROVE SensorInv'
    OBVIOUS
  <2>1. CASE SensorsNext
    BY <2>1, UpdateWindStep, UpdateAtmosphereStep, ReportWindStep, ReportAtmosphereStep
       DEF SensorsNext, SensorUpdate
  <2>2. CASE UNCHANGED sensors
    BY <2>2 DEF sensors, SensorInv, SensorsTypeOK, PressureOfReport
  <2>3. QED
    BY <2>1, <2>2
<1>2. QED
  BY <1>1, SensorInvInit, PTL DEF SensorsSpec

\* Type correctness of WindData and AtmosphereData.
THEOREM SensorsTypeCorrect == SensorsSpec => []SensorsTypeOK
<1>1. SensorInv => SensorsTypeOK
  BY DEF SensorInv
<1>2. QED
  BY <1>1, SensorInvInvariant, PTL

\* Whatever priorities the feeds have and however many there are, the wind of a
\* feed gives way to one of a lower priority only after the feed has sent
\* nothing for OBJ_OUTDATED messages.
THEOREM AlwaysHeldWhileSending == SensorsSpec => HeldWhileSending
<1> DEFINE Held(best, feed) ==
        /\ m_wind.from = best /\ m_wind'.from = feed
        /\ SensorPriority[feed] < SensorPriority[best]
        => silence >= OBJ_OUTDATED
<1>1. SensorInv /\ [SensorsNext]_sensors => \A best, feed \in SensorFeeds : Held(best, feed)
  <2> SUFFICES ASSUME SensorInv, [SensorsNext]_sensors,
                      NEW best \in SensorFeeds, NEW feed \in SensorFeeds,
                      m_wind.from = best, m_wind'.from = feed,
                      SensorPriority[feed] < SensorPriority[best]
               PROVE  silence >= OBJ_OUTDATED
    OBVIOUS
  <2>1. SensorPriority[feed] \in Nat /\ SensorPriority[best] \in Nat /\ best # NOBODY
    BY SensorAssumption
  <2>2. m_wind'.from # m_wind.from
    BY <2>1
  <2>3. PICK other \in SensorFeeds : UpdateWind(other) /\ ObjectCanUpdate(WindOf(other), m_wind)
    <3>1. CASE UNCHANGED m_wind
      BY <2>2, <3>1
    <3>2. CASE get_serialized_wind
      <4>1. m_wind'.from = Older(m_wind).from
        BY <3>2 DEF get_serialized_wind, SensorInv, SensorsTypeOK, Older, Aged
      <4>2. QED
        BY <2>2, <4>1, OlderWind DEF SensorInv, SensorsTypeOK
    <3>3. ASSUME NEW other \in SensorFeeds, UpdateWind(other)
          PROVE  ObjectCanUpdate(WindOf(other), m_wind)
      BY <2>2, <3>3 DEF UpdateWind
    <3>4. QED
      BY <3>1, <3>2, <3>3, Zenon DEF SensorsNext, SensorUpdate, UpdateAtmosphere,
         get_serialized_atmosphere, sensors
  <2>4. other = feed
    BY <2>3 DEF UpdateWind, WindOf
  <2>5. m_wind.age >= OBJ_OUTDATED
    BY <2>1, <2>3, <2>4 DEF SensorInv, ObjectCanUpdate, WindOf
  <2>6. QED
    BY <2>5, OutdatedAssumption DEF SensorInv, SensorsTypeOK
<1>2. QED
  BY <1>1, SensorInvInvariant, PTL DEF SensorsSpec, HeldWhileSending

\* The sentence AtmosphereData reports and the pressure it hands to the
\* aircrafts are of one update.
THEOREM PressureAlwaysOfReport == SensorsSpec => []PressureOfReport
<1>1. SensorInv => PressureOfReport
  BY DEF SensorInv
<1>2. QED
  BY <1>1, SensorInvInvariant, PTL

\* Object::canUpdate never refuses a feed that is alone, whatever number its
\* priority is.
THEOREM LoneFeedAlwaysAccepted == SensorsSpec => []LoneFeedAccepted
<1>1. SensorInv => LoneFeedAccepted
  <2> SUFFICES ASSUME SensorInv, NEW feed \in SensorFeeds, m_wind.from \in {feed, NOBODY}
               PROVE  ObjectCanUpdate(WindOf(feed), m_wind)
    BY DEF LoneFeedAccepted
  <2>1. QED
    BY OwnAccepted
<1>2. QED
  BY <1>1, SensorInvInvariant, PTL

-----------------------------------------------------------------------------
(***************************************************************************)
(* GpsData.                                                                *)
(***************************************************************************)

\* The inductive invariant: outside ground mode no feed is ever stopped, and
\* no operation sets m_positionLocked.
GInv ==
    /\ GpsTypeOK
    /\ m_positionLocked = FALSE
    /\ ~m_groundMode => running = GpsFeeds
    /\ GoodPositionStopsFeed
    /\ GpsFeeds # {} => FinalPositionGood

\* The invariant holds initially.
LEMMA GInvInit == GpsInit => GInv
<1> SUFFICES ASSUME GpsInit PROVE GInv
  OBVIOUS
<1>1. m_position \in Position
  BY GpsAssumption, OutdatedAssumption DEF GpsInit, Position, TimeStamps
<1>2. QED
  BY <1>1, Zenon DEF GpsInit, GInv, GpsTypeOK, GoodPositionStopsFeed, FinalPositionGood

\* A sentence with a position keeps the invariant.
LEMMA UpdateStep ==
    ASSUME GInv, NEW feed \in GpsFeeds, NEW ts \in 1 .. MAX_TS, NEW good \in BOOLEAN,
           Update(feed, ts, good)
    PROVE  GInv'
<1> DEFINE update == [from |-> feed, prio |-> GpsPriority[feed], ts |-> ts,
                      good |-> good, age |-> 0]
<1>1. /\ m_position' = update
      /\ feed \in running
      /\ running' = IF m_groundMode /\ good THEN running \ {feed} ELSE running
      /\ UNCHANGED <<m_positionLocked, m_groundMode>>
  BY DEF GInv, Update, Throws
<1>2. update \in Position
  BY GpsAssumption, OutdatedAssumption DEF Position, TimeStamps
<1>3. GpsTypeOK'
  BY <1>1, <1>2 DEF GInv, GpsTypeOK
<1>4. GoodPositionStopsFeed'
  BY <1>1 DEF GoodPositionStopsFeed
<1>5. FinalPositionGood'
  BY <1>1 DEF FinalPositionGood
<1>6. ~m_groundMode' => running' = GpsFeeds
  BY <1>1 DEF GInv
<1>7. QED
  BY <1>1, <1>3, <1>4, <1>5, <1>6 DEF GInv

\* Reporting the position keeps the invariant: only the age changes.
LEMMA ReportStep == GInv /\ get_serialized => GInv'
<1> SUFFICES ASSUME GInv, get_serialized PROVE GInv'
  OBVIOUS
<1>1. /\ m_position' \in Position
      /\ m_position'.from = m_position.from /\ m_position'.good = m_position.good
  BY OutdatedAssumption DEF GInv, GpsTypeOK, Position, get_serialized, Aged
<1>2. UNCHANGED <<m_positionLocked, m_groundMode, running>>
  BY DEF get_serialized
<1>3. QED
  BY <1>1, <1>2 DEF GInv, GpsTypeOK, GoodPositionStopsFeed, FinalPositionGood

\* GInv is an invariant.
LEMMA GInvInvariant == GpsSpec => []GInv
<1>1. GInv /\ [GpsNext]_gps => GInv'
  <2> SUFFICES ASSUME GInv, [GpsNext]_gps PROVE GInv'
    OBVIOUS
  <2>1. CASE GpsNext
    BY <2>1, UpdateStep, ReportStep DEF GpsNext
  <2>2. CASE UNCHANGED gps
    BY <2>2 DEF gps, GInv, GpsTypeOK, GoodPositionStopsFeed, FinalPositionGood
  <2>3. QED
    BY <2>1, <2>2
<1>2. QED
  BY <1>1, GInvInit, PTL DEF GpsSpec

\* Type correctness of GpsData.
THEOREM GpsTypeCorrect == GpsSpec => []GpsTypeOK
<1>1. GInv => GpsTypeOK
  BY DEF GInv
<1>2. QED
  BY <1>1, GInvInvariant, PTL

\* In ground mode the feed of a good position has been stopped by
\* GpsFeed::process, with any number of GPS feeds.
THEOREM GoodPositionAlwaysStopsFeed == GpsSpec => []GoodPositionStopsFeed
<1>1. GInv => GoodPositionStopsFeed
  BY DEF GInv
<1>2. QED
  BY <1>1, GInvInvariant, PTL

\* If there are GPS feeds and all have been stopped, the position they leave
\* is good, in whatever order their good and bad positions arrived.
THEOREM FinalPositionAlwaysGood ==
    ASSUME GpsFeeds # {}
    PROVE  GpsSpec => []FinalPositionGood
<1>1. GInv => FinalPositionGood
  BY DEF GInv
<1>2. QED
  BY <1>1, GInvInvariant, PTL

-----------------------------------------------------------------------------
(***************************************************************************)
(* VFRB: the main loop runs the data with the feeds.                       *)
(***************************************************************************)

\* The steps of the main thread that leave the data alone.
LEMMA MainLeavesData ==
    ASSUME \/ Run \/ Listen \/ RunSignals \/ RunClients \/ Check \/ ReadPosition \/ ReadPressure
           \/ AppendAircrafts \/ Send \/ StopClients \/ JoinClients \/ StopSignals
           \/ Throw \/ Signal \/ HandleSignal
    PROVE  UNCHANGED <<sensors, gps>>
  BY DEF Run, Listen, RunSignals, RunClients, Check, Build, ReadPosition, ReadPressure,
         AppendAircrafts, Send, StopClients, JoinClients, StopSignals, Throw, Signal, HandleSignal

\* Every step of the program is one of WindData and AtmosphereData or leaves
\* them alone, so that what holds of them alone holds in the program.
THEOREM RunsSensors == Spec => SensorsSpec
<1>1. Init => SensorsInit
  BY DEF Init
<1>2. [Next]_vars => [SensorsNext]_sensors
  <2> SUFFICES ASSUME [Next]_vars PROVE [SensorsNext]_sensors
    OBVIOUS
  <2>1. CASE AppendGps
    BY <2>1 DEF AppendGps
  <2>2. CASE AppendAtmosphere \/ AppendWind
    BY <2>2 DEF AppendAtmosphere, AppendWind, SensorsNext
  <2>3. CASE Feed
    BY <2>3 DEF Feed, SensorsNext
  <2>4. CASE UNCHANGED vars
    BY <2>4 DEF vars
  <2>5. QED
    BY <2>1, <2>2, <2>3, <2>4, MainLeavesData DEF Next, Main
<1>3. QED
  BY <1>1, <1>2, PTL DEF Spec, SensorsSpec

\* The same of GpsData.
THEOREM RunsGps == Spec => GpsSpec
<1>1. Init => GpsInit
  BY DEF Init
<1>2. [Next]_vars => [GpsNext]_gps
  <2> SUFFICES ASSUME [Next]_vars PROVE [GpsNext]_gps
    OBVIOUS
  <2>1. CASE AppendGps
    BY <2>1 DEF AppendGps, GpsNext
  <2>2. CASE AppendAtmosphere \/ AppendWind
    BY <2>2 DEF AppendAtmosphere, AppendWind
  <2>3. CASE Feed
    BY <2>3 DEF Feed, GpsNext
  <2>4. CASE UNCHANGED vars
    BY <2>4 DEF vars
  <2>5. QED
    BY <2>1, <2>2, <2>3, <2>4, MainLeavesData DEF Next, Main
<1>3. QED
  BY <1>1, <1>2, PTL DEF Spec, GpsSpec

\* The types of VFRB's own variables.
ControlTypeOK ==
    /\ m_running \in BOOLEAN
    /\ signal \in {"absent", "installed", "queued"}
    /\ listener \in {"none", "run", "done"}
    /\ clients \in BOOLEAN
    /\ pc \in {"run", "listen", "runSignals", "runClients", "check", "position",
               "pressure", "aircraft", "gps", "atmosphere", "wind", "send",
               "stopClients", "joinClients", "blocked", "stopSignals", "ended", "killed"}
    /\ message \in [reference : TimeStamps, ts : TimeStamps]

\* The inductive invariant of the loop: until GpsData is read again, the
\* position that the aircrafts are related to is not newer than the stored one;
\* from then on it is not newer than the one in the message.
VInv ==
    /\ ControlTypeOK
    /\ pc \in {"pressure", "aircraft", "gps"} => message.reference <= m_position.ts
    /\ pc \in {"atmosphere", "wind", "send"} => message.reference <= message.ts

\* Time stamps are numbers, and 0 is one.
LEMMA TimeStampNumbers == TimeStamps \subseteq Nat /\ 0 \in TimeStamps
  BY GpsAssumption DEF TimeStamps

\* A step of the main thread keeps the invariant.
LEMMA MainStep == GInv /\ VInv /\ Main => VInv'
<1> SUFFICES ASSUME GInv, VInv, Main PROVE VInv'
  OBVIOUS
<1>1. m_position.ts \in TimeStamps /\ TimeStamps \subseteq Nat /\ 0 \in TimeStamps
  BY TimeStampNumbers DEF GInv, GpsTypeOK, Position
<1>2. CASE \/ Run \/ Listen \/ RunSignals \/ RunClients \/ Send
           \/ StopClients \/ JoinClients \/ StopSignals
  BY <1>2, Zenon DEF Run, Listen, RunSignals, RunClients, Send, StopClients, JoinClients, StopSignals,
              Goto, VInv, ControlTypeOK
<1>3. CASE Check
  BY <1>1, <1>3 DEF Check, EmptyMessage, VInv, ControlTypeOK
<1>4. CASE ReadPosition
  <2>1. message' \in [reference : TimeStamps, ts : TimeStamps] /\ message'.reference = m_position.ts
    BY <1>1, <1>4 DEF ReadPosition, VInv, ControlTypeOK
  <2>2. message'.reference <= m_position'.ts
    BY <1>1, <1>4, <2>1 DEF ReadPosition, gps
  <2>3. QED
    BY <1>4, <2>1, <2>2 DEF ReadPosition, Build, Goto, VInv, ControlTypeOK
<1>5. CASE ReadPressure \/ AppendAircrafts
  BY <1>5 DEF ReadPressure, AppendAircrafts, Build, Goto, gps, VInv, ControlTypeOK
<1>6. CASE AppendGps
  BY <1>1, <1>6 DEF AppendGps, Build, Goto, VInv, ControlTypeOK
<1>7. CASE AppendAtmosphere \/ AppendWind
  BY <1>7 DEF AppendAtmosphere, AppendWind, Build, Goto, VInv, ControlTypeOK
<1>8. QED
  BY <1>2, <1>3, <1>4, <1>5, <1>6, <1>7 DEF Main

\* A feed's update keeps it: an accepted position is newer than the stored one.
LEMMA FeedStep == GInv /\ VInv /\ Feed => VInv'
<1> SUFFICES ASSUME GInv, VInv, Feed PROVE VInv'
  OBVIOUS
<1>1. UNCHANGED control /\ m_position.ts \in Nat
  BY TimeStampNumbers, Zenon DEF Feed, GInv, GpsTypeOK, Position
<1>2. UNCHANGED m_position \/ (m_position'.ts \in Nat /\ m_position'.ts > m_position.ts)
  <2>1. CASE UNCHANGED gps
    BY <2>1 DEF gps
  <2>2. ASSUME NEW feed \in GpsFeeds, NEW ts \in 1 .. MAX_TS, NEW good \in BOOLEAN,
               Update(feed, ts, good)
        PROVE  UNCHANGED m_position \/ (m_position'.ts \in Nat /\ m_position'.ts > m_position.ts)
    BY <2>2, GpsAssumption DEF Update, CanUpdate
  <2>3. QED
    BY <2>1, <2>2 DEF Feed
<1>3. m_position'.ts \in Nat /\ m_position'.ts >= m_position.ts
  BY <1>1, <1>2
<1>4. message.reference \in Nat
  BY TimeStampNumbers, Zenon DEF VInv, ControlTypeOK
<1>5. QED
  BY <1>1, <1>3, <1>4 DEF control, VInv, ControlTypeOK

\* VInv is an invariant.
LEMMA VInvInvariant == Spec => []VInv
<1>1. Init => VInv
  <2>1. EmptyMessage \in [reference : TimeStamps, ts : TimeStamps]
    BY TimeStampNumbers DEF EmptyMessage
  <2>2. QED
    BY <2>1, Zenon DEF Init, VInv, ControlTypeOK
<1>2. GInv /\ VInv /\ [Next]_vars => VInv'
  <2> SUFFICES ASSUME GInv, VInv, [Next]_vars PROVE VInv'
    OBVIOUS
  <2>1. CASE Throw
    BY <2>1, Zenon DEF Throw, VInv, ControlTypeOK
  <2>2. CASE Signal
    BY <2>2 DEF Signal, gps, VInv, ControlTypeOK
  <2>3. CASE HandleSignal
    BY <2>3, Zenon DEF HandleSignal, gps, VInv, ControlTypeOK
  <2>4. CASE UNCHANGED vars
    BY <2>4 DEF vars, gps, control, VInv, ControlTypeOK
  <2>5. QED
    BY <2>1, <2>2, <2>3, <2>4, MainStep, FeedStep DEF Next
<1>3. QED
  BY <1>1, <1>2, RunsGps, GInvInvariant, PTL DEF Spec

\* Type correctness of the program's main loop and its data.
THEOREM VFRBTypeCorrect == Spec => []TypeOK
<1>1. SensorsTypeOK /\ GpsTypeOK /\ VInv => TypeOK
  BY DEF VInv, ControlTypeOK, TypeOK
<1>2. QED
  BY <1>1, RunsSensors, SensorsTypeCorrect, RunsGps, GpsTypeCorrect, VInvInvariant, PTL

\* VFRB::serve never relates the aircrafts of a message to a position newer
\* than the one the message reports, whatever feeds update GpsData between its
\* two reads: GpsPosition::canUpdate lets the time stamp only grow.
THEOREM ReferenceNeverNewer == Spec => []ReferenceNotNewer
<1>1. VInv => ReferenceNotNewer
  BY DEF VInv, ReferenceNotNewer
<1>2. QED
  BY <1>1, VInvInvariant, PTL

\* The same in the whole program, whatever the order of the main loop's and the
\* feeds' steps: a better feed is not displaced while it sends.
THEOREM ProgramHoldsWhileSending == Spec => HeldWhileSending
  BY RunsSensors, AlwaysHeldWhileSending, PTL

\* In the whole program, if there are GPS feeds and all have been stopped, the
\* position they leave is good.
THEOREM ProgramLeavesGoodPosition ==
    ASSUME GpsFeeds # {}
    PROVE  Spec => []FinalPositionGood
<1>1. GpsSpec => []FinalPositionGood
  BY FinalPositionAlwaysGood
<1>2. QED
  BY <1>1, RunsGps, PTL
-----------------------------------------------------------------------------
(***************************************************************************)
(* ClientManager.                                                          *)
(***************************************************************************)
Looping == {"create", "stop", "stopAgain"}
Stopped == {"destroy", "stopAgain", "joinAgain", "ended"}
Alive == {"start", "run", "erase"}

\* A client is active just while its thread is in Client::run.
ActiveInRun == \A c \in Positions : m_states[c] # "NONE" <=> thread[c] = "run"

\* Who is in the set: from the end of run on, the clients whose thread has not
\* come to its end, and none once stop has joined the threads.
Membership ==
    /\ m_mutex = "main" <=> managerPc \in Looping
    /\ managerPc = "subscribe" => \A c \in Positions : thread[c] = "none"
    /\ managerPc = "create" => \A c \in Positions :
           /\ c \in toVisit => thread[c] = "none"
           /\ c \in m_clients => c \in toVisit \/ thread[c] \in Alive
    /\ managerPc \notin {"subscribe", "create"} => \A c \in m_clients : thread[c] \in Alive
    /\ managerPc \in Stopped => \A c \in Positions : thread[c] \in {"none", "done"}

\* The inductive invariant.
MInv == ManagerTypeOK /\ ActiveInRun /\ Membership

\* The number of feeds is within its bound.
LEMMA FeedsBound ==
    ASSUME feeds \in UNION {[1 .. k -> FeedKinds] : k \in Positions}
    PROVE  Len(feeds) \in Positions
<1>1. PICK k \in Positions : feeds \in [1 .. k -> FeedKinds]
  OBVIOUS
<1>2. k \in Nat /\ feeds \in Seq(FeedKinds)
  BY <1>1, ManagerAssumption DEF Positions
<1>3. Len(feeds) = k
  BY <1>1, <1>2, LenProperties
<1>4. QED
  BY <1>3

\* The invariant holds initially.
LEMMA MInvInit == ManagerInit => MInv
<1> SUFFICES ASSUME ManagerInit PROVE MInv
  OBVIOUS
<1>1. Len(feeds) \in Positions
  BY FeedsBound DEF ManagerInit
<1>2. QED
  BY <1>1 DEF ManagerInit, MInv, ManagerTypeOK, ActiveInRun, Membership, Looping, Stopped

\* The subscriptions keep the invariant.
LEMMA SubscribeStep == MInv /\ subscribe => MInv'
<1> SUFFICES ASSUME MInv, subscribe PROVE MInv'
  OBVIOUS
<1>1. n \in Positions /\ n' \in Nat \ {0}
  BY ManagerAssumption DEF subscribe, MInv, ManagerTypeOK, Positions
<1>2. m_clients' \subseteq Positions
  BY <1>1, Zenon DEF subscribe, MInv, ManagerTypeOK
<1>3. QED
  BY <1>1, <1>2 DEF subscribe, MInv, ManagerTypeOK, ActiveInRun, Membership, Looping, Stopped

\* The loops of run and stop keep it.
LEMMA LoopStep ==
    ASSUME MInv, BeginRun \/ EndRun \/ BeginStop \/ StopAgain \/ EndStop
    PROVE  MInv'
<1> USE DEF MInv, ManagerTypeOK, ActiveInRun, Membership, Looping, Stopped, Alive, threads
<1>1. CASE BeginRun
  BY <1>1 DEF BeginRun, BeginLoop
<1>2. CASE BeginStop \/ StopAgain
  BY <1>2 DEF BeginStop, StopAgain, BeginLoop
<1>3. CASE EndRun
  BY <1>3 DEF EndRun, EndLoop
<1>4. CASE EndLoop("stop", "join")
  BY <1>4 DEF EndLoop
<1>5. CASE EndLoop("stopAgain", "joinAgain")
  BY <1>5 DEF EndLoop
<1>6. QED
  BY <1>1, <1>2, <1>3, <1>4, <1>5, Zenon DEF EndStop

\* Their iterations, and join_all, keep it.
LEMMA IterationStep ==
    ASSUME MInv, JoinAll \/ \E c \in Positions : CreateThread(c) \/ scheduleStop(c)
    PROVE  MInv'
<1>1. CASE JoinAll
  BY <1>1 DEF JoinAll, MInv, ManagerTypeOK, ActiveInRun, Membership, Looping, Stopped, Alive, threads
<1>2. ASSUME NEW c \in Positions, CreateThread(c) PROVE MInv'
  <2>1. /\ managerPc = "create" /\ c \in toVisit /\ thread[c] = "none"
        /\ thread' = [thread EXCEPT ![c] = "start"] /\ toVisit' = toVisit \ {c}
        /\ UNCHANGED <<feeds, groundMode, n, m_clients, m_feeds, m_states, m_mutex, managerPc, missed>>
    BY <1>2 DEF CreateThread, MInv, Membership
  <2>2. ManagerTypeOK' /\ ActiveInRun'
    BY <2>1 DEF MInv, ManagerTypeOK, ActiveInRun
  <2>3. Membership'
    BY <2>1 DEF MInv, ManagerTypeOK, Membership, Looping, Stopped, Alive
  <2>4. QED
    BY <2>2, <2>3 DEF MInv
<1>3. ASSUME NEW c \in Positions, scheduleStop(c) PROVE MInv'
  <2>1. /\ managerPc \in {"stop", "stopAgain"}
        /\ m_states' = IF m_states[c] \in {"RUNNING", "CONNECTING"}
                       THEN [m_states EXCEPT ![c] = "STOPPING"] ELSE m_states
        /\ toVisit' \subseteq toVisit /\ missed' \subseteq missed \cup {c}
        /\ UNCHANGED <<feeds, groundMode, n, m_clients, m_feeds, thread, m_mutex, managerPc>>
    BY <1>3 DEF scheduleStop
  <2>2. ManagerTypeOK' /\ ActiveInRun'
    BY <2>1 DEF MInv, ManagerTypeOK, ActiveInRun
  <2>3. Membership'
    BY <2>1 DEF MInv, Membership, Looping, Stopped, Alive
  <2>4. QED
    BY <2>2, <2>3 DEF MInv
<1>4. QED
  BY <1>1, <1>2, <1>3

\* The clients' threads keep it, and so does what the network does to them.
LEMMA ThreadStep ==
    ASSUME MInv, NEW c \in Positions, Thread(c) \/ Network(c)
    PROVE  MInv'
<1> USE DEF MInv, ManagerTypeOK, ActiveInRun, Membership, Looping, Stopped, Alive, BecomeAt, mainVars
<1>1. CASE RunClient(c)
  BY <1>1 DEF RunClient
<1>2. CASE ReturnClient(c)
  BY <1>2 DEF ReturnClient
<1>3. CASE EraseClient(c)
  BY <1>3 DEF EraseClient
<1>4. CASE Connect(c)
  BY <1>4 DEF Connect
<1>5. CASE Reconnect(c)
  BY <1>5 DEF Reconnect
<1>6. CASE ProcessGoodPosition(c)
  BY <1>6 DEF ProcessGoodPosition
<1>7. QED
  BY <1>1, <1>2, <1>3, <1>4, <1>5, <1>6, Zenon DEF Thread, Network

\* MInv is an invariant.
LEMMA MInvInvariant == ManagerSpec => []MInv
<1>1. MInv /\ [ManagerNext]_managerVars => MInv'
  <2> SUFFICES ASSUME MInv, [ManagerNext]_managerVars PROVE MInv'
    OBVIOUS
  <2>1. CASE ManagerNext
    BY <2>1, SubscribeStep, LoopStep, IterationStep, ThreadStep DEF ManagerNext, MainThread
  <2>2. CASE UNCHANGED managerVars
    BY <2>2 DEF managerVars, threads, mainVars, MInv, ManagerTypeOK, ActiveInRun, Membership
  <2>3. QED
    BY <2>1, <2>2
<1>2. QED
  BY <1>1, MInvInit, PTL DEF ManagerSpec

\* No thread changes m_clients while ClientManager::run or stop iterates over
\* it, with any number of clients.
THEOREM IterationAlwaysStable == ManagerSpec => StableIteration
<1>1. MInv /\ [ManagerNext]_managerVars => [m_mutex = "main" => m_clients' = m_clients]_managerVars
  <2> SUFFICES ASSUME MInv, ManagerNext, m_mutex = "main" PROVE m_clients' = m_clients
    BY DEF managerVars, threads
  <2>1. managerPc # "subscribe"
    BY DEF MInv, Membership, Looping
  <2>2. CASE MainThread \/ BeginStop
    BY <2>1, <2>2 DEF MainThread, subscribe, BeginRun, BeginStop, StopAgain, BeginLoop, EndRun,
       EndStop, EndLoop, JoinAll, CreateThread, scheduleStop, threads
  <2>3. CASE \E c \in Positions : Thread(c) \/ Network(c)
    BY <2>3 DEF Thread, RunClient, ReturnClient, EraseClient, Network, Connect, Reconnect,
       ProcessGoodPosition, BecomeAt
  <2>4. QED
    BY <2>2, <2>3 DEF ManagerNext
<1>2. QED
  BY <1>1, MInvInvariant, PTL DEF ManagerSpec, StableIteration

\* When the destructor of ClientManager has ended, no client is left in the
\* set and none is active: every thread has erased its client before join_all
\* returns.
THEOREM NothingEverLeft == ManagerSpec => []NothingLeft
<1>1. MInv => NothingLeft
  <2> SUFFICES ASSUME MInv, managerPc = "ended"
               PROVE  m_clients = {} /\ \A c \in Positions : m_states[c] = "NONE"
    BY DEF NothingLeft
  <2>1. \A c \in Positions : thread[c] \in {"none", "done"}
    BY DEF MInv, Membership, Stopped
  <2>2. \A c \in m_clients : c \in Positions /\ thread[c] \in Alive
    BY DEF MInv, ManagerTypeOK, Membership
  <2>3. QED
    BY <2>1, <2>2 DEF MInv, ActiveInRun, Alive
<1>2. QED
  BY <1>1, MInvInvariant, PTL
-----------------------------------------------------------------------------
\* What the subscriptions have done before the n-th: only earlier feeds have a
\* client or are in a list, no list is longer than the number of subscriptions,
\* and the feeds of a client's list are the ones it is found for.
Lists ==
    /\ n <= Len(feeds) + 1
    /\ m_clients \subseteq 1 .. n - 1
    /\ \A c \in Positions :
          /\ m_feeds[c] \in Seq(1 .. n - 1) /\ Len(m_feeds[c]) < n
          /\ c \notin m_clients => m_feeds[c] = << >>
          /\ \A k \in 1 .. Len(m_feeds[c]) : SameClient(feeds[c], feeds[m_feeds[c][k]])

\* Every earlier feed is in a list.
Listed ==
    \A f \in 1 .. n - 1 : \E c \in m_clients : \E k \in 1 .. Len(m_feeds[c]) : m_feeds[c][k] = f

\* No feed is in two lists or twice in one.
ListedOnce ==
    \A c, d \in Positions : \A k \in 1 .. Len(m_feeds[c]), l \in 1 .. Len(m_feeds[d]) :
        m_feeds[c][k] = m_feeds[d][l] => c = d /\ k = l

\* No two clients of the set compare equal.
Distinct ==
    \A c, d \in m_clients : SameClient(feeds[c], feeds[d]) => c = d

\* The second inductive invariant, which rests on the first.
Subscribed ==
    /\ managerPc \in {"subscribe", "create"} => Lists /\ Listed /\ ListedOnce /\ Distinct
    /\ managerPc = "create" => n = Len(feeds) + 1

\* The logins that AprscClient::hash takes in are those of AprscClients alone.
LEMMA ClientOf ==
    ASSUME NEW f
    PROVE  /\ createClientFor(f).endpoint = f.endpoint
           /\ createClientFor(f).class = "AprscClient" <=> f.protocol = "APRS"
           /\ f.protocol = "APRS" => createClientFor(f).m_login = {f.login}
           /\ f.protocol # "APRS" => createClientFor(f).m_login = {}
  BY DEF createClientFor

\* Two clients compare equal when their hashes do.
LEMMA SameHash ==
    ASSUME NEW f, NEW g
    PROVE  SameClient(f, g) <=> hash(createClientFor(f)) = hash(createClientFor(g))
<1> DEFINE c == createClientFor(f)
           d == createClientFor(g)
<1>1. SameClient(f, g) <=> hash(c) = hash(d) /\ equals(c, d)
  BY DEF SameClient
<1>2. hash(c) = hash(d) <=> c.endpoint = d.endpoint /\ c.m_login = d.m_login
  BY Zenon DEF hash
<1>3. c.m_login = d.m_login /\ c.class = "AprscClient" => d.class = "AprscClient"
  <2>1. CASE f.protocol # "APRS" \/ g.protocol = "APRS"
    BY <2>1, ClientOf
  <2>2. CASE f.protocol = "APRS" /\ g.protocol # "APRS"
    BY <2>2, ClientOf, Zenon
  <2>3. QED
    BY <2>1, <2>2
<1> HIDE DEF c, d
<1>4. SameClient(f, g) <=> hash(c) = hash(d)
  BY <1>1, <1>2, <1>3 DEF equals
<1>5. QED
  BY <1>4 DEF c, d

\* A subscription appends the feed to one list and changes no other.
LEMMA SubscribeList ==
    ASSUME MInv, Subscribed, subscribe
    PROVE  \E c \in Positions :
               /\ m_feeds' = [m_feeds EXCEPT ![c] = Append(m_feeds[c], n)]
               /\ m_clients' = m_clients \cup {c} /\ c \in 1 .. n
               /\ SameClient(feeds[c], feeds[n])
<1>1. n \in Positions /\ n \in 1 .. n /\ managerPc = "subscribe" /\ DOMAIN m_feeds = Positions
  BY ManagerAssumption DEF subscribe, MInv, ManagerTypeOK, Positions
<1>2. Lists
  BY <1>1 DEF Subscribed
<1>3. CASE \E c \in m_clients : SameClient(feeds[c], feeds[n])
  <2>1. PICK c \in m_clients :
            /\ SameClient(feeds[c], feeds[n])
            /\ m_feeds' = [m_feeds EXCEPT ![c] = Append(@, n)] /\ UNCHANGED m_clients
    BY <1>3 DEF subscribe
  <2>2. c \in Positions /\ c \in 1 .. n
    <3>1. m_clients \subseteq Positions /\ m_clients \subseteq 1 .. n - 1 /\ n \in Nat
      BY <1>2 DEF Lists, MInv, ManagerTypeOK
    <3>2. QED
      BY <3>1
  <2>3. QED
    BY <2>1, <2>2, Zenon
<1>4. CASE ~\E c \in m_clients : SameClient(feeds[c], feeds[n])
  <2>1. m_clients' = m_clients \cup {n} /\ m_feeds' = [m_feeds EXCEPT ![n] = <<n>>]
    BY <1>4 DEF subscribe
  <2>2. n \notin m_clients
    BY <1>1, <1>2, ManagerAssumption DEF Lists, Positions
  <2>3. m_feeds[n] = << >>
    BY <1>1, <1>2, <2>2 DEF Lists
  <2>4. <<n>> = Append(m_feeds[n], n)
    BY <2>3
  <2>5. SameClient(feeds[n], feeds[n])
    BY DEF SameClient, equals
  <2>6. QED
    BY <1>1, <2>1, <2>4, <2>5, Zenon
<1>5. QED
  BY <1>3, <1>4

\* A subscription inserts no client that compares equal to another.
LEMMA DistinctStep == Distinct /\ subscribe => Distinct'
<1> SUFFICES ASSUME Distinct, subscribe PROVE Distinct'
  OBVIOUS
<1>1. UNCHANGED feeds
  BY DEF subscribe
<1>2. CASE UNCHANGED m_clients
  BY <1>1, <1>2 DEF Distinct
<1>3. CASE m_clients' # m_clients
  <2>1. /\ m_clients' = m_clients \cup {n}
        /\ \A c \in m_clients : ~SameClient(feeds[c], feeds[n])
    BY <1>3 DEF subscribe
  <2>2. \A c \in m_clients : ~SameClient(feeds[n], feeds[c])
    BY <2>1, SameHash
  <2>3. QED
    BY <1>1, <2>1, <2>2 DEF Distinct
<1>4. QED
  BY <1>2, <1>3

\* A subscription keeps the second invariant.
LEMMA SubscribedStep == MInv /\ Subscribed /\ subscribe => Subscribed'
<1> SUFFICES ASSUME MInv, Subscribed, subscribe PROVE Subscribed'
  OBVIOUS
<1>1. PICK c \in Positions :
          /\ m_feeds' = [m_feeds EXCEPT ![c] = Append(m_feeds[c], n)]
          /\ m_clients' = m_clients \cup {c} /\ c \in 1 .. n
          /\ SameClient(feeds[c], feeds[n])
  BY SubscribeList
<1>2. /\ managerPc = "subscribe" /\ managerPc' = managerPc /\ feeds' = feeds /\ n' = n + 1 /\ n <= Len(feeds)
      /\ n \in Nat \ {0} /\ Len(feeds) \in Nat
      /\ DOMAIN m_feeds = Positions
  BY ManagerAssumption DEF subscribe, MInv, ManagerTypeOK, Positions
<1>3. Lists /\ Listed /\ ListedOnce
  BY <1>2 DEF Subscribed
<1>4. \A d \in Positions : d # c => m_feeds'[d] = m_feeds[d]
  BY <1>1, <1>2
<1>5. \A d \in Positions : m_feeds[d] \in Seq(1 .. n - 1) /\ m_feeds[d] \in Seq(1 .. n)
  <2>1. 1 .. n - 1 \subseteq 1 .. n
    BY <1>2
  <2>2. QED
    BY <1>3, <2>1, SeqMonotonic, Zenon DEF Lists
<1>6. /\ m_feeds'[c] \in Seq(1 .. n)
      /\ Len(m_feeds'[c]) = Len(m_feeds[c]) + 1
      /\ \A k \in 1 .. Len(m_feeds[c]) : m_feeds'[c][k] = m_feeds[c][k]
      /\ m_feeds'[c][Len(m_feeds[c]) + 1] = n
  <2>1. m_feeds'[c] = Append(m_feeds[c], n)
    BY <1>1, <1>2
  <2>2. n \in 1 .. n /\ m_feeds[c] \in Seq(1 .. n)
    BY <1>2, <1>5
  <2>3. QED
    BY <2>1, <2>2, AppendProperties
<1>7. \A d \in Positions : Len(m_feeds[d]) \in Nat /\ Len(m_feeds[d]) < n
  BY <1>3, <1>5, LenProperties DEF Lists
<1>8. \A d \in Positions : \A k \in 1 .. Len(m_feeds'[d]) :
          \/ d = c /\ k = Len(m_feeds[c]) + 1 /\ m_feeds'[d][k] = n
          \/ k \in 1 .. Len(m_feeds[d]) /\ m_feeds'[d][k] = m_feeds[d][k]
             /\ m_feeds[d][k] \in 1 .. n - 1
  <2> SUFFICES ASSUME NEW d \in Positions, NEW k \in 1 .. Len(m_feeds'[d])
               PROVE  \/ d = c /\ k = Len(m_feeds[c]) + 1 /\ m_feeds'[d][k] = n
                      \/ k \in 1 .. Len(m_feeds[d]) /\ m_feeds'[d][k] = m_feeds[d][k]
                         /\ m_feeds[d][k] \in 1 .. n - 1
    OBVIOUS
  <2>1. CASE d = c /\ k = Len(m_feeds[c]) + 1
    BY <2>1, <1>4, <1>6
  <2>2. CASE ~(d = c /\ k = Len(m_feeds[c]) + 1)
    <3>1. CASE d = c
      <4>1. k \in 1 .. Len(m_feeds[c])
        BY <2>2, <3>1, <1>6, <1>7
      <4>2. m_feeds[c][k] \in 1 .. n - 1
        BY <4>1, <1>5, ElementOfSeq, Zenon
      <4>3. QED
        BY <3>1, <4>1, <4>2, <1>6
    <3>2. CASE d # c
      BY <3>2, <1>4, <1>5, ElementOfSeq, Zenon
    <3>3. QED
      BY <3>1, <3>2
  <2>3. QED
    BY <2>1, <2>2
<1>9. Lists'
  <2>1. n' <= Len(feeds') + 1 /\ m_clients' \subseteq 1 .. n' - 1
    BY <1>1, <1>2, <1>3 DEF Lists
  <2>2. ASSUME NEW d \in Positions
        PROVE  /\ m_feeds'[d] \in Seq(1 .. n' - 1) /\ Len(m_feeds'[d]) < n'
               /\ d \notin m_clients' => m_feeds'[d] = << >>
    <3>1. n' - 1 = n
      BY <1>2
    <3>2. CASE d = c
      BY <3>1, <3>2, <1>1, <1>2, <1>6, <1>7
    <3>3. CASE d # c
      BY <3>1, <3>3, <1>1, <1>2, <1>3, <1>4, <1>5, <1>7 DEF Lists
    <3>4. QED
      BY <3>2, <3>3
  <2>3. ASSUME NEW d \in Positions, NEW k \in 1 .. Len(m_feeds'[d])
        PROVE  SameClient(feeds[d], feeds[m_feeds'[d][k]])
    <3>1. CASE d = c /\ m_feeds'[d][k] = n
      BY <3>1, <1>1
    <3>2. CASE k \in 1 .. Len(m_feeds[d]) /\ m_feeds'[d][k] = m_feeds[d][k]
      BY <3>2, <1>3 DEF Lists
    <3>3. QED
      BY <3>1, <3>2, <1>8
  <2>4. QED
    BY <2>1, <2>2, <2>3, <1>2 DEF Lists
<1>10. Listed'
  <2> SUFFICES ASSUME NEW f \in 1 .. n
               PROVE  \E d \in m_clients' : \E k \in 1 .. Len(m_feeds'[d]) : m_feeds'[d][k] = f
    BY <1>2 DEF Listed
  <2>1. CASE f = n
    <3>1. Len(m_feeds[c]) + 1 \in 1 .. Len(m_feeds'[c])
      BY <1>6, <1>7
    <3>2. QED
      BY <2>1, <3>1, <1>1, <1>6
  <2>2. CASE f # n
    <3>1. PICK d \in m_clients : \E k \in 1 .. Len(m_feeds[d]) : m_feeds[d][k] = f
      BY <2>2, <1>2, <1>3 DEF Listed
    <3> PICK k \in 1 .. Len(m_feeds[d]) : m_feeds[d][k] = f
      BY <3>1
    <3>2. d \in Positions
      BY DEF MInv, ManagerTypeOK
    <3>3. k \in 1 .. Len(m_feeds'[d]) /\ m_feeds'[d][k] = f
      <4>1. CASE d = c
        BY <4>1, <1>6, <1>7
      <4>2. CASE d # c
        BY <3>2, <4>2, <1>4
      <4>3. QED
        BY <4>1, <4>2
    <3>4. QED
      BY <3>3, <1>1
  <2>3. QED
    BY <2>1, <2>2
<1>11. ListedOnce'
  <2> SUFFICES ASSUME NEW d \in Positions, NEW e \in Positions,
                      NEW k \in 1 .. Len(m_feeds'[d]), NEW l \in 1 .. Len(m_feeds'[e]),
                      m_feeds'[d][k] = m_feeds'[e][l]
               PROVE  d = e /\ k = l
    BY DEF ListedOnce
  <2>1. n \notin 1 .. n - 1
    BY <1>2
  <2>2. /\ \/ d = c /\ k = Len(m_feeds[c]) + 1 /\ m_feeds'[d][k] = n
           \/ k \in 1 .. Len(m_feeds[d]) /\ m_feeds'[d][k] = m_feeds[d][k]
              /\ m_feeds[d][k] \in 1 .. n - 1
        /\ \/ e = c /\ l = Len(m_feeds[c]) + 1 /\ m_feeds'[e][l] = n
           \/ l \in 1 .. Len(m_feeds[e]) /\ m_feeds'[e][l] = m_feeds[e][l]
              /\ m_feeds[e][l] \in 1 .. n - 1
    BY <1>8, Zenon
  <2>3. CASE m_feeds'[d][k] # n
    <3>1. /\ k \in 1 .. Len(m_feeds[d]) /\ l \in 1 .. Len(m_feeds[e])
          /\ m_feeds[d][k] = m_feeds[e][l]
      BY <2>2, <2>3
    <3>2. QED
      BY <3>1, <1>3 DEF ListedOnce
  <2>4. CASE m_feeds'[d][k] = n
    BY <2>1, <2>2, <2>4
  <2>5. QED
    BY <2>3, <2>4
<1>12. Distinct'
  BY <1>2, DistinctStep DEF Subscribed
<1>13. QED
  BY <1>2, <1>9, <1>10, <1>11, <1>12 DEF Subscribed

\* The second invariant, too, holds always: after the subscriptions nothing
\* changes the lists, and no client is erased before run has started all.
LEMMA SubscribedInvariant == ManagerSpec => []Subscribed
<1>1. ManagerInit => Subscribed
  <2> SUFFICES ASSUME ManagerInit PROVE Subscribed
    OBVIOUS
  <2>1. Len(feeds) \in Positions
    BY FeedsBound DEF ManagerInit
  <2>2. Lists
    BY <2>1, ManagerAssumption, EmptySeq DEF ManagerInit, Lists, Positions
  <2>3. Listed /\ ListedOnce
    <3>1. n = 1 /\ \A c \in Positions : m_feeds[c] = << >>
      BY DEF ManagerInit
    <3>2. 1 .. n - 1 = {} /\ \A c \in Positions : 1 .. Len(m_feeds[c]) = {}
      BY <3>1, EmptySeq
    <3>3. QED
      BY <3>2, Zenon DEF Listed, ListedOnce
  <2>4. Distinct
    BY DEF ManagerInit, Distinct
  <2>5. QED
    BY <2>2, <2>3, <2>4 DEF ManagerInit, Subscribed
<1>2. MInv /\ Subscribed /\ [ManagerNext]_managerVars => Subscribed'
  <2> SUFFICES ASSUME MInv, Subscribed, [ManagerNext]_managerVars PROVE Subscribed'
    OBVIOUS
  <2> DEFINE Same == UNCHANGED <<feeds, n, m_clients, m_feeds>>
  <2>1. Same /\ UNCHANGED managerPc => Subscribed'
    BY DEF Subscribed, Lists, Listed, ListedOnce, Distinct
  <2>2. managerPc' \notin {"subscribe", "create"} => Subscribed'
    BY DEF Subscribed
  <2>3. CASE subscribe
    BY <2>3, SubscribedStep
  <2>4. CASE BeginRun
    <3>1. Same /\ managerPc = "subscribe" /\ n > Len(feeds)
      BY <2>4 DEF BeginRun, BeginLoop, threads
    <3>2. Lists /\ Listed /\ ListedOnce /\ Distinct
      BY <3>1 DEF Subscribed
    <3>3. Lists' /\ Listed' /\ ListedOnce' /\ Distinct'
      BY <3>1, <3>2 DEF Lists, Listed, ListedOnce, Distinct
    <3>4. n' = Len(feeds') + 1
      BY <3>1, <3>2, ManagerAssumption DEF Lists, MInv, ManagerTypeOK, Positions
    <3>5. QED
      BY <3>3, <3>4 DEF Subscribed
  <2>5. CASE EndRun \/ EndStop \/ JoinAll \/ StopAgain \/ BeginStop
    BY <2>2, <2>5 DEF EndRun, EndStop, EndLoop, JoinAll, StopAgain, BeginStop, BeginLoop
  <2>6. CASE \E c \in Positions : CreateThread(c) \/ scheduleStop(c) \/ Network(c)
    BY <2>1, <2>6 DEF CreateThread, scheduleStop, Network, Connect, Reconnect,
                      ProcessGoodPosition, BecomeAt, mainVars
  <2>7. CASE \E c \in Positions : RunClient(c) \/ ReturnClient(c)
    BY <2>1, <2>7 DEF RunClient, ReturnClient, BecomeAt, mainVars
  <2>8. CASE \E c \in Positions : EraseClient(c)
    <3>1. managerPc' \notin {"subscribe", "create"}
      BY <2>8 DEF EraseClient, mainVars, MInv, Membership, Looping
    <3>2. QED
      BY <3>1, <2>2
  <2>9. CASE UNCHANGED managerVars
    BY <2>1, <2>9 DEF managerVars, threads, mainVars
  <2>10. QED
    BY <2>3, <2>4, <2>5, <2>6, <2>7, <2>8, <2>9 DEF ManagerNext, MainThread, Thread
<1>3. QED
  BY <1>1, <1>2, MInvInvariant, PTL DEF ManagerSpec

\* The client found for a feed connects to the feed's endpoint with its login.
LEMMA SameClientServes ==
    ASSUME NEW f, NEW g, SameClient(f, g)
    PROVE  /\ f.endpoint = g.endpoint
           /\ g.protocol = "APRS" => f.protocol = "APRS" /\ f.login = g.login
<1>1. /\ createClientFor(f).endpoint = createClientFor(g).endpoint
      /\ createClientFor(f).m_login = createClientFor(g).m_login
  BY DEF SameClient, equals, hash
<1>2. QED
  BY <1>1 DEF createClientFor

\* Of two feeds that need the same connection, the second is served by every
\* client that serves the first.
LEMMA SharedClient ==
    ASSUME MInv, Lists, Listed, Distinct, n = Len(feeds) + 1,
           NEW f \in 1 .. Len(feeds), NEW g \in 1 .. Len(feeds), NEW c \in m_clients, Serves(c, f),
           feeds[g].protocol = feeds[f].protocol, feeds[g].endpoint = feeds[f].endpoint,
           feeds[f].protocol = "APRS" => feeds[g].login = feeds[f].login
    PROVE  Serves(c, g)
<1>1. /\ Len(feeds) \in Nat /\ m_clients \subseteq Positions /\ 1 .. n - 1 = 1 .. Len(feeds)
  BY ManagerAssumption DEF MInv, ManagerTypeOK, Positions
<1>2. PICK d \in m_clients : Serves(d, g)
  BY <1>1 DEF Listed, Serves
<1>3. SameClient(feeds[c], feeds[f]) /\ SameClient(feeds[d], feeds[g])
  BY <1>1, <1>2, Zenon DEF Lists, Serves
<1>4. /\ createClientFor(feeds[f]).endpoint = createClientFor(feeds[g]).endpoint
      /\ createClientFor(feeds[f]).m_login = createClientFor(feeds[g]).m_login
  BY ClientOf, Zenon
<1>5. hash(createClientFor(feeds[f])) = hash(createClientFor(feeds[g]))
  BY <1>4 DEF hash
<1>6. SameClient(feeds[c], feeds[d])
  BY <1>3, <1>5, SameHash
<1>7. QED
  BY <1>2, <1>6 DEF Distinct

\* ClientManager::subscribe leaves every feed with exactly one client, once,
\* with the right one, and with one client for the feeds that can share it, for
\* any list of feeds of any protocols.
THEOREM AlwaysServedOnce == ManagerSpec => []ServedOnce
<1>1. MInv /\ Subscribed => ServedOnce
  <2> SUFFICES ASSUME MInv, Subscribed, managerPc = "create", NEW f \in 1 .. Len(feeds)
               PROVE  /\ Cardinality({p \in m_clients \X Positions :
                                p[2] <= Len(m_feeds[p[1]]) /\ m_feeds[p[1]][p[2]] = f}) = 1
                      /\ \A c \in m_clients : Serves(c, f) =>
                            /\ feeds[c].endpoint = feeds[f].endpoint
                            /\ feeds[f].protocol = "APRS" =>
                                  feeds[c].protocol = "APRS" /\ feeds[c].login = feeds[f].login
                            /\ \A g \in 1 .. Len(feeds) :
                                  /\ feeds[g].protocol = feeds[f].protocol
                                  /\ feeds[g].endpoint = feeds[f].endpoint
                                  /\ feeds[f].protocol = "APRS" => feeds[g].login = feeds[f].login
                                  => Serves(c, g)
    BY Zenon DEF ServedOnce
  <2> DEFINE serving == {p \in m_clients \X Positions :
                             p[2] <= Len(m_feeds[p[1]]) /\ m_feeds[p[1]][p[2]] = f}
  <2>1. /\ Lists /\ Listed /\ ListedOnce /\ Distinct
        /\ n = Len(feeds) + 1 /\ Len(feeds) \in Positions
        /\ m_clients \subseteq Positions
    BY DEF Subscribed, MInv, ManagerTypeOK
  <2>2. \A c \in m_clients : Len(m_feeds[c]) \in Nat /\ 1 .. Len(m_feeds[c]) \subseteq Positions
    BY <2>1, LenProperties, ManagerAssumption DEF Lists, Positions
  <2>3. PICK c \in m_clients : \E k \in 1 .. Len(m_feeds[c]) : m_feeds[c][k] = f
    BY <2>1, ManagerAssumption DEF Listed, Positions
  <2> PICK k \in 1 .. Len(m_feeds[c]) : m_feeds[c][k] = f
    BY <2>3
  <2>4. <<c, k>> \in serving
    BY <2>2, <2>3
  <2>5. ASSUME NEW p \in serving PROVE p = <<c, k>>
    <3>1. /\ p = <<p[1], p[2]>> /\ p[1] \in m_clients /\ p[2] \in 1 .. Len(m_feeds[p[1]])
          /\ m_feeds[p[1]][p[2]] = f
      BY <2>2, ManagerAssumption DEF Positions
    <3>2. p[1] \in Positions /\ c \in Positions
      BY <2>1, <3>1
    <3>3. m_feeds[p[1]][p[2]] = m_feeds[c][k]
      BY <3>1
    <3> HIDE DEF serving
    <3>4. p[1] = c /\ p[2] = k
      BY <2>1, <3>1, <3>2, <3>3 DEF ListedOnce
    <3>5. QED
      BY <3>1, <3>4, Zenon
  <2>6. serving = {<<c, k>>}
    BY <2>4, <2>5
  <2>7. Cardinality(serving) = 1
    BY <2>6, FS_Singleton, Zenon
  <2>8. \A d \in m_clients : Serves(d, f) => SameClient(feeds[d], feeds[f])
    BY <2>1 DEF Lists, Serves
  <2>9. \A d \in m_clients : Serves(d, f) =>
            /\ feeds[d].endpoint = feeds[f].endpoint
            /\ feeds[f].protocol = "APRS" =>
                  feeds[d].protocol = "APRS" /\ feeds[d].login = feeds[f].login
    BY <2>8, SameClientServes
  <2>10. QED
    BY <2>1, <2>7, <2>9, SharedClient
<1>2. QED
  BY <1>1, MInvInvariant, SubscribedInvariant, PTL
-----------------------------------------------------------------------------
(***************************************************************************)
(* Server.                                                                 *)
(***************************************************************************)
\* The occupied slots of an array of connections.
OccupiedIn(c) == {s \in Slots : c[s] # NoPeer}

\* There are finitely many slots, and at most S_MAX_CLIENTS are occupied.
LEMMA OccupiedBound ==
    ASSUME NEW c
    PROVE  /\ IsFiniteSet(OccupiedIn(c))
           /\ Cardinality(OccupiedIn(c)) \in 0 .. S_MAX_CLIENTS
<1>1. IsFiniteSet(Slots) /\ Cardinality(Slots) = S_MAX_CLIENTS
  BY FS_Interval, ServerAssumption DEF Slots
<1>2. OccupiedIn(c) \subseteq Slots
  BY DEF OccupiedIn
<1>3. IsFiniteSet(OccupiedIn(c)) /\ Cardinality(OccupiedIn(c)) <= S_MAX_CLIENTS
  BY <1>1, <1>2, FS_Subset
<1> QED
  BY <1>3, FS_CardinalityType, ServerAssumption

\* Resetting an occupied slot, as send does, leaves one connection less.
LEMMA ResetCount ==
    ASSUME NEW c \in [Slots -> Peers], NEW s \in Slots, c[s] # NoPeer
    PROVE  LET d == [c EXCEPT ![s] = NoPeer]
           IN  Cardinality(OccupiedIn(d)) = Cardinality(OccupiedIn(c)) - 1
<1> DEFINE d == [c EXCEPT ![s] = NoPeer]
<1>1. OccupiedIn(d) = OccupiedIn(c) \ {s}
  BY DEF OccupiedIn
<1>2. s \in OccupiedIn(c)
  BY DEF OccupiedIn
<1> QED
  BY <1>1, <1>2, OccupiedBound, FS_RemoveElement

\* Filling a null slot, as attemptConnection does, leaves one more.
LEMMA FillCount ==
    ASSUME NEW c \in [Slots -> Peers], NEW s \in Slots, c[s] = NoPeer,
           NEW a \in Addresses
    PROVE  LET d == [c EXCEPT ![s] = a]
           IN  Cardinality(OccupiedIn(d)) = Cardinality(OccupiedIn(c)) + 1
<1> DEFINE d == [c EXCEPT ![s] = a]
<1>1. OccupiedIn(d) = OccupiedIn(c) \cup {s}
  BY ServerAssumption DEF OccupiedIn
<1>2. s \notin OccupiedIn(c)
  BY DEF OccupiedIn
<1> QED
  BY <1>1, <1>2, OccupiedBound, FS_AddElement

\* With fewer connections than slots the loop of attemptConnection finds a
\* null slot, and so a first one.
LEMMA NullSlotExists ==
    ASSUME NEW c \in [Slots -> Peers],
           Cardinality(OccupiedIn(c)) < S_MAX_CLIENTS
    PROVE  \E s \in Slots : c[s] = NoPeer
<1> SUFFICES ASSUME \A s \in Slots : c[s] # NoPeer PROVE FALSE
  OBVIOUS
<1>1. OccupiedIn(c) = Slots
  BY DEF OccupiedIn
<1> QED
  BY <1>1, FS_Interval, ServerAssumption DEF Slots

\* If there is a null slot there is a first one.
LEMMA FirstNullSlot ==
    ASSUME NEW c \in [Slots -> Peers], \E s \in Slots : c[s] = NoPeer
    PROVE  \E s \in Slots : c[s] = NoPeer /\ \A t \in Slots : t < s => c[t] # NoPeer
<1> DEFINE Nulls == {s \in Slots : c[s] = NoPeer}
<1>1. Nulls # {} /\ Nulls \subseteq Nat
  BY DEF Slots
<1> HIDE DEF Nulls
<1>2. PICK first \in Nulls : \A m \in Nulls : ~(<<m, first>> \in OpToRel(<, Nat))
  BY <1>1, NatLessThanWellFounded, WFMin
<1>3. \A m \in Nulls : ~(m < first)
  BY <1>1, <1>2 DEF OpToRel
<1> USE DEF Nulls
<1> QED
  BY <1>2, <1>3 DEF Slots
-----------------------------------------------------------------------------
\* The counter is wide enough for the array.
CounterFits == S_MAX_CLIENTS < COUNTER_MOD

\* Occupied is the case of the current array.
LEMMA OccupiedIs == Occupied = OccupiedIn(m_connections)
  BY DEF Occupied, OccupiedIn

\* The invariant holds before run.
LEMMA InitSInv == ServerInit => SInv
<1> SUFFICES ASSUME ServerInit PROVE SInv
  OBVIOUS
<1> USE ServerAssumption DEF ServerInit
<1>1. ServerTypeOK
  <2>1. 0 \in 0 .. COUNTER_MOD - 1 /\ 1 \in 1 .. S_MAX_CLIENTS + 1
    OBVIOUS
  <2>2. m_connections \in [Slots -> Peers]
    BY DEF Peers
  <2> QED
    BY <2>1, <2>2, Zenon DEF ServerTypeOK, Peers
<1>2. Occupied = {}
  BY DEF Occupied
<1>3. CountsConnections
  BY <1>2, FS_EmptySet DEF CountsConnections
<1>4. ControlInv
  BY DEF ControlInv
<1>5. OneConnectionPerAddress /\ AcceptsIntoClosedSocket /\ KeepsListening
  BY <1>2 DEF OneConnectionPerAddress, AcceptsIntoClosedSocket, KeepsListening
<1> QED
  BY <1>1, <1>3, <1>4, <1>5 DEF SInv

\* What the state of the connections contributes to the invariant; only send,
\* stop and attemptConnection change it.
ConnectionsInv ==
    /\ m_connections \in [Slots -> Peers]
    /\ m_activeConnections \in 0 .. COUNTER_MOD - 1
    /\ CountsConnections
    /\ OneConnectionPerAddress

\* A step that leaves slots and counter alone keeps their invariant.
LEMMA ConnectionsUnchanged ==
    ASSUME ConnectionsInv, UNCHANGED connections
    PROVE  ConnectionsInv'
  BY DEF ConnectionsInv, connections, CountsConnections, OneConnectionPerAddress,
         Occupied

\* A connection that send resets is counted, and the counter does not wrap.
LEMMA WriteConnections ==
    ASSUME CounterFits, ConnectionsInv, NEW s \in Slots, NEW written \in BOOLEAN,
           WriteTo(s, written)
    PROVE  ConnectionsInv'
<1>1. CASE m_connections[s] = NoPeer \/ written
  BY <1>1, ConnectionsUnchanged DEF WriteTo
<1>2. CASE ~(m_connections[s] = NoPeer \/ written)
  <2>1. /\ m_connections' = [m_connections EXCEPT ![s] = NoPeer]
        /\ m_activeConnections' = (m_activeConnections + COUNTER_MOD - 1) % COUNTER_MOD
    BY <1>2 DEF WriteTo
  <2>2. m_connections' \in [Slots -> Peers]
    BY <2>1 DEF ConnectionsInv, Peers
  <2>3. Cardinality(Occupied') = Cardinality(Occupied) - 1
    BY <1>2, <2>1, ResetCount DEF ConnectionsInv, Occupied, OccupiedIn
  <2>4. Cardinality(Occupied') \in 0 .. S_MAX_CLIENTS
    BY OccupiedBound DEF Occupied, OccupiedIn
  <2>5. m_activeConnections \in 1 .. COUNTER_MOD - 1
    BY <2>3, <2>4, ServerAssumption DEF ConnectionsInv, CountsConnections
  <2>6. m_activeConnections' = m_activeConnections - 1
    BY <2>1, <2>5, ServerAssumption
  <2>7. CountsConnections' /\ m_activeConnections' \in 0 .. COUNTER_MOD - 1
    BY <2>3, <2>5, <2>6, ServerAssumption DEF ConnectionsInv, CountsConnections
  <2>8. OneConnectionPerAddress'
    BY <2>1 DEF ConnectionsInv, OneConnectionPerAddress, Occupied
  <2> QED
    BY <2>2, <2>7, <2>8 DEF ConnectionsInv
<1> QED
  BY <1>1, <1>2

\* stop leaves no connection, and the counter at 0.
LEMMA StopConnections ==
    ASSUME Stop
    PROVE  ConnectionsInv'
<1> USE ServerAssumption DEF Stop
<1>1. Occupied' = {}
  BY DEF Occupied
<1>2. CountsConnections'
  BY <1>1, FS_EmptySet DEF CountsConnections
<1>3. OneConnectionPerAddress'
  BY <1>1 DEF OneConnectionPerAddress
<1> QED
  BY <1>2, <1>3 DEF ConnectionsInv, Peers

\* attemptConnection finds a null slot for a peer it may admit, counts it, and
\* leaves the socket closed.
LEMMA StartConnectionEffect ==
    ASSUME CounterFits, ConnectionsInv, m_socket \in Peers, StartConnection
    PROVE  ConnectionsInv' /\ m_socket' = NoPeer
<1>1. m_socket \in Addresses
  BY DEF StartConnection, Peers
<1>2. m_activeConnections < S_MAX_CLIENTS
  BY DEF StartConnection, Admissible
<1>3. \E s \in Slots : m_connections[s] = NoPeer
  BY <1>2, NullSlotExists, OccupiedIs DEF ConnectionsInv, CountsConnections
<1>4. PICK s \in Slots :
         /\ m_connections[s] = NoPeer
         /\ m_connections' = [m_connections EXCEPT ![s] = m_socket]
         /\ m_activeConnections' = (m_activeConnections + 1) % COUNTER_MOD
         /\ m_socket' = NoPeer
  <2> DEFINE First(s) == /\ m_connections[s] = NoPeer
                         /\ \A t \in Slots : t < s => m_connections[t] # NoPeer
             free == CHOOSE s \in Slots : First(s)
  <2>1. \E s \in Slots : First(s)
    BY <1>3, FirstNullSlot DEF ConnectionsInv
  <2>2. free \in Slots /\ First(free)
    BY <2>1
  <2>3. /\ m_connections' = [m_connections EXCEPT ![free] = m_socket]
        /\ m_activeConnections' = (m_activeConnections + 1) % COUNTER_MOD
        /\ m_socket' = NoPeer
    BY <1>3 DEF StartConnection
  <2> HIDE DEF free
  <2> QED
    BY <2>2, <2>3
<1>5. m_connections' \in [Slots -> Peers]
  BY <1>1, <1>4 DEF ConnectionsInv, Peers
<1>6. Cardinality(Occupied') = Cardinality(Occupied) + 1
  BY <1>1, <1>4, FillCount DEF ConnectionsInv, Occupied, OccupiedIn
<1>7. m_activeConnections' = m_activeConnections + 1
  BY <1>2, <1>4, ServerAssumption DEF ConnectionsInv, CounterFits
<1>8. CountsConnections' /\ m_activeConnections' \in 0 .. COUNTER_MOD - 1
  BY <1>2, <1>6, <1>7, ServerAssumption DEF ConnectionsInv, CountsConnections,
     CounterFits
<1>9. \A t \in Slots : m_connections[t] # m_socket
  BY DEF StartConnection, Admissible, isConnected
<1>10. OneConnectionPerAddress'
  BY <1>4, <1>5, <1>9 DEF ConnectionsInv, OneConnectionPerAddress, Occupied
<1> QED
  BY <1>4, <1>5, <1>8, <1>10 DEF ConnectionsInv
-----------------------------------------------------------------------------
\* The rest of the invariant: types, control and socket.
RestType ==
    /\ serverRunning \in BOOLEAN
    /\ m_socket \in Peers
    /\ acceptorOpen \in BOOLEAN
    /\ accept \in {"none", "waiting", "ready"}
    /\ peer \in Peers
    /\ ioStopped \in BOOLEAN
    /\ mutex \in {"free", "main"}
    /\ mainPc \in {"setup", "serve", "send", "closeAcceptor", "stopIo",
                   "closeSocket", "join", "stopped", "aborted"}
    /\ ioPc \in {"none", "accept", "lock", "run", "assign", "attempt",
                 "reaccept", "done", "aborted"}

SlotType == slot \in 1 .. S_MAX_CLIENTS + 1

RestInv == RestType /\ ControlInv /\ AcceptsIntoClosedSocket /\ KeepsListening

\* The invariant is the conjunction of its three parts.
LEMMA SInvParts == SInv <=> ConnectionsInv /\ RestInv /\ SlotType
  BY Zenon DEF SInv, ServerTypeOK, ConnectionsInv, RestInv, RestType, SlotType

\* Every step keeps the loop variable of send in its range.
LEMMA NextSlotType ==
    ASSUME SlotType, [ServerNext]_serverVars
    PROVE  SlotType'
<1>1. CASE UNCHANGED slot
  BY <1>1 DEF SlotType
<1>2. CASE BeginSend \/ EndSend
  BY <1>2, ServerAssumption DEF SlotType, BeginSend, EndSend
<1>3. CASE Write
  BY <1>3, ServerAssumption DEF SlotType, Write
<1> QED
  BY <1>1, <1>2, <1>3 DEF ServerNext, serverVars, serverControl, RunServer, Stop, StopAcceptor, StopIo,
     StopSocket, Join, Accept, EnterRun, Dequeue, ReturnFromRun, AssignPeer,
     AttemptError, StartConnection, Refuse, Abort, Attempted, Arrive, Terminated

\* Every step keeps the connections and their count.
LEMMA NextConnections ==
    ASSUME CounterFits, SInv, [ServerNext]_serverVars
    PROVE  ConnectionsInv'
<1> USE SInvParts
<1>1. CASE UNCHANGED connections
  BY <1>1, ConnectionsUnchanged
<1>2. CASE Write
  <2>1. slot \in Slots
    BY <1>2, ServerAssumption DEF Write, SlotType, Slots
  <2>2. PICK written \in BOOLEAN : WriteTo(slot, written)
    BY <1>2 DEF Write
  <2> QED
    BY <2>1, <2>2, WriteConnections
<1>3. CASE Stop
  BY <1>3, StopConnections
<1>4. CASE StartConnection
  BY <1>4, StartConnectionEffect DEF RestInv, RestType
<1> QED
  BY <1>1, <1>2, <1>3, <1>4 DEF ServerNext, serverVars, connections, RunServer, BeginSend, EndSend,
     StopAcceptor, StopIo, StopSocket, Join, Accept, EnterRun, Dequeue,
     ReturnFromRun, AssignPeer, AttemptError, Refuse, Abort, Arrive, Terminated

\* Every step of the main thread keeps the rest.
LEMMA MainRest ==
    ASSUME RestInv, RunServer \/ BeginSend \/ Write \/ EndSend \/ Stop
                    \/ StopAcceptor \/ StopIo \/ StopSocket \/ Join
    PROVE  RestInv'
<1> USE DEF RestInv, RestType, ControlInv, AcceptsIntoClosedSocket, KeepsListening,
            net, Peers
<1>1. CASE RunServer
  BY <1>1 DEF RunServer
<1>2. CASE BeginSend \/ EndSend
  BY <1>2, SMTT(30) DEF BeginSend, EndSend
<1>3. CASE Write
  BY <1>3 DEF Write
<1>4. CASE Stop
  BY <1>4, Zenon DEF Stop
<1>5. CASE StopAcceptor
  BY <1>5, Zenon DEF StopAcceptor
<1>6. CASE StopIo
  BY <1>6 DEF StopIo
<1>7. CASE StopSocket
  BY <1>7 DEF StopSocket
<1>8. CASE Join
  BY <1>8, Zenon DEF Join
<1> QED
  BY <1>1, <1>2, <1>3, <1>4, <1>5, <1>6, <1>7, <1>8, Zenon

\* And so does every step of the server's thread and of the network.
LEMMA IoRest ==
    ASSUME CounterFits, SInv,
           \/ Accept \/ EnterRun \/ Dequeue \/ ReturnFromRun \/ AssignPeer
           \/ AttemptError \/ StartConnection \/ Refuse \/ Abort
           \/ \E from \in Peers : Arrive(from)
    PROVE  RestInv'
<1>0. ConnectionsInv /\ RestInv
  BY SInvParts
<1>s. CASE StartConnection
  <2>1. m_socket' = NoPeer
    BY <1>0, <1>s, StartConnectionEffect DEF RestInv, RestType
  <2> QED
    BY <1>0, <1>s, <2>1 DEF StartConnection, Attempting, Attempted, RestInv, RestType,
       ControlInv, AcceptsIntoClosedSocket, KeepsListening, Peers
<1> USE <1>0 DEF RestInv, RestType, ControlInv, AcceptsIntoClosedSocket,
            KeepsListening, net, serverControl, Peers
<1>1. CASE Accept
  BY <1>1 DEF Accept, OnAccept
<1>2. CASE EnterRun
  BY <1>2 DEF EnterRun
<1>3. CASE Dequeue
  BY <1>3 DEF Dequeue
<1>4. CASE ReturnFromRun
  BY <1>4 DEF ReturnFromRun
<1>5. CASE AssignPeer
  BY <1>5 DEF AssignPeer
<1>6. CASE AttemptError
  BY <1>6 DEF AttemptError
<1>7. CASE Refuse
  BY <1>7 DEF Refuse, Attempting, Attempted
<1>8. CASE Abort
  BY <1>8 DEF Abort, Attempting
<1>9. ASSUME NEW from \in Peers, Arrive(from) PROVE RestInv'
  BY <1>9 DEF Arrive
<1> QED
  BY <1>s, <1>1, <1>2, <1>3, <1>4, <1>5, <1>6, <1>7, <1>8, <1>9, Zenon

\* Every step preserves the invariant.
LEMMA NextSInv ==
    ASSUME CounterFits, SInv, [ServerNext]_serverVars
    PROVE  SInv'
<1>1. ConnectionsInv' /\ SlotType'
  BY NextConnections, NextSlotType, SInvParts
<1>2. RestInv'
  <2>1. CASE UNCHANGED serverVars
    BY <2>1, SInvParts, SMTT(30) DEF serverVars, net, serverControl, RestInv, RestType, ControlInv,
       AcceptsIntoClosedSocket, KeepsListening
  <2>2. CASE ServerNext
    BY <2>1, <2>2, MainRest, IoRest, SInvParts DEF ServerNext, Terminated
  <2> QED
    BY <2>1, <2>2
<1>3. (ConnectionsInv /\ RestInv /\ SlotType)' => SInv'
  BY Zenon DEF SInv, ServerTypeOK, ConnectionsInv, RestInv, RestType, SlotType
<1> QED
  BY <1>1, <1>2, <1>3
-----------------------------------------------------------------------------
\* The inductive invariant holds throughout, however run, send, stop and the
\* accept handler interleave, if the uint8_t can count all slots.
THEOREM ServerInvariance ==
    ASSUME CounterFits
    PROVE  ServerSpec => []SInv
  BY InitSInv, NextSInv, PTL DEF ServerSpec

\* m_activeConnections always is the number of connections, and no address is
\* connected twice.
THEOREM CountAlwaysRight ==
    ASSUME CounterFits
    PROVE  ServerSpec => [](CountsConnections /\ OneConnectionPerAddress)
<1>1. SInv => CountsConnections /\ OneConnectionPerAddress
  BY DEF SInv
<1> QED
  BY <1>1, ServerInvariance, PTL

\* The server never accepts into an open socket, and its thread does not run
\* out of work before stop.
THEOREM AlwaysListening ==
    ASSUME CounterFits
    PROVE  ServerSpec => [](AcceptsIntoClosedSocket /\ KeepsListening)
<1>1. SInv => AcceptsIntoClosedSocket /\ KeepsListening
  BY DEF SInv
<1> QED
  BY <1>1, ServerInvariance, PTL

\* Type correctness of the server: the counter stays in its width and the loop
\* of send in the array.
THEOREM ServerTypeCorrect ==
    ASSUME CounterFits
    PROVE  ServerSpec => []ServerTypeOK
<1>1. SInv => ServerTypeOK
  BY DEF SInv
<1> QED
  BY <1>1, ServerInvariance, PTL

-----------------------------------------------------------------------------
\* At most one slot is occupied.
AtMostOne == \A s, t \in Occupied : s = t

\* What holds from stop on: no connection is left while it keeps the mutex, and
\* the one handler that may still run then is the last.
StopInv ==
    /\ mainPc \in {"closeAcceptor", "stopIo", "closeSocket"} => mutex = "main" /\ Occupied = {}
    /\ mainPc \in {"closeSocket", "join"} => ioStopped
    /\ mainPc = "join" => Occupied = {} \/ (AtMostOne /\ ioPc \in {"reaccept", "run", "done"})
    /\ mainPc = "stopped" => AtMostOne /\ ioPc = "done"

\* The main thread keeps StopInv.
LEMMA MainStopInv ==
    ASSUME StopInv,
           RunServer \/ BeginSend \/ Write \/ EndSend \/ Stop \/ StopAcceptor \/ StopIo
               \/ StopSocket \/ Join \/ Terminated
    PROVE  StopInv'
<1>1. CASE RunServer \/ BeginSend \/ Write \/ EndSend
  BY <1>1 DEF StopInv, RunServer, BeginSend, Write, EndSend
<1>2. CASE Stop
  BY <1>2 DEF StopInv, Stop, Occupied
<1>3. CASE StopAcceptor
  BY <1>3 DEF StopInv, StopAcceptor, Occupied, connections
<1>4. CASE StopIo
  BY <1>4 DEF StopInv, StopIo, Occupied, connections
<1>5. CASE StopSocket
  BY <1>5 DEF StopInv, StopSocket, Occupied, connections
<1>6. CASE Join
  BY <1>6 DEF StopInv, Join, AtMostOne, Occupied, connections
<1>7. CASE Terminated
  BY <1>7 DEF StopInv, Terminated, serverVars, connections, net, serverControl, AtMostOne, Occupied
<1> QED
  BY <1>1, <1>2, <1>3, <1>4, <1>5, <1>6, <1>7

\* The server's thread and the network keep StopInv.
LEMMA IoStopInv ==
    ASSUME StopInv, ServerTypeOK,
           \/ Accept \/ EnterRun \/ Dequeue \/ ReturnFromRun \/ AssignPeer
           \/ AttemptError \/ StartConnection \/ Refuse \/ Abort
           \/ \E from \in Peers : Arrive(from)
    PROVE  StopInv'
<1> USE DEF StopInv, AtMostOne, Occupied, connections
<1>1. CASE Accept \/ EnterRun \/ ReturnFromRun
  BY <1>1 DEF Accept, EnterRun, ReturnFromRun, net
<1>2. CASE Dequeue \/ AssignPeer \/ AttemptError
  BY <1>2 DEF Dequeue, AssignPeer, AttemptError, net
<1>3. CASE StartConnection
  <2>1. /\ ioPc = "attempt" /\ ioPc' = "reaccept" /\ mutex = "free"
        /\ UNCHANGED <<ioStopped, mutex, mainPc>>
    BY <1>3 DEF StartConnection, Attempting, Attempted
  <2>2. PICK s \in Slots : \A t \in Slots \ {s} : m_connections'[t] = m_connections[t]
    <3>1. Slots # {}
      BY ServerAssumption DEF Slots
    <3>2. \/ \E s \in Slots : m_connections' = [m_connections EXCEPT ![s] = m_socket]
          \/ m_connections' = m_connections
      <4>1. CASE \E s \in Slots : m_connections[s] = NoPeer
        BY <1>3, <4>1, FirstNullSlot, Zenon DEF StartConnection, ServerTypeOK
      <4>2. CASE ~ \E s \in Slots : m_connections[s] = NoPeer
        BY <1>3, <4>2 DEF StartConnection
      <4> QED
        BY <4>1, <4>2
    <3> QED
      BY <3>1, <3>2 DEF ServerTypeOK
  <2> QED
    BY <2>1, <2>2
<1>4. CASE Refuse
  BY <1>4 DEF Refuse, Attempting, Attempted
<1>5. CASE Abort
  BY <1>5 DEF Abort
<1>6. CASE \E from \in Peers : Arrive(from)
  BY <1>6, SMTT(30) DEF Arrive, serverControl
<1> QED
  BY <1>1, <1>2, <1>3, <1>4, <1>5, <1>6

\* At most one connection survives stop: the handler that was on its way when
\* stop cleared the slots may add it.
THEOREM StopAlwaysLeavesAtMostOne ==
    ASSUME CounterFits
    PROVE  ServerSpec => []StopLeavesAtMostOne
<1>1. ServerInit => StopInv
  BY DEF ServerInit, StopInv
<1>2. SInv /\ StopInv /\ [ServerNext]_serverVars => StopInv'
  <2> SUFFICES ASSUME SInv, StopInv, [ServerNext]_serverVars PROVE StopInv'
    OBVIOUS
  <2>1. CASE ServerNext
    BY <2>1, MainStopInv, IoStopInv DEF ServerNext, SInv
  <2>2. CASE UNCHANGED serverVars
    BY <2>2 DEF serverVars, connections, net, serverControl, StopInv, AtMostOne, Occupied
  <2> QED
    BY <2>1, <2>2
<1>3. StopInv => StopLeavesAtMostOne
  <2> SUFFICES ASSUME StopInv, mainPc = "stopped" PROVE Cardinality(Occupied) <= 1
    BY DEF StopLeavesAtMostOne
  <2>1. CASE Occupied = {}
    BY <2>1, FS_EmptySet
  <2>2. CASE Occupied # {}
    <3>1. PICK s \in Occupied : Occupied = {s}
      BY <2>2 DEF StopInv, AtMostOne
    <3>2. Cardinality({s}) = 1
      BY FS_Singleton, Zenon
    <3> QED
      BY <3>1, <3>2
  <2> QED
    BY <2>1, <2>2
<1> QED
  BY <1>1, <1>2, <1>3, ServerInvariance, PTL DEF ServerSpec
=============================================================================
