------------------------------ MODULE Sensors ------------------------------
(***************************************************************************)
(* WindData and AtmosphereData: one object each, updated by the sensor     *)
(* feeds and reported by the main thread.  Every operation holds m_mutex   *)
(* from its first to its last statement and is one step.                   *)
(*                                                                         *)
(* A report is abstracted to the feed it comes from (wind) and to the      *)
(* pressure it carries (atmosphere).  Two variables are history:           *)
(* unreported, the wind of the last accepted update has not been appended  *)
(* to a message yet; silence, for how many messages the feed whose wind is *)
(* stored has not delivered another one, accepted or refused.              *)
(***************************************************************************)
EXTENDS Object, Sequences

CONSTANTS SensorFeeds,     \* feeds that deliver wind and pressure
          SensorPriority,  \* feed -> its priority
          Pressures,       \* the pressures they deliver
          NOBODY           \* the origin of the initial objects

ASSUME SensorAssumption ==
    /\ NOBODY \notin SensorFeeds
    /\ SensorPriority \in [SensorFeeds -> Nat]
    /\ Pressures \subseteq Nat

VARIABLES m_wind, m_atmosphere, unreported, silence

sensors == <<m_wind, m_atmosphere, unreported, silence>>

FallbackPressure == 0

Reports(content) == {<< >>} \cup {<<c>> : c \in content}

SensorsTypeOK ==
    /\ m_wind \in [from : SensorFeeds \cup {NOBODY}, serialized : Reports(SensorFeeds),
                   prio : Nat, age : 0 .. OBJ_OUTDATED]
    /\ m_atmosphere \in [from : SensorFeeds \cup {NOBODY}, serialized : Reports(Pressures),
                         pressure : Pressures \cup {FallbackPressure},
                         prio : Nat, age : 0 .. OBJ_OUTDATED]
    /\ unreported \in BOOLEAN
    /\ silence \in 0 .. OBJ_OUTDATED

SensorsInit ==
    /\ m_wind = [from |-> NOBODY, serialized |-> << >>, prio |-> 0, age |-> 0]
    /\ m_atmosphere = [from |-> NOBODY, serialized |-> << >>,
                       pressure |-> FallbackPressure, prio |-> 0, age |-> 0]
    /\ unreported = FALSE
    /\ silence = 0

\* Ages from OBJ_OUTDATED on are not told apart.
Older(object) == IF object.age < OBJ_OUTDATED THEN Aged(object) ELSE object

WindOf(feed) == [from |-> feed, serialized |-> <<feed>>,
                 prio |-> SensorPriority[feed], age |-> 0]

\* The feed whose wind is stored has sent.
Heard(feed) == silence' = IF m_wind'.from = feed THEN 0 ELSE silence

\* WindFeed::process with WindData::update, which Object::tryUpdate refuses or
\* accepts.
UpdateWind(feed) ==
    LET update == WindOf(feed)
    IN  /\ IF ObjectCanUpdate(update, m_wind)
           THEN m_wind' = update /\ unreported' = TRUE
           ELSE UNCHANGED <<m_wind, unreported>>
        /\ Heard(feed)
        /\ UNCHANGED m_atmosphere

\* Atmosphere::assign
Assign(update, stored) == update

\* AtmosphereFeed::process with AtmosphereData::update.
UpdateAtmosphere(feed, pressure) ==
    LET update == [from |-> feed, serialized |-> <<pressure>>, pressure |-> pressure,
                   prio |-> SensorPriority[feed], age |-> 0]
    IN  /\ ObjectCanUpdate(update, m_atmosphere)
        /\ m_atmosphere' = Assign(update, m_atmosphere)
        /\ UNCHANGED <<m_wind, unreported, silence>>

\* One more message without it, counted up to OBJ_OUTDATED.
Unheard == silence' = IF silence < OBJ_OUTDATED THEN silence + 1 ELSE silence

\* Mutant: operator++ is not called.
get_serialized_wind_ageless ==
    /\ m_wind' = [m_wind EXCEPT !.serialized = << >>]
    /\ unreported' = FALSE
    /\ Unheard
    /\ UNCHANGED m_atmosphere

\* WindData::get_serialized; the caller appends m_wind.serialized.
get_serialized_wind ==
    /\ m_wind' = [Older(m_wind) EXCEPT !.serialized = << >>]
    /\ unreported' = FALSE
    /\ Unheard
    /\ UNCHANGED m_atmosphere

\* AtmosphereData::get_serialized
get_serialized_atmosphere ==
    /\ m_atmosphere' = Older(m_atmosphere)
    /\ UNCHANGED <<m_wind, unreported, silence>>

SensorUpdate(feed) ==
    UpdateWind(feed) \/ \E pressure \in Pressures : UpdateAtmosphere(feed, pressure)

SensorsNext ==
    \/ \E feed \in SensorFeeds : SensorUpdate(feed)
    \/ get_serialized_wind \/ get_serialized_atmosphere

SensorsSpec == SensorsInit /\ [][SensorsNext]_sensors

-----------------------------------------------------------------------------
\* The wind of a feed gives way to one of a lower priority only when the better
\* feed has delivered nothing for OBJ_OUTDATED messages: as long as it sends,
\* each of its winds is accepted (canUpdate takes an equal priority, assign
\* keeps the priority of the feed) and makes the stored object young again.
HeldWhileSending ==
    [][\A best, feed \in SensorFeeds :
          /\ m_wind.from = best /\ m_wind'.from = feed
          /\ SensorPriority[feed] < SensorPriority[best]
          => silence >= OBJ_OUTDATED]_sensors

\* The sentence reported and the pressure that processAircrafts gets from
\* get_atmPressure are of the same update.
PressureOfReport ==
    m_atmosphere.serialized # << >> => m_atmosphere.serialized = <<m_atmosphere.pressure>>

\* A feed is not refused because of its own earlier updates, nor because of
\* the initial object, whatever its priority is: it may be left uninitialized
\* by Feed::initPriority.
LoneFeedAccepted ==
    \A feed \in SensorFeeds :
        m_wind.from \in {feed, NOBODY} => ObjectCanUpdate(WindOf(feed), m_wind)
=============================================================================
