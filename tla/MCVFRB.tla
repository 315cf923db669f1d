------------------------------ MODULE MCVFRB ------------------------------
(***************************************************************************)
(* VFRB with GpsData and Sensors for TLC: two GPS feeds and two sensor     *)
(* feeds, one of each pair with the higher priority.                       *)
(***************************************************************************)
EXTENDS VFRB

CONSTANTS gpsHigh, gpsLow, sensorHigh, sensorLow

MCGpsPriority == [feed \in GpsFeeds |-> IF feed = gpsHigh THEN 2 ELSE 1]
MCSensorPriority == [feed \in SensorFeeds |-> IF feed = sensorHigh THEN 1 ELSE 0]
=============================================================================
