----------------------------- MODULE MCGpsData -----------------------------
(***************************************************************************)
(* GpsData for TLC: two feeds of different priority.                       *)
(***************************************************************************)
EXTENDS GpsData

CONSTANTS high, low

MCPriority == [feed \in GpsFeeds |-> IF feed = high THEN 2 ELSE 1]
=============================================================================
