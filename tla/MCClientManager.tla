-------------------------- MODULE MCClientManager --------------------------
(***************************************************************************)
(* ClientManager for TLC: three feeds out of two APRS logins, a GPS and a  *)
(* sensor feed of one endpoint, and an SBS feed of another.                *)
(***************************************************************************)
EXTENDS ClientManager

MCFeedKinds ==
    {[protocol |-> "APRS",   endpoint |-> 1, login |-> "a"],
     [protocol |-> "APRS",   endpoint |-> 1, login |-> "b"],
     [protocol |-> "GPS",    endpoint |-> 1, login |-> ""],
     [protocol |-> "SENSOR", endpoint |-> 1, login |-> ""],
     [protocol |-> "SBS",    endpoint |-> 2, login |-> ""]}
=============================================================================
