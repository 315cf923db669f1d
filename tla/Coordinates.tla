---------------------------- MODULE Coordinates ----------------------------
(***************************************************************************)
(* The way of a coordinate through the program: GpsParser::parsePosition   *)
(* reads degrees and minutes (math::dmToDeg) and a direction,              *)
(* GpsProcessor::evalPosition splits the number again, and appendGPGGA and *)
(* appendGPRMC print it.                                                   *)
(*                                                                         *)
(* What sentences hold is fixed point, counted in 1/10000 minute, the      *)
(* precision of a GGA sentence; dddmm.mmmm is the integer dddmmmmmm.  What *)
(* the program computes in double is counted in parts, SUB to 1/10000      *)
(* minute, and may be off by one of them: which way a result is rounded is *)
(* a choice, and far coarser here than the error of a double.              *)
(***************************************************************************)
EXTENDS Integers

CONSTANTS Degrees, MinuteParts   \* what sentences hold

DEG == 600000                \* a degree
DM  == 1000000               \* a degree in dddmmmmmm
SUB == 8                     \* the parts of a unit that doubles hold

ASSUME CoordinateAssumption ==
    /\ Degrees \subseteq 0 .. 180
    /\ MinuteParts \subseteq 0 .. DM - 1

VARIABLES degMin, direction,             \* the sentence received
          value,                         \* Position::latitude or longitude, in parts
          m_direction, m_deg, m_min,     \* GpsProcessor; minutes in parts
          gga, rmc,                      \* the minutes printed; rmc in 1/100
          coordinatePc

coordinates == <<degMin, direction, value, m_direction, m_deg, m_min, gga, rmc, coordinatePc>>

Abs(n) == IF n < 0 THEN -n ELSE n

\* What a calculation in double makes of n parts.  Zero is exact.
Rounded(n) == IF n = 0 THEN {0} ELSE n - 1 .. n + 1

\* Mutant: the minutes are taken for a fraction of a degree.
dmToDegDecimal(dm) ==
    {(dm \div DM) * DEG * SUB + m : m \in Rounded((((dm % DM) * 6) \div 10) * SUB)}

\* math::dmToDeg: the degrees are exact, the minutes are not.
dmToDeg(dm) == {(Abs(dm) \div DM) * DEG * SUB + m : m \in Rounded((Abs(dm) % DM) * SUB)}

CoordinatesTypeOK ==
    /\ degMin \in Nat /\ direction \in {"positive", "negative"}
    /\ value \in Int
    /\ m_direction \in {"x", "positive", "negative"}
    /\ m_deg \in Nat /\ m_min \in Nat /\ gga \in Nat /\ rmc \in Nat
    /\ coordinatePc \in {"parse", "eval", "append", "sent"}

CoordinatesInit ==
    /\ degMin \in {d * DM + m : d \in Degrees, m \in MinuteParts}
    /\ direction \in {"positive", "negative"}   \* N or E, S or W
    /\ value = 0 /\ m_direction = "x" /\ m_deg = 0 /\ m_min = 0 /\ gga = 0 /\ rmc = 0
    /\ coordinatePc = "parse"

\* GpsParser::parsePosition, one of the two coordinates.
parseCoordinate ==
    /\ coordinatePc = "parse" /\ coordinatePc' = "eval"
    /\ \E v \in dmToDeg(degMin) : value' = IF direction = "negative" THEN -v ELSE v
    /\ UNCHANGED <<degMin, direction, m_direction, m_deg, m_min, gga, rmc>>

\* evalPosition: \div rounds down, as std::floor does.
evalPosition ==
    /\ coordinatePc = "eval" /\ coordinatePc' = "append"
    /\ m_direction' = IF value < 0 THEN "negative" ELSE "positive"
    /\ m_deg' = Abs(value \div (DEG * SUB))
    /\ \E m \in Rounded(value - m_deg' * DEG * SUB) : m_min' = Abs(m)
    /\ UNCHANGED <<degMin, direction, value, gga, rmc>>

\* printf with a fixed number of decimals: to the nearest, and to either one of
\* two that are equally near.
Nearest(n, d) == {q \in {n \div d, n \div d + 1} : 2 * Abs(q * d - n) <= d}

\* appendGPGGA prints four decimals of the minutes, appendGPRMC two.
append ==
    /\ coordinatePc = "append" /\ coordinatePc' = "sent"
    /\ gga' \in Nearest(m_min, SUB)
    /\ rmc' \in Nearest(m_min, 100 * SUB)
    /\ UNCHANGED <<degMin, direction, value, m_direction, m_deg, m_min>>

CoordinatesNext == parseCoordinate \/ evalPosition \/ append

CoordinatesSpec == CoordinatesInit /\ [][CoordinatesNext]_coordinates

-----------------------------------------------------------------------------
\* The value of a printed coordinate.
Printed(minutes) ==
    IF m_direction = "negative" THEN -(m_deg * DEG + minutes) ELSE m_deg * DEG + minutes

\* The value of the coordinate received.
Received ==
    LET v == (degMin \div DM) * DEG + (degMin % DM)
    IN  IF direction = "negative" THEN -v ELSE v

\* A northern or eastern coordinate is reported where it was received, although
\* neither dmToDeg nor evalPosition is exact: by GGA exactly, by RMC with an
\* error of half its last digit at most.  Minutes of 60 and above are carried to
\* the degrees, but 60.0000 may be printed instead of the next degree.
PositiveRoundTrip ==
    coordinatePc = "sent" /\ direction = "positive" =>
        /\ Printed(gga) = Received /\ gga <= DEG
        /\ 2 * Abs(Printed(rmc * 100) - Received) <= 100
=============================================================================
