---------------------------- MODULE MCSentences ----------------------------
(***************************************************************************)
(* The way of a sentence through the program for TLC: the line is read     *)
(* (ReadBuffer), its checksum verified (Checksum), the object filled       *)
(* (Parsers) and dated (TimeStamp), and a coordinate is parsed and         *)
(* reported (Coordinates).  The modules share no variable, so a behaviour  *)
(* follows one of them, the subject, and leaves the others in one of their *)
(* initial states: the states add up and do not multiply.                  *)
(***************************************************************************)
EXTENDS ReadBuffer, Parsers, TimeStamp, Coordinates, Checksum

VARIABLE subject

MCAltitudes == {-10, 500, 501}
MCHours == {-1, 0, 23, 24}
MCMinuteParts == {0, 1, 49, 50, 99, 466, 299999, 300000, 599949, 599950, 599999,
                  600000, 755500, 999999}

Init ==
    /\ subject \in {"line", "checksum", "object", "time", "coordinate"}
    /\ subject = "checksum" \/ text = <<DOLLAR, CHOOSE c \in Chars : TRUE, STAR>>
    /\ subject = "time" \/ now = 0
    /\ subject = "coordinate" \/ (degMin = 0 /\ direction = "positive")
    /\ ReadBufferInit /\ ChecksumInit /\ ParsersInit /\ TimeStampInit /\ CoordinatesInit

Next ==
    /\ UNCHANGED subject
    /\ \/ /\ subject = "line" /\ ReadBufferNext
          /\ UNCHANGED <<checked, parsing, timeStamp, coordinates>>
       \/ /\ subject = "checksum" /\ ChecksumNext
          /\ UNCHANGED <<readBuffer, parsing, timeStamp, coordinates>>
       \/ /\ subject = "object" /\ ParsersNext
          /\ UNCHANGED <<readBuffer, checked, timeStamp, coordinates>>
       \/ /\ subject = "time" /\ TimeStampNext
          /\ UNCHANGED <<readBuffer, checked, parsing, coordinates>>
       \/ /\ subject = "coordinate" /\ CoordinatesNext
          /\ UNCHANGED <<readBuffer, checked, parsing, timeStamp>>

vars == <<readBuffer, checked, parsing, timeStamp, coordinates, subject>>

Spec == Init /\ [][Next]_vars

\* The variables of all modules have their types: in particular the bit fields
\* of an aircraft's type and the time of day stay within theirs.
TypeOK == ReadBufferTypeOK /\ ChecksumTypeOK /\ ParsersTypeOK /\ TimeStampTypeOK /\ CoordinatesTypeOK
=============================================================================
