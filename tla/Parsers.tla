------------------------------ MODULE Parsers ------------------------------
(***************************************************************************)
(* Feed::process of the five feeds: the parser unpacks a sentence into a   *)
(* fresh object, step by step, and the object goes to the data only if     *)
(* unpack returns true.                                                    *)
(*                                                                         *)
(* A sentence is described by what the parser asks of it: does it match,   *)
(* which fields convert, what are the altitude and the type code.  Of the  *)
(* object it matters where each part comes from: "read" from the sentence, *)
(* left as the constructor made it ("default"), or never initialized.      *)
(* Coordinates and checksums have modules of their own.                    *)
(***************************************************************************)
EXTENDS Integers

CONSTANTS Altitudes,    \* altitudes in sentences
          TypeCodes,    \* type codes of the APRS extension, 0 .. 255
          s_maxHeight,  \* the height filter
          MAX_FIELDS    \* bound: fields of an SBS sentence after the first

ASSUME ParserAssumption ==
    /\ Altitudes \subseteq Int /\ s_maxHeight \in Nat  \* resolveFilter yields no other
    /\ TypeCodes \subseteq 0 .. 255
    /\ MAX_FIELDS \in Nat

VARIABLES sentence,  \* the response
          object,    \* the object unpack fills
          pos,       \* the local Position of SbsParser::unpack
          i,         \* its loop's index
          parserPc,  \* idle, unpack, loop, accepted or rejected
          updated    \* the object given to Data::update last

parsing == <<sentence, object, pos, i, parserPc, updated>>

Origins == {"default", "uninitialized", "read"}

SbsSentences == [protocol : {"SBS"}, fields : 0 .. MAX_FIELDS, type3 : BOOLEAN,
                 broken : SUBSET {7, 11, 14, 15}, altitude : Altitudes]
AprsSentences == [protocol : {"APRS"}, banner : BOOLEAN, matches : BOOLEAN, time : BOOLEAN,
                  altitude : Altitudes, extension : BOOLEAN, typeCode : TypeCodes,
                  movement : BOOLEAN]
GpsSentences == [protocol : {"GPS"}, checksum : BOOLEAN, matches : BOOLEAN, time : BOOLEAN]
AtmosphereSentences == [protocol : {"ATMOSPHERE"}, checksum : BOOLEAN, keyword : BOOLEAN,
                        number : BOOLEAN]
WindSentences == [protocol : {"WIND"}, checksum : BOOLEAN, keyword : BOOLEAN]

Sentences == UNION {SbsSentences, AprsSentences, GpsSentences, AtmosphereSentences,
                    WindSentences}

NoSentence == [protocol |-> "none"]

\* serialized and pressure are parts of the sensors' objects, the others of
\* Aircraft and GpsPosition.
NewObject == [id |-> "default", time |-> "default", position |-> "default",
              altitude |-> 0, movement |-> "default", fullInfo |-> FALSE,
              serialized |-> "default", pressure |-> "default",
              idType |-> 1, aircraftType |-> 8, targetType |-> "TRANSPONDER"]

ParsersTypeOK ==
    /\ \A part \in {"id", "time", "position", "movement", "serialized", "pressure"} :
           object[part] \in Origins /\ updated[part] \in Origins
    /\ object.idType \in 0 .. 3 /\ object.aircraftType \in 0 .. 15
    /\ object.fullInfo \in BOOLEAN
    /\ pos \in [{"latitude", "longitude", "altitude"} -> Origins]
    /\ i \in 2 .. 16
    /\ parserPc \in {"idle", "unpack", "loop", "accepted", "rejected"}

NoPosition == [latitude |-> "uninitialized", longitude |-> "uninitialized",
               altitude |-> "uninitialized"]

ParsersInit ==
    /\ sentence = NoSentence
    /\ object = NewObject /\ updated = NewObject
    /\ pos = NoPosition /\ i = 2
    /\ parserPc = "idle"

\* Client::handleRead calls Feed::process, which makes a new object.
Receive ==
    /\ parserPc = "idle"
    /\ sentence' \in Sentences
    /\ parserPc' = "unpack"
    /\ UNCHANGED <<object, pos, i, updated>>

Return(valid) == parserPc' = IF valid THEN "accepted" ELSE "rejected"

-----------------------------------------------------------------------------
\* SbsParser::unpack up to the loop: there is a comma after the sixth
\* character and the message type is 3.
SbsStart ==
    /\ parserPc = "unpack" /\ sentence.protocol = "SBS"
    /\ parserPc' = IF sentence.fields > 0 /\ sentence.type3 THEN "loop" ELSE "rejected"
    /\ UNCHANGED <<sentence, object, pos, i, updated>>

\* SBS_FIELD_*
SbsField(nr) == CASE nr = 4 -> "id" [] nr = 7 -> "time" [] nr = 11 -> "altitude"
                  [] nr = 14 -> "latitude" [] nr = 15 -> "longitude" [] OTHER -> "skip"

\* One iteration with parseField, on a field that ends in a comma.
SbsParseField ==
    /\ parserPc = "loop" /\ i - 1 <= sentence.fields /\ i < 16
    /\ LET part == SbsField(i)
       IN  IF i \in sentence.broken
           THEN parserPc' = "rejected" /\ UNCHANGED <<object, pos>>
           ELSE /\ object' = IF part \in {"id", "time"}
                             THEN [object EXCEPT ![part] = "read"] ELSE object
                /\ pos' = IF part \in DOMAIN pos THEN [pos EXCEPT ![part] = "read"] ELSE pos
                /\ UNCHANGED parserPc
    /\ i' = i + 1
    /\ UNCHANGED <<sentence, updated>>

\* The position read is complete when all three coordinates are.
Completeness(p) ==
    IF \A part \in DOMAIN p : p[part] = "read" THEN "read" ELSE "uninitialized"

\* The result of SbsParser::unpack.
SbsReturn(altitude) == i = 16 /\ altitude <= s_maxHeight

\* The loop ends, with its field limit or without another comma.  An altitude
\* that was not read is any number.
SbsEnd ==
    /\ parserPc = "loop" /\ ~(i - 1 <= sentence.fields /\ i < 16)
    /\ \E altitude \in IF pos.altitude = "read" THEN {sentence.altitude} ELSE Altitudes :
        /\ object' = [object EXCEPT !.position = Completeness(pos),
                                    !.altitude = altitude,
                                    !.targetType = "TRANSPONDER",
                                    !.aircraftType = 8, !.idType = 1]
        /\ Return(SbsReturn(altitude))
    /\ UNCHANGED <<sentence, pos, i, updated>>

-----------------------------------------------------------------------------
\* Mutant: the value is stored as it is.
set_aircraftType_any(type) == type

\* Aircraft::set_aircraftType: UNKNOWN for what is above STATIC_OBJECT.
set_aircraftType(type) == IF type > 15 THEN 0 ELSE type

\* AprsParser::parseMovement: heading, speed and climb rate all convert.
parseMovement == sentence.movement

\* Aircraft::set_idType: RANDOM for what is above OGN.
set_idType(type) == IF type > 3 THEN 0 ELSE type

\* AprsParser::parsePosition: the position is stored before the filter is asked.
parsePosition(o) == [o EXCEPT !.position = "read", !.altitude = sentence.altitude]

\* AprsParser::parseComment: the type code's low two bits are the kind of id,
\* the five above them the type of aircraft.
parseComment(o) ==
    [o EXCEPT !.id = "read",
              !.idType = set_idType(sentence.typeCode % 4),
              !.aircraftType = set_aircraftType((sentence.typeCode \div 4) % 32)]

\* AprsParser::unpack: the checks end at the first that fails, and leave what
\* was stored until then.
UnpackAprs ==
    /\ parserPc = "unpack" /\ sentence.protocol = "APRS"
    /\ LET located == ~sentence.banner /\ sentence.matches
           timed == located /\ sentence.altitude <= s_maxHeight /\ sentence.time
           identified == timed /\ sentence.extension
           withPosition == IF located THEN parsePosition(object) ELSE object
           withTime == IF timed THEN [withPosition EXCEPT !.time = "read"] ELSE withPosition
       IN  /\ object' = IF identified
                        THEN [parseComment(withTime) EXCEPT
                                 !.movement = IF sentence.movement THEN "read" ELSE @,
                                 !.fullInfo = parseMovement,
                                 !.targetType = "FLARM"]
                        ELSE withTime
           /\ Return(identified)
    /\ UNCHANGED <<sentence, pos, i, updated>>

\* GpsParser::unpack with parsePosition; the time stamp may throw after the
\* position has been set.
UnpackGps ==
    /\ parserPc = "unpack" /\ sentence.protocol = "GPS"
    /\ LET matched == sentence.checksum /\ sentence.matches
       IN  /\ object' = [object EXCEPT !.position = IF matched THEN "read" ELSE @,
                                       !.time = IF matched /\ sentence.time THEN "read" ELSE @]
           /\ Return(matched /\ sentence.time)
    /\ UNCHANGED <<sentence, pos, i, updated>>

\* AtmosphereParser::unpack
UnpackAtmosphere ==
    /\ parserPc = "unpack" /\ sentence.protocol = "ATMOSPHERE"
    /\ LET valid == sentence.checksum /\ sentence.keyword /\ sentence.number
       IN  /\ object' = IF valid THEN [object EXCEPT !.serialized = "read", !.pressure = "read"]
                        ELSE object
           /\ Return(valid)
    /\ UNCHANGED <<sentence, pos, i, updated>>

\* WindParser::unpack
UnpackWind ==
    /\ parserPc = "unpack" /\ sentence.protocol = "WIND"
    /\ LET valid == sentence.checksum /\ sentence.keyword
       IN  /\ object' = IF valid THEN [object EXCEPT !.serialized = "read"] ELSE object
           /\ Return(valid)
    /\ UNCHANGED <<sentence, pos, i, updated>>

\* Feed::process returns and its locals are gone.
Leave ==
    /\ sentence' = NoSentence /\ object' = NewObject
    /\ pos' = NoPosition /\ i' = 2
    /\ parserPc' = "idle"

\* Mutant: the object is handed on whatever unpack returned.
ProcessAlways ==
    /\ parserPc \in {"accepted", "rejected"}
    /\ updated' = object
    /\ Leave

\* The end of Feed::process.
Process ==
    /\ parserPc \in {"accepted", "rejected"}
    /\ updated' = IF parserPc = "accepted" THEN object ELSE updated
    /\ Leave

ParsersNext == \/ Receive \/ SbsStart \/ SbsParseField \/ SbsEnd \/ UnpackAprs \/ UnpackGps
        \/ UnpackAtmosphere \/ UnpackWind \/ Process

ParsersSpec == ParsersInit /\ [][ParsersNext]_parsing

-----------------------------------------------------------------------------
\* Every part of the object that the protocol is to deliver.
Parts(protocol) ==
    CASE protocol \in {"SBS", "APRS"} -> {"id", "time", "position"}
      [] protocol = "GPS" -> {"time", "position"}
      [] protocol = "ATMOSPHERE" -> {"serialized", "pressure"}
      [] protocol = "WIND" -> {"serialized"}

\* What reaches the data is sound, wherever a sentence breaks off and whichever
\* field does not convert.  An accepted object is read from the sentence in all
\* its parts, without a default or an uninitialized coordinate.  Every aircraft
\* that is stored passes the height filter.  fullInfo, with which
\* AircraftProcessor writes the movement, is set only with a movement read.
StoredIsSound ==
    /\ parserPc = "accepted" => \A part \in Parts(sentence.protocol) : object[part] = "read"
    /\ updated.altitude <= s_maxHeight /\ updated.position # "uninitialized"
    /\ object.fullInfo => object.movement = "read"
=============================================================================
