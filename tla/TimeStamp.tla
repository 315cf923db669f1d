----------------------------- MODULE TimeStamp -----------------------------
(***************************************************************************)
(* A report carries a time of day; TimeStamp's constructor dates it by the *)
(* system's clock, which it reads twice: day() first, now() last.  The     *)
(* stamp then decides whether the report updates the stored object.        *)
(*                                                                         *)
(* The clock is a day and the milliseconds of that day.  sent, storedSent  *)
(* and midnight are history: when a report was sent, and whether the day   *)
(* changed between the two readings.                                       *)
(***************************************************************************)
EXTENDS Integers

CONSTANTS Hours, Minutes, Seconds, Millis,  \* what std::stoi returns for a field
          Moments,                          \* times of day the clock stops at
          FIRST_DAY, LAST_DAY               \* bound: the days of the clock

DAY == 86400000

ASSUME TimeAssumption ==
    /\ Hours \cup Minutes \cup Seconds \cup Millis \subseteq Int
    /\ Moments \subseteq 0 .. DAY - 1
    /\ FIRST_DAY \in Nat /\ LAST_DAY \in Nat
    /\ 1 < FIRST_DAY /\ FIRST_DAY <= LAST_DAY

VARIABLES day, now,         \* the clock
          stampPc,          \* the constructor: idle, dayRead or dated
          m_day, m_value,   \* the time stamp that is constructed
          stored,           \* the time stamp of the stored object
          sent, storedSent, midnight

clock == <<day, now>>
history == <<sent, storedSent, midnight>>
timeStamp == <<clock, stampPc, m_day, m_value, stored, history>>

Instant == [day : Nat, value : Int]

\* TimeStamp::operator>, of the instant s over t.
After(s, t) == s.day > t.day \/ (s.day = t.day /\ s.value > t.value)

Now == [day |-> day, value |-> now]
Stamp == [day |-> m_day, value |-> m_value]
DaysLater(t, n) == [day |-> t.day + n, value |-> t.value]

TimeStampTypeOK ==
    /\ day \in FIRST_DAY .. LAST_DAY
    /\ now \in 0 .. DAY - 1
    /\ stampPc \in {"idle", "dayRead", "dated"}
    /\ m_day \in Nat
    /\ m_value \in Int /\ m_value < DAY
    /\ {stored, sent, storedSent} \subseteq Instant
    /\ midnight \in BOOLEAN

TimeStampInit ==
    /\ day = FIRST_DAY
    /\ now \in Moments
    /\ stampPc = "idle"
    /\ m_day = 0 /\ m_value = 0
    /\ stored = [day |-> 0, value |-> 0]
    /\ sent = stored /\ storedSent = stored
    /\ midnight = FALSE

\* The check of the constructor; a field std::stoi cannot read does not get here.
WellFormed(h, m, s, f) == h <= 23 /\ m <= 59 /\ s <= 59 /\ f <= 999

Milliseconds(h, m, s, f) == h * 3600000 + m * 60000 + s * 1000 + f

\* The constructor up to the assignment of m_value; an ill-formed time ends it
\* there.  The report was sent at the last such time of day, or by a clock that
\* is ahead of this one.
ReadDay(h, m, s, f) ==
    /\ stampPc \in {"idle", "dated"}
    /\ WellFormed(h, m, s, f)
    /\ m_day' = day
    /\ m_value' = Milliseconds(h, m, s, f)
    /\ sent' \in {[day |-> d, value |-> m_value'] :
                     d \in IF m_value' <= now THEN {day} ELSE {day - 1, day}}
    /\ midnight' = FALSE
    /\ stampPc' = "dayRead"
    /\ UNCHANGED <<clock, stored, storedSent>>

\* Mutant: the object is updated by a later time of day, whatever the day.
ReadNowSameDay ==
    /\ stampPc = "dayRead"
    /\ m_day' = IF m_value >= now THEN m_day - 1 ELSE m_day
    /\ stampPc' = "dated"
    /\ IF m_value > stored.value
       THEN stored' = [day |-> m_day', value |-> m_value] /\ storedSent' = sent
       ELSE UNCHANGED <<stored, storedSent>>
    /\ UNCHANGED <<clock, m_value, sent, midnight>>

\* The rest of the constructor; then canUpdate compares the stamp with the
\* stored one, and assign copies it.
ReadNow ==
    /\ stampPc = "dayRead"
    /\ m_day' = IF m_value >= now THEN m_day - 1 ELSE m_day
    /\ stampPc' = "dated"
    /\ IF After([day |-> m_day', value |-> m_value], stored)
       THEN stored' = [day |-> m_day', value |-> m_value] /\ storedSent' = sent
       ELSE UNCHANGED <<stored, storedSent>>
    /\ UNCHANGED <<clock, m_value, sent, midnight>>

\* Time goes on.  A report is dated less than a day after it was sent.
Tick(moment) ==
    /\ IF moment > now THEN day' = day ELSE day' = day + 1 /\ day < LAST_DAY
    /\ now' = moment
    /\ stampPc = "dayRead" => After(DaysLater(sent, 1), [day |-> day', value |-> moment])
    /\ midnight' = (midnight \/ day' # day)
    /\ UNCHANGED <<stampPc, m_day, m_value, stored, sent, storedSent>>

TimeStampNext ==
    \/ \E h \in Hours, m \in Minutes, s \in Seconds, f \in Millis : ReadDay(h, m, s, f)
    \/ ReadNow
    \/ \E moment \in Moments : Tick(moment)

TimeStampSpec == TimeStampInit /\ [][TimeStampNext]_timeStamp
-----------------------------------------------------------------------------
\* No stored time stamp lies in the future (m_value >= now() sets the day back):
\* a report dated ahead would keep all later ones out.
NotInFuture == After(Now, stored)

\* The constructor picks the last day on which the time of day had already been
\* reached; when midnight falls between day() and now() it may be one day off,
\* always into the past.
DatedToLastOccurrence ==
    [][stampPc = "dayRead" /\ stampPc' = "dated" =>
          /\ After(Now, Stamp')
          /\ ~After(Now, DaysLater(Stamp', IF midnight THEN 2 ELSE 1))]_timeStamp

\* However a report was dated, its stamp is not later than the time it was sent.
NotAfterSending == ~After(stored, storedSent)

\* So no misdated report keeps a later one out: one that was sent after the
\* stored one, and is dated without midnight in between, replaces it.
LaterReportWins ==
    [][/\ stampPc = "dayRead" /\ stampPc' = "dated"
       /\ ~midnight
       /\ After(Now, sent) /\ After(sent, storedSent)
       => stored' = sent]_timeStamp
=============================================================================
