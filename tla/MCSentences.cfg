\* Lines: seven bytes over three connections.  Checksum: a comma, digits that
\* differ in one bit, and letters whose exclusive or is '*',
\* on the line also '$', '*' and NUL.  Objects: sentences
\* of up to seventeen fields, altitudes at the filter and on either side, type
\* codes at both bounds of either bit field.  Time: midnight, the last and the
\* first millisecond of a day, over three days; hours and minutes at and
\* beyond their limits, the hour also negative (a sign passes std::stoi).
\* Coordinates: degrees and minutes at the edges of rounding and carrying.
\* The input ends at the bounds.
SPECIFICATION Spec
CONSTANTS
    MAX_BYTES = 7
    MAX_CHUNK = 3
    MAX_CONN = 3
    Chars = {{2, 3, 5}, {4, 5}, {0, 4, 5}, {0, 6}, {0, 1, 3, 5, 6}}
    Noise = {{2, 3, 5}, {4, 5}, {0, 4, 5}, {0, 6}, {0, 1, 3, 5, 6}, {2, 5}, {1, 3, 5}, {}}
    MAX_LENGTH = 4
    Altitudes <- MCAltitudes
    TypeCodes = {0, 6, 63, 64, 255}
    s_maxHeight = 500
    MAX_FIELDS = 17
    Hours <- MCHours
    Minutes = {0, 59, 60}
    Seconds = {0, 59}
    Millis = {0, 1, 999}
    Moments = {0, 1, 86399999}
    FIRST_DAY = 2
    LAST_DAY = 4
    Degrees = {0, 1, 8, 50, 89, 179}
    MinuteParts <- MCMinuteParts
CHECK_DEADLOCK FALSE
INVARIANTS TypeOK DeliversLines RemnantSpoilsOneLine AcceptedAsWritten StoredIsSound PositiveRoundTrip
PROPERTY LaterReportWins
