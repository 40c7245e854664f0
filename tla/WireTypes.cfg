SPECIFICATION WireSpec
CONSTANTS
    Nanos = 2
    Micros = 3
    Millis = 2
    Seconds = 2
    Minutes = 2
    Hours = 2
    Values <- MCValues
    Scales <- MCScales
    Numerals <- MCNumerals
    MaxRows = 2
INVARIANTS
    RoundTrip
    TruncatesToEpoch
    OrderKept
CHECK_DEADLOCK FALSE
