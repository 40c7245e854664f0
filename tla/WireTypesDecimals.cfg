SPECIFICATION WireSpec
CONSTANTS
    Nanos = 2
    Micros = 3
    Millis = 2
    Seconds = 2
    Minutes = 2
    Hours = 2
    Values <- MCDecimals
    Scales = {}
    Numerals <- MCNumerals
    MaxRows = 2
INVARIANTS
    Lossless
CHECK_DEADLOCK FALSE
