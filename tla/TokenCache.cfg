\* Two threads; tokens that live four seconds and are renewed three seconds early, on
\* a clock that counts half seconds.
SPECIFICATION Spec
CONSTANTS
    Callers = {c1, c2}
    Second = 2
    Lifetime = 4
    Margin = 3
    Stall = 1
    MaxClock = 14
INVARIANTS
    TokenInv
    OutlivesRequest
    ReturnsValid
CHECK_DEADLOCK FALSE
