\* renewal_margin_seconds=0, which __init__ accepts.
SPECIFICATION Spec
CONSTANTS
    Callers = {c1}
    Second = 3
    Lifetime = 5
    Margin = 0
    Stall = 0
    MaxClock = 30
INVARIANTS
    ReturnsValid
CHECK_DEADLOCK FALSE
