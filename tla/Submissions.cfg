SPECIFICATION Spec
CONSTANTS
    MaxRequests = 2
    MaxAttempts = 4
    Tries = 2
    MaxLives = 3
    HistoryRetained = TRUE
    InOrder = TRUE
INVARIANTS
    Inv
    AtMostOnce
    OutcomeTrue
CHECK_DEADLOCK FALSE
