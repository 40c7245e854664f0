\* Three records in batches of one or two, two attempts per request; the service
\* keeps its history and sees the POSTs of a requestId in order.  Fairness is the
\* client's.
SPECIFICATION LiveSpec
CONSTANTS
    MaxRequests = 4
    MaxAttempts = 2
    HistoryRetained = TRUE
    InOrder = TRUE
    MaxInput = 3
    MaxRows = 2
    MaxBytes = 26
    Width = 1
    SingleOverhead = 10
    RowLens = {1, 4}
INVARIANTS
    Inv
    VerdictSound
    SequentialWrites
    AtMostOnce
    AttemptsExact
    HandleKept
PROPERTIES
    KeepsPromise
    Termination
CHECK_DEADLOCK FALSE
