\* Two calls of one client, each with a statement of its own or somebody's handle,
\* under the fairness of threads, event loop and timers.
SPECIFICATION LiveSpec
CONSTANT
    Polls = {p1, p2}
INVARIANTS
    Inv
    CancelsOwnStatements
    CancellationKept
    ClientOutlivesCancel
    AbandonedHeld
    ResultHonest
PROPERTIES
    Termination
CHECK_DEADLOCK FALSE
