\* Three calls by concurrent tasks, two registrations before or between their requests.
SPECIFICATION Spec
CONSTANTS
    Statements = {"s"}
    Predicates <- MCPredicates
    Shapes <- MCShapes
    MaxRegs = 2
    MaxCalls = 3
    MaxAttempts = 2
INVARIANTS
    Inv
    OwnResult
    PollsExact
PROPERTIES
    Progress
CHECK_DEADLOCK FALSE
