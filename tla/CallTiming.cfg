\* Three attempts: a reply with a Retry-After, an attempt without a reply, and the wait
\* after it.  The scheduled waits, the numbers and dates of the service and the cap
\* are chosen so that each bounds the wait in some execution.
SPECIFICATION Spec
CONSTANTS
    BaseBackoff = 1
    MaxBackoff = 3
    Multiplier = 2
    Jitter = TRUE
    RateLimitMultiplier = 2
    MaxRetryAfter = 4
    MaxAttempts = 3
    PollInterval = 2
    Wait = 3
    Exchange = 1
    Oversleep = 1
    Delays = {0, 3, 100}
    Offsets <- MCOffsets
    Finishes = {0, 5, 100}
INVARIANTS
    WaitsAsTold
    EndsInTime
    TimeoutFresh
CHECK_DEADLOCK FALSE
