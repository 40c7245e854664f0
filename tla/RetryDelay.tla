----------------------------- MODULE RetryDelay -----------------------------
(***************************************************************************)
(* retry.py: how long RetryPolicy has the transport wait before a retry.   *)
(* Durations are whole ticks; a delay with jitter is any tick up to its    *)
(* ceiling.                                                                *)
(***************************************************************************)
EXTENDS Integers

CONSTANTS BaseBackoff,            \* base_backoff
          MaxBackoff,             \* max_backoff
          Multiplier,             \* multiplier
          Jitter,                 \* jitter
          RateLimitMultiplier,    \* rate_limit_backoff_multiplier
          MaxRetryAfter           \* max_retry_after

\* __post_init__ refuses a negative multiplier for 429 or cap; the others are
\* documented as durations and a growth factor.
ASSUME RetryDelayAssumption ==
    /\ BaseBackoff \in Nat /\ MaxBackoff \in Nat /\ MaxRetryAfter \in Nat
    /\ Multiplier \in Nat \ {0}
    /\ RateLimitMultiplier \in Nat
    /\ Jitter \in BOOLEAN

\* A Retry-After header: absent, not parsable, a number of ticks, or a date, as the
\* time it names on the client's clock.
Header == [form : {"absent", "invalid", "delay", "date"}, value : Int]

NoHeader == [form |-> "absent", value |-> 0]
Usable(header) == header.form \in {"delay", "date"}

\* What stands for the reply of an attempt that failed: no reply at all, or a status
\* that is retried.
NoResponse == [status |-> "none", header |-> NoHeader]

Least(a, b) == IF a < b THEN a ELSE b

\* multiplier**attempt
growth[attempt \in Nat] ==
    IF attempt = 0 THEN 1 ELSE Multiplier * growth[attempt - 1]

ceiling_for(attempt) == Least(BaseBackoff * growth[attempt], MaxBackoff)

rate_limit_ceiling(attempt) ==
    Least(BaseBackoff * RateLimitMultiplier * growth[attempt], MaxBackoff)

Drawn(ceiling) == IF Jitter THEN 0..ceiling ELSE {ceiling}

backoff_for(attempt) == Drawn(ceiling_for(attempt))

\* How far ahead of `time` a usable header points; a date in the past is now.
Ahead(header, time) ==
    IF header.form = "delay" THEN header.value
    ELSE IF header.value > time THEN header.value - time ELSE 0

\* The delays that delay_for may return, at the time `time`.
delay_for(attempt, response, time) ==
    IF Usable(response.header)
      THEN {Least(Ahead(response.header, time), MaxRetryAfter)}
    ELSE IF response.status = "429"
      THEN Drawn(rate_limit_ceiling(attempt))
    ELSE backoff_for(attempt)
=============================================================================
