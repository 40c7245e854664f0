----------------------------- MODULE CallTiming -----------------------------
(***************************************************************************)
(* client.py, transport.py and retry.py together, in time: a call that     *)
(* waits for its statement (query and the like, or QueryHandle.result)     *)
(* sends requests, each with its own retries and waits, and gives up when  *)
(* its wait is over.                                                       *)
(*                                                                         *)
(* One clock of ticks stands for monotonic() and for the wall clock that   *)
(* Retry-After dates are compared with: the skew between the client and    *)
(* the service is in the dates.  Every step takes the time it takes.       *)
(***************************************************************************)
EXTENDS RetryDelay

CONSTANTS MaxAttempts,      \* max_attempts
          PollInterval,     \* _poll_interval
          Wait,             \* timeout, or DEFAULT_POLL_TIMEOUT
          Exchange,         \* bound on the time of one HTTP exchange
          Oversleep,        \* bound on how much longer than asked a sleep takes
          Delays,           \* Retry-After numbers that the service sends
          Offsets,          \* Retry-After dates it sends, less its own time
          Finishes          \* times at which the statement may finish

ASSUME CallTimingAssumption ==
    /\ MaxAttempts \in Nat \ {0}
    /\ PollInterval \in Nat /\ Wait \in Nat
    /\ Exchange \in Nat /\ Oversleep \in Nat
    /\ Delays \subseteq Nat /\ Offsets \subseteq Int /\ Finishes \subseteq Nat

VARIABLES owned,            \* cancel_on_timeout
          finish,           \* when the statement finishes
          now,              \* monotonic()
          op,               \* the request that the call is at, or "over"
          doing,            \* "request", "pause" before a retry, or "rest"
          attempt,          \* of _send
          retry_response,   \* of _send
          deadline,         \* of _poll
          result,           \* what the call has come to
          outcome,          \* history: the outcome of the latest attempt
          ended,            \* history: when that attempt ended
          observed          \* history: when the service looked at the statement
                            \* for the latest answer that has come

statementVars == <<owned, finish>>
callVars == <<op, doing, attempt, retry_response, deadline, result>>
history == <<outcome, ended, observed>>
vars == <<statementVars, now, callVars, history>>

Unset == -1

\* The replies that are retried: the statuses, with the headers they may carry.
RetriedReplies(time) ==
    [status : {"429", "503"},
     header : {NoHeader, [form |-> "invalid", value |-> 0]}
              \cup [form : {"delay"}, value : Delays]
              \cup [form : {"date"}, value : {time + o : o \in Offsets}]]

\* A call that submits its statement cancels it on a timeout; result() starts with a
\* GET and does not.
Init ==
    /\ owned \in BOOLEAN
    /\ finish \in Finishes
    /\ now = 0
    /\ op = IF owned THEN "submit" ELSE "first_get"
    /\ doing = "request"
    /\ attempt = 0
    /\ retry_response = NoResponse
    /\ deadline = Unset
    /\ result = "none"
    /\ outcome = NoResponse
    /\ ended = Unset
    /\ observed = Unset

-----------------------------------------------------------------------------
(* What the client does when an attempt has ended.                          *)

\* The next request, with a loop of its own.
Send(o) ==
    /\ op' = o
    /\ doing' = "request"
    /\ attempt' = 0
    /\ retry_response' = NoResponse
    /\ UNCHANGED result

Return(r) ==
    /\ op' = "over"
    /\ result' = r
    /\ UNCHANGED <<doing, attempt, retry_response, deadline>>

\* A request that has failed for good fails the call; a cancel that does leaves the
\* timeout it belongs to.
GiveUp == Return(IF op = "cancel" THEN "timeout" ELSE "error")

\* The attempt is to be retried, unless it was the last.
Retry(response) ==
    IF attempt + 1 < MaxAttempts
      THEN /\ doing' = "pause"
           /\ attempt' = attempt + 1
           /\ retry_response' = response
           /\ UNCHANGED <<op, deadline, result>>
      ELSE GiveUp

\* The statement runs and the wait for it begins; the first GET goes out at once.
BeginPoll(time) ==
    /\ Send("status")
    /\ deadline' = time + Wait

\* Mutant: the wait begins anew with every answer.
StillRunningAnew(time) ==
    /\ doing' = "rest"
    /\ deadline' = time + Wait
    /\ UNCHANGED <<op, attempt, retry_response, result>>

\* _poll hears that the statement runs: it sleeps, or its wait is over.
StillRunning(time) ==
    IF time < deadline
      THEN doing' = "rest" /\ UNCHANGED <<op, attempt, retry_response, deadline, result>>
    ELSE IF owned
      THEN Send("cancel") /\ UNCHANGED deadline
    ELSE Return("timeout")

-----------------------------------------------------------------------------
(* The steps of the call.                                                   *)

\* When the attempt that begins now may end.
Ends == now..(now + Exchange)

\* The attempt ends at `time` and comes to `response`.
AttemptEnds(time, response) ==
    /\ doing = "request" /\ op # "over"
    /\ now' = time
    /\ ended' = time
    /\ outcome' = response
    /\ UNCHANGED statementVars

\* There is no reply, because of a timeout or a broken connection; retry_response is
\* None since the attempt began.
NoReply == \E time \in Ends :
    /\ AttemptEnds(time, NoResponse)
    /\ Retry(retry_response)
    /\ UNCHANGED observed

\* The reply has a status that is retried.
RetriedReply ==
    \E time \in Ends : \E response \in RetriedReplies(time) :
        /\ AttemptEnds(time, response)
        /\ Retry(response)
        /\ UNCHANGED observed

\* The reply is an error that is not retried.
ErrorReply == \E time \in Ends :
    /\ AttemptEnds(time, NoResponse)
    /\ GiveUp
    /\ UNCHANGED observed

\* The reply tells of the statement, as the service saw it at some time in between.
Reply == \E time \in Ends : \E seen \in now..time :
    /\ AttemptEnds(time, NoResponse)
    /\ op # "cancel"
    /\ observed' = seen
    /\ IF seen >= finish THEN Return("response")
       ELSE IF op = "status" THEN StillRunning(time)
       ELSE BeginPoll(time)

\* The cancel request is answered and the timeout raised.
CancelReply == \E time \in Ends :
    /\ AttemptEnds(time, NoResponse)
    /\ op = "cancel"
    /\ Return("timeout")
    /\ UNCHANGED observed

\* Mutant: retry_response is not reset, and outlives the attempt after it.
PauseStale ==
    /\ doing = "pause"
    /\ \E delay \in delay_for(attempt - 1, retry_response, now), late \in 0..Oversleep :
          now' = now + delay + late
    /\ doing' = "request"
    /\ UNCHANGED <<statementVars, op, attempt, retry_response, deadline, result, history>>

\* The sleep before a retry, for as long as the reply before it asks; then that reply
\* is forgotten.
Pause ==
    /\ doing = "pause"
    /\ \E delay \in delay_for(attempt - 1, retry_response, now), late \in 0..Oversleep :
          now' = now + delay + late
    /\ doing' = "request"
    /\ retry_response' = NoResponse
    /\ UNCHANGED <<statementVars, op, attempt, deadline, result, history>>

\* Mutant: _poll looks at the clock after its sleep and does not ask again.
RestThenGiveUp ==
    /\ doing = "rest" /\ op # "over"
    /\ \E late \in 0..Oversleep :
        /\ now' = now + PollInterval + late
        /\ IF now' >= deadline THEN Return("timeout") ELSE Send("status") /\ UNCHANGED deadline
    /\ UNCHANGED <<statementVars, history>>

\* The sleep between two polls.
Rest ==
    /\ doing = "rest" /\ op # "over"
    /\ \E late \in 0..Oversleep : now' = now + PollInterval + late
    /\ Send("status")
    /\ UNCHANGED <<statementVars, deadline, history>>

Next ==
    \/ NoReply
    \/ RetriedReply
    \/ ErrorReply
    \/ Reply
    \/ CancelReply
    \/ Pause
    \/ Rest

Spec == Init /\ [][Next]_vars

-----------------------------------------------------------------------------
\* A retry waits for what the attempt just before it asks for: until the time that
\* its Retry-After names, or the cap if that is sooner, and for no longer; without a
\* usable header, and after an attempt that got no reply, for no longer than the
\* ceiling of that retry.  What an earlier attempt said does not count.
WaitsAsTold ==
    doing = "request" /\ attempt > 0 /\ op # "over" =>
        LET waited == now - ended
            told == Least(Ahead(outcome.header, ended), MaxRetryAfter)
        IN  IF Usable(outcome.header)
              THEN told <= waited /\ waited <= told + Oversleep
            ELSE IF outcome.status = "429"
              THEN waited <= rate_limit_ceiling(attempt - 1) + Oversleep
            ELSE waited <= ceiling_for(attempt - 1) + Oversleep

\* The longest that one call of the transport takes.
LongestWait == IF MaxBackoff > MaxRetryAfter THEN MaxBackoff ELSE MaxRetryAfter
LongestRequest == MaxAttempts * Exchange + (MaxAttempts - 1) * (LongestWait + Oversleep)

\* A call ends within its wait, plus a poll interval, a GET that begins at the end of
\* it, the first request and, for a statement of its own, the cancel request, however
\* the service misbehaves and whatever Retry-After it sends.
EndsInTime ==
    now <= LongestRequest + Wait + PollInterval + Oversleep + LongestRequest
             + (IF owned THEN LongestRequest ELSE 0)

\* A call that gives up has asked to the end: the service still saw the statement run
\* at the deadline, or within one exchange of it.
TimeoutFresh ==
    op = "cancel" \/ result = "timeout" =>
        observed < finish /\ deadline <= observed + Exchange
-----------------------------------------------------------------------------
(* The inductive invariant.                                                 *)

\* What an attempt may come to.
Responses ==
    {r \in [status : {"none", "429", "503"}, header : Header] :
        r.header.form = "delay" => r.header.value \in Nat}

TypeOK ==
    /\ owned \in BOOLEAN
    /\ finish \in Nat
    /\ now \in Nat
    /\ op \in {"submit", "first_get", "status", "cancel", "over"}
    /\ doing \in {"request", "pause", "rest"}
    /\ attempt \in Nat /\ attempt < MaxAttempts
    /\ retry_response \in Responses
    /\ deadline \in Nat \cup {Unset}
    /\ result \in {"none", "response", "timeout", "error"}
    /\ outcome \in Responses
    /\ ended \in Nat \cup {Unset}
    /\ observed \in Nat \cup {Unset}

\* Where the call can be, and what the retry loop holds there.
PlaceInv ==
    /\ (result = "none") <=> (op # "over")
    /\ op = "over" => doing = "request"
    /\ op # "over" =>
          /\ doing = "request" => retry_response = NoResponse
          /\ doing = "pause" =>
                attempt > 0 /\ ended = now /\ retry_response = outcome
          /\ doing = "rest" => op = "status" /\ now < deadline
          /\ op = "cancel" => owned
          /\ op \in {"status", "cancel"} =>
                deadline \in Nat /\ deadline <= LongestRequest + Wait

\* The latest time at which the request that the call is at may have begun.
Begins ==
    IF op \in {"submit", "first_get"} THEN 0
    ELSE LongestRequest + Wait + PollInterval + Oversleep
           + (IF op = "cancel" THEN LongestRequest ELSE 0)

\* The most that an attempt that is retried and the wait after it take.
Round == Exchange + (LongestWait + Oversleep)

TimeInv ==
    op # "over" =>
        /\ doing = "request" => now <= Begins + attempt * Round
        /\ doing = "pause" => now <= Begins + (attempt - 1) * Round + Exchange

Inv == TypeOK /\ PlaceInv /\ TimeInv /\ WaitsAsTold /\ EndsInTime /\ TimeoutFresh
=============================================================================
