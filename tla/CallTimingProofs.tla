-------------------------- MODULE CallTimingProofs --------------------------
(***************************************************************************)
(* CallTiming for every policy, wait, service and clock: retries wait as   *)
(* they are told, a call ends in time, and a timeout is a fresh one.       *)
(***************************************************************************)
EXTENDS CallTiming, Induction

-----------------------------------------------------------------------------
(* The schedule of retry.py.                                                *)

\* multiplier**attempt by recursion: a natural number for every attempt.
LEMMA GrowthNat == growth \in [Nat -> Nat]
<1> USE RetryDelayAssumption
<1> DEFINE step == [n \in Nat |-> [x \in Nat |-> Multiplier * x]]
           G(g) == [n \in Nat |-> IF n = 0 THEN 1 ELSE Multiplier * g[n - 1]]
<1>1. step \in Steps(Nat)
  <2>1. ASSUME NEW n \in Nat PROVE [x \in Nat |-> Multiplier * x] \in [Nat -> Nat]
    OBVIOUS
  <2>2. QED BY <2>1 DEF Steps
<1>2. PICK g : Follows(g, Nat, 1, step)
  <2>1. 1 \in Nat
    OBVIOUS
  <2> HIDE DEF step
  <2>2. QED BY <1>1, <2>1, Recursion
<1>3. g = G(g)
  <2>1. /\ g \in [Nat -> Nat] /\ g[0] = 1
        /\ \A n \in Nat : g[n + 1] = step[n][g[n]]
    BY <1>2 DEF Follows
  <2>2. ASSUME NEW n \in Nat PROVE g[n] = G(g)[n]
    <3>1. CASE n = 0
      BY <2>1, <3>1
    <3>2. CASE n # 0
      <4>1. n - 1 \in Nat /\ (n - 1) + 1 = n
        BY <3>2
      <4>2. g[(n - 1) + 1] = step[n - 1][g[n - 1]]
        BY <2>1, <4>1
      <4>3. g[n - 1] \in Nat
        BY <2>1, <4>1
      <4>4. QED BY <3>2, <4>1, <4>2, <4>3
    <3>3. QED BY <3>1, <3>2
  <2>3. QED BY <2>1, <2>2
<1>4. growth = G(growth)
  BY <1>3 DEF growth
<1> DEFINE T == {n \in Nat : growth[n] \in Nat}
<1>5. 0 \in T
  BY <1>4
<1>6. ASSUME NEW n \in T PROVE n + 1 \in T
  <2>1. growth[n + 1] = Multiplier * growth[n]
    BY <1>4
  <2>2. QED BY <2>1
<1>7. T = Nat
  <2>1. T \in SUBSET Nat
    OBVIOUS
  <2> HIDE DEF T
  <2>2. QED BY <1>5, <1>6, <2>1, NatSet
<1>8. \A n \in Nat : growth[n] \in Nat
  BY <1>7
<1>9. growth = [n \in Nat |-> growth[n]]
  BY <1>4
<1> HIDE DEF T, G
<1>10. QED BY <1>8, <1>9

\* The ceilings of ceiling_for and delay_for: never above the cap of the policy.
LEMMA CeilingNat ==
    ASSUME NEW n \in Nat
    PROVE  /\ ceiling_for(n) \in Nat /\ ceiling_for(n) <= MaxBackoff
           /\ rate_limit_ceiling(n) \in Nat /\ rate_limit_ceiling(n) <= MaxBackoff
<1> USE RetryDelayAssumption
<1>1. growth[n] \in Nat
  BY GrowthNat
<1>2. BaseBackoff * growth[n] \in Nat /\ BaseBackoff * RateLimitMultiplier \in Nat
  BY <1>1
<1>3. BaseBackoff * RateLimitMultiplier * growth[n] \in Nat
  BY <1>1, <1>2
<1>4. QED BY <1>2, <1>3 DEF ceiling_for, rate_limit_ceiling, Least

\* What delay_for returns after a response: a wait that is bounded, and the one that
\* the response asks for.
LEMMA DelayBounds ==
    ASSUME NEW n \in Nat, NEW r \in Responses, NEW t \in Nat, NEW d \in delay_for(n, r, t)
    PROVE  /\ d \in Nat /\ d <= LongestWait
           /\ Usable(r.header) => d = Least(Ahead(r.header, t), MaxRetryAfter)
           /\ ~Usable(r.header) /\ r.status = "429" => d <= rate_limit_ceiling(n)
           /\ ~Usable(r.header) /\ r.status # "429" => d <= ceiling_for(n)
<1> USE RetryDelayAssumption
<1>1. CASE Usable(r.header)
  <2>1. d = Least(Ahead(r.header, t), MaxRetryAfter)
    BY <1>1 DEF delay_for
  <2>2. Ahead(r.header, t) \in Nat
    BY <1>1 DEF Ahead, Usable, Responses, Header
  <2>3. QED BY <1>1, <2>1, <2>2 DEF Least, LongestWait
<1>2. CASE ~Usable(r.header) /\ r.status = "429"
  <2>1. d \in Nat /\ d <= rate_limit_ceiling(n)
    BY <1>2, CeilingNat DEF delay_for, Drawn
  <2>2. QED BY <1>2, <2>1, CeilingNat DEF LongestWait
<1>3. CASE ~Usable(r.header) /\ r.status # "429"
  <2>1. d \in Nat /\ d <= ceiling_for(n)
    BY <1>3, CeilingNat DEF delay_for, backoff_for, Drawn
  <2>2. QED BY <1>3, <2>1, CeilingNat DEF LongestWait
<1>4. QED BY <1>1, <1>2, <1>3

-----------------------------------------------------------------------------
(* One call of the transport.                                               *)

\* The bounds are natural numbers, and the longest request is its rounds and a last
\* exchange.
LEMMA Durations ==
    /\ LongestWait \in Nat /\ LongestRequest \in Nat /\ Round \in Nat
    /\ LongestRequest = (MaxAttempts - 1) * Round + Exchange
<1> USE RetryDelayAssumption, CallTimingAssumption
<1>1. LongestWait \in Nat
  BY DEF LongestWait
<1>2. Round \in Nat
  BY <1>1 DEF Round
<1>3. MaxAttempts - 1 \in Nat /\ LongestWait + Oversleep \in Nat
  BY <1>1
<1>4. LongestRequest \in Nat
  BY <1>3 DEF LongestRequest
<1>5. ASSUME NEW a \in Nat, NEW e \in Nat, NEW w \in Nat
      PROVE  a * e + (a - 1) * w = (a - 1) * (e + w) + e
  OBVIOUS
<1>6. LongestRequest = (MaxAttempts - 1) * Round + Exchange
  BY <1>3, <1>5 DEF LongestRequest, Round
<1>7. QED BY <1>1, <1>2, <1>4, <1>6

\* More rounds take more time.
LEMMA RoundsMonotone ==
    ASSUME NEW a \in Nat, NEW b \in Nat, a <= b
    PROVE  /\ a * Round \in Nat /\ b * Round \in Nat
           /\ a * Round <= b * Round
           /\ (a + 1) * Round = a * Round + Round
<1>1. ASSUME NEW x \in Nat, NEW y \in Nat, NEW r \in Nat, x <= y
      PROVE  x * r \in Nat /\ y * r \in Nat /\ x * r <= y * r /\ (x + 1) * r = x * r + r
  <2>1. PICK z \in Nat : y = x + z
    <3>1. y - x \in Nat /\ y = x + (y - x)
      BY <1>1
    <3>2. QED BY <3>1
  <2>2. y * r = x * r + z * r /\ z * r \in Nat
    BY <2>1
  <2>3. QED BY <2>2
<1>2. QED BY <1>1, Durations

\* The replies that are retried are responses, and so is none.
LEMMA ResponseTypes ==
    /\ NoResponse \in Responses
    /\ \A time \in Nat : RetriedReplies(time) \subseteq Responses
<1> USE CallTimingAssumption
<1>1. NoResponse \in Responses
  BY DEF NoResponse, NoHeader, Responses, Header
<1>2. ASSUME NEW time \in Nat, NEW r \in RetriedReplies(time) PROVE r \in Responses
  <2>1. \A o \in Offsets : time + o \in Int
    OBVIOUS
  <2>2. /\ r = [status |-> r.status, header |-> r.header]
        /\ r.status \in {"429", "503"}
        /\ r.header \in {NoHeader, [form |-> "invalid", value |-> 0]}
                        \cup [form : {"delay"}, value : Delays]
                        \cup [form : {"date"}, value : {time + o : o \in Offsets}]
    BY DEF RetriedReplies
  <2>3. r.header \in Header /\ (r.header.form = "delay" => r.header.value \in Nat)
    <3>1. CASE r.header = NoHeader
      BY <3>1 DEF NoHeader, Header
    <3>2. CASE r.header = [form |-> "invalid", value |-> 0]
      BY <3>2 DEF Header
    <3>3. CASE r.header \in [form : {"delay"}, value : Delays]
      <4>1. r.header.form = "delay" /\ r.header.value \in Delays
        BY <3>3
      <4>2. r.header.value \in Nat
        BY <4>1
      <4>3. QED BY <3>3, <4>1, <4>2 DEF Header
    <3>4. CASE r.header \in [form : {"date"}, value : {time + o : o \in Offsets}]
      BY <2>1, <3>4 DEF Header
    <3>5. QED BY <2>2, <3>1, <3>2, <3>3, <3>4
  <2>4. QED BY <2>2, <2>3 DEF Responses
<1>3. QED BY <1>1, <1>2

\* An attempt ends within the time that its request has.
LEMMA AttemptBound ==
    ASSUME Inv, NEW time \in Ends, doing = "request", op # "over"
    PROVE  /\ time \in Nat /\ now <= time /\ time <= now + Exchange
           /\ Begins \in Nat
           /\ time <= Begins + attempt * Round + Exchange
           /\ time <= Begins + LongestRequest
<1> USE RetryDelayAssumption, CallTimingAssumption
<1>1. time \in Nat /\ now <= time /\ time <= now + Exchange
  BY DEF Inv, TypeOK, Ends
<1>2. Begins \in Nat
  BY Durations DEF Begins
<1>3. attempt \in Nat /\ attempt <= MaxAttempts - 1 /\ MaxAttempts - 1 \in Nat /\ now \in Nat
  BY DEF Inv, TypeOK
<1>4. attempt * Round \in Nat /\ attempt * Round <= (MaxAttempts - 1) * Round
      /\ (MaxAttempts - 1) * Round \in Nat
  BY <1>3, RoundsMonotone
<1>5. now <= Begins + attempt * Round
  BY DEF Inv, TimeInv
<1>6. QED BY <1>1, <1>2, <1>3, <1>4, <1>5, Durations

-----------------------------------------------------------------------------
(* The steps.                                                               *)

\* The call returns or fails: what it comes to is true of the statement.
LEMMA ReturnStep ==
    ASSUME Inv, NEW time \in Ends, NEW response \in Responses,
           AttemptEnds(time, response),
           NEW r \in {"response", "timeout", "error"}, Return(r),
           observed' \in Nat \cup {Unset},
           r = "timeout" => observed' < finish /\ deadline <= observed' + Exchange
    PROVE  Inv'
<1> USE RetryDelayAssumption, CallTimingAssumption
<1> USE DEF AttemptEnds, statementVars, Return
<1>1. /\ time \in Nat /\ Begins \in Nat /\ time <= Begins + LongestRequest
  BY AttemptBound
<1>2. TypeOK'
  BY <1>1 DEF Inv, TypeOK
<1>3. PlaceInv' /\ TimeInv' /\ WaitsAsTold'
  BY DEF PlaceInv, TimeInv, WaitsAsTold
<1>4. EndsInTime'
  BY <1>1, Durations DEF Inv, TypeOK, PlaceInv, EndsInTime, Begins
<1>5. TimeoutFresh'
  BY DEF TimeoutFresh
<1>6. QED BY <1>2, <1>3, <1>4, <1>5 DEF Inv

\* The attempt is retried, or was the last of its request.
LEMMA RetryStep ==
    ASSUME Inv, NEW time \in Ends, NEW response \in Responses,
           AttemptEnds(time, response), Retry(response), UNCHANGED observed
    PROVE  Inv'
<1> USE RetryDelayAssumption, CallTimingAssumption
<1>1. CASE attempt + 1 < MaxAttempts
  <2> USE DEF AttemptEnds, statementVars
  <2>1. /\ doing' = "pause" /\ attempt' = attempt + 1 /\ retry_response' = response
        /\ UNCHANGED <<op, deadline, result>>
    BY <1>1 DEF Retry
  <2>2. /\ time \in Nat /\ Begins \in Nat /\ time <= Begins + LongestRequest
        /\ time <= Begins + attempt * Round + Exchange
    BY AttemptBound
  <2>3. Begins' = Begins
    BY <2>1 DEF Begins
  <2>4. TypeOK'
    BY <1>1, <2>1, <2>2 DEF Inv, TypeOK
  <2>5. PlaceInv'
    BY <1>1, <2>1, <2>2 DEF Inv, TypeOK, PlaceInv
  <2>6. TimeInv'
    <3>1. attempt' - 1 = attempt /\ now' = time
      BY <2>1 DEF Inv, TypeOK
    <3>2. QED BY <2>1, <2>2, <2>3, <3>1 DEF TimeInv
  <2>7. WaitsAsTold'
    BY <2>1 DEF WaitsAsTold
  <2>8. EndsInTime'
    BY <2>1, <2>2, Durations DEF Inv, TypeOK, PlaceInv, EndsInTime, Begins
  <2>9. TimeoutFresh'
    BY <2>1 DEF Inv, TimeoutFresh
  <2>10. QED BY <2>4, <2>5, <2>6, <2>7, <2>8, <2>9 DEF Inv
<1>2. CASE ~(attempt + 1 < MaxAttempts)
  <2>1. GiveUp
    BY <1>2 DEF Retry
  <2>2. observed \in Nat \cup {Unset}
    BY DEF Inv, TypeOK
  <2>3. op = "cancel" => observed < finish /\ deadline <= observed + Exchange
    BY DEF Inv, TimeoutFresh
  <2>4. CASE op = "cancel"
    BY <2>1, <2>2, <2>3, <2>4, ReturnStep DEF GiveUp
  <2>5. CASE op # "cancel"
    BY <2>1, <2>2, <2>5, ReturnStep DEF GiveUp
  <2>6. QED BY <2>4, <2>5
<1>3. QED BY <1>1, <1>2

LEMMA NoReplyStep == ASSUME Inv, NoReply PROVE Inv'
<1>1. PICK time \in Ends : AttemptEnds(time, NoResponse) /\ Retry(retry_response)
                           /\ UNCHANGED observed
  BY DEF NoReply
<1>2. retry_response = NoResponse
  BY <1>1 DEF AttemptEnds, Inv, PlaceInv
<1>3. QED BY <1>1, <1>2, ResponseTypes, RetryStep

LEMMA RetriedReplyStep == ASSUME Inv, RetriedReply PROVE Inv'
<1>1. PICK time \in Ends : \E response \in RetriedReplies(time) :
          /\ AttemptEnds(time, response)
          /\ Retry(response)
          /\ UNCHANGED observed
  BY DEF RetriedReply
<1>2. time \in Nat
  BY <1>1, AttemptBound DEF AttemptEnds
<1>3. QED BY <1>1, <1>2, ResponseTypes, RetryStep

LEMMA ErrorReplyStep == ASSUME Inv, ErrorReply PROVE Inv'
<1>1. PICK time \in Ends : AttemptEnds(time, NoResponse) /\ GiveUp /\ UNCHANGED observed
  BY DEF ErrorReply
<1>2. observed \in Nat \cup {Unset}
  BY DEF Inv, TypeOK
<1>3. op = "cancel" => observed < finish /\ deadline <= observed + Exchange
  BY DEF Inv, TimeoutFresh
<1>4. CASE op = "cancel"
  BY <1>1, <1>2, <1>3, <1>4, ResponseTypes, ReturnStep DEF GiveUp
<1>5. CASE op # "cancel"
  BY <1>1, <1>2, <1>5, ResponseTypes, ReturnStep DEF GiveUp
<1>6. QED BY <1>4, <1>5

LEMMA CancelReplyStep == ASSUME Inv, CancelReply PROVE Inv'
<1>1. PICK time \in Ends : AttemptEnds(time, NoResponse) /\ op = "cancel"
                           /\ Return("timeout") /\ UNCHANGED observed
  BY DEF CancelReply
<1>2. observed \in Nat \cup {Unset}
  BY DEF Inv, TypeOK
<1>3. observed < finish /\ deadline <= observed + Exchange
  BY <1>1 DEF Inv, TimeoutFresh
<1>4. QED BY <1>1, <1>2, <1>3, ResponseTypes, ReturnStep

\* A reply that tells of the statement: what the service saw is at most one exchange
\* old when the client compares the clock with the deadline.
LEMMA ReplyStep == ASSUME Inv, Reply PROVE Inv'
<1> USE RetryDelayAssumption, CallTimingAssumption
<1>1. SUFFICES ASSUME NEW time \in Ends, NEW seen \in now..time,
                      AttemptEnds(time, NoResponse),
                      op # "cancel",
                      observed' = seen,
                      IF seen >= finish THEN Return("response")
                      ELSE IF op = "status" THEN StillRunning(time)
                      ELSE BeginPoll(time)
               PROVE  Inv'
  BY DEF Reply
<1>2. /\ time \in Nat /\ now <= time /\ time <= now + Exchange
      /\ Begins \in Nat /\ time <= Begins + LongestRequest
  BY <1>1, AttemptBound DEF AttemptEnds
<1>3. seen \in Nat /\ time <= seen + Exchange
  BY <1>2 DEF Inv, TypeOK
<1>4. CASE seen >= finish
  BY <1>1, <1>3, <1>4, ResponseTypes, ReturnStep
<1>5. CASE ~(seen >= finish) /\ op = "status" /\ time < deadline
  <2>1. /\ doing' = "rest" /\ op' = "status"
        /\ UNCHANGED <<op, attempt, retry_response, deadline, result>>
    BY <1>1, <1>5 DEF StillRunning
  <2>2. TypeOK'
    BY <1>1, <1>2, <1>3, <2>1, ResponseTypes
    DEF Inv, TypeOK, AttemptEnds, statementVars
  <2>3. PlaceInv' /\ TimeInv' /\ WaitsAsTold' /\ TimeoutFresh'
    BY <1>1, <1>5, <2>1
    DEF Inv, AttemptEnds, statementVars, PlaceInv, TimeInv, WaitsAsTold, TimeoutFresh
  <2>4. EndsInTime'
    BY <1>1, <1>2, <1>5, <2>1, Durations
    DEF Inv, TypeOK, AttemptEnds, statementVars, PlaceInv, EndsInTime, Begins
  <2>5. QED BY <2>2, <2>3, <2>4 DEF Inv
<1>6. CASE ~(seen >= finish) /\ op = "status" /\ ~(time < deadline) /\ owned
  <2>1. /\ op' = "cancel" /\ doing' = "request" /\ attempt' = 0
        /\ retry_response' = NoResponse
        /\ UNCHANGED <<result, deadline>>
    BY <1>1, <1>6 DEF StillRunning, Send
  <2>2. TypeOK'
    BY <1>1, <1>2, <1>3, <2>1, ResponseTypes
    DEF Inv, TypeOK, AttemptEnds, statementVars
  <2>3. PlaceInv' /\ WaitsAsTold'
    BY <1>1, <1>6, <2>1
    DEF Inv, AttemptEnds, statementVars, PlaceInv, WaitsAsTold
  <2>4. deadline \in Nat /\ finish \in Nat
    BY <1>1, <1>6 DEF Inv, TypeOK, PlaceInv, AttemptEnds
  <2>5. TimeoutFresh'
    BY <1>1, <1>2, <1>3, <1>6, <2>1, <2>4
    DEF AttemptEnds, statementVars, TimeoutFresh
  <2>6. TimeInv' /\ EndsInTime'
    <3>1. Begins' = Begins + LongestRequest /\ now' = time /\ attempt' * Round = 0
      BY <1>1, <1>6, <2>1, Durations DEF Begins, AttemptEnds
    <3>2. Begins' = LongestRequest + Wait + PollInterval + Oversleep + LongestRequest
      BY <2>1 DEF Begins
    <3>3. QED BY <1>1, <1>2, <1>6, <2>1, <3>1, <3>2, Durations
              DEF AttemptEnds, statementVars, TimeInv, EndsInTime
  <2>7. QED BY <2>2, <2>3, <2>5, <2>6 DEF Inv
<1>7. CASE ~(seen >= finish) /\ op = "status" /\ ~(time < deadline) /\ ~owned
  <2>1. deadline \in Nat /\ finish \in Nat
    BY <1>1, <1>7 DEF Inv, TypeOK, PlaceInv, AttemptEnds
  <2>2. seen < finish /\ deadline <= seen + Exchange
    BY <1>2, <1>3, <1>7, <2>1
  <2>3. QED BY <1>1, <1>3, <1>7, <2>2, ResponseTypes, ReturnStep DEF StillRunning
<1>8. CASE ~(seen >= finish) /\ op # "status"
  <2>1. /\ op' = "status" /\ doing' = "request" /\ attempt' = 0
        /\ retry_response' = NoResponse
        /\ deadline' = time + Wait
        /\ UNCHANGED result
    BY <1>1, <1>8 DEF BeginPoll, Send
  <2>2. Begins = 0
    BY <1>1, <1>8 DEF Inv, TypeOK, AttemptEnds, Begins
  <2>3. TypeOK'
    BY <1>1, <1>2, <1>3, <2>1, ResponseTypes
    DEF Inv, TypeOK, AttemptEnds, statementVars
  <2>4. PlaceInv' /\ WaitsAsTold'
    BY <1>1, <1>2, <1>8, <2>1, <2>2, Durations
    DEF Inv, AttemptEnds, statementVars, PlaceInv, WaitsAsTold
  <2>5. TimeoutFresh'
    BY <1>1, <2>1 DEF Inv, PlaceInv, AttemptEnds, TimeoutFresh
  <2>6. TimeInv' /\ EndsInTime'
    <3>1. now' = time /\ attempt' * Round = 0
      BY <1>1, <2>1, Durations DEF AttemptEnds
    <3>2. Begins' = LongestRequest + Wait + PollInterval + Oversleep
      BY <2>1, Durations DEF Begins
    <3>3. QED BY <1>1, <1>2, <2>1, <2>2, <3>1, <3>2, Durations
              DEF AttemptEnds, statementVars, TimeInv, EndsInTime
  <2>7. QED BY <2>3, <2>4, <2>5, <2>6 DEF Inv
<1>9. QED BY <1>4, <1>5, <1>6, <1>7, <1>8

\* The sleep before a retry begins when the attempt before it has ended.
LEMMA PauseStep == ASSUME Inv, Pause PROVE Inv'
<1> USE RetryDelayAssumption, CallTimingAssumption
<1>1. PICK delay \in delay_for(attempt - 1, retry_response, now), late \in 0..Oversleep :
          now' = now + delay + late
  BY DEF Pause
<1>2. CASE op = "over"
  \* Nothing follows the end of a call.
  BY <1>2 DEF Pause, Inv, PlaceInv
<1>3. CASE op # "over"
  <2>1. /\ doing = "pause" /\ doing' = "request" /\ retry_response' = NoResponse
        /\ UNCHANGED <<statementVars, op, attempt, deadline, result, history>>
    BY DEF Pause
  <2>2. /\ attempt > 0 /\ attempt - 1 \in Nat /\ attempt \in Nat
        /\ ended = now /\ now \in Nat
        /\ retry_response = outcome /\ outcome \in Responses
    BY <1>3, <2>1 DEF Inv, TypeOK, PlaceInv
  <2>3. /\ delay \in Nat /\ delay <= LongestWait
        /\ Usable(outcome.header) => delay = Least(Ahead(outcome.header, now), MaxRetryAfter)
        /\ ~Usable(outcome.header) /\ outcome.status = "429"
              => delay <= rate_limit_ceiling(attempt - 1)
        /\ ~Usable(outcome.header) /\ outcome.status # "429"
              => delay <= ceiling_for(attempt - 1)
    BY <1>1, <2>2, DelayBounds
  <2>4. now' - ended' = delay + late /\ now' \in Nat
    BY <1>1, <2>1, <2>2, <2>3 DEF history
  <2>5. TypeOK'
    BY <2>1, <2>4, ResponseTypes DEF Inv, TypeOK, statementVars, history
  <2>6. PlaceInv' /\ TimeoutFresh'
    BY <1>3, <2>1 DEF Inv, PlaceInv, TimeoutFresh, statementVars, history
  <2>7. TimeInv'
    <3>1. now <= Begins + (attempt - 1) * Round + Exchange
      BY <1>3, <2>1 DEF Inv, TimeInv
    <3>2. /\ (attempt - 1) * Round \in Nat /\ attempt * Round \in Nat
          /\ attempt * Round = (attempt - 1) * Round + Round
      BY <2>2, RoundsMonotone
    <3>3. Begins' = Begins /\ Begins \in Nat
      BY <2>1, Durations DEF Begins
    <3>4. Round = Exchange + (LongestWait + Oversleep)
      BY DEF Round
    <3>5. now' <= Begins + attempt * Round
      BY <1>1, <2>2, <2>3, <3>1, <3>2, <3>3, <3>4, Durations
    <3>6. QED BY <2>1, <3>3, <3>5 DEF TimeInv
  <2>8. WaitsAsTold'
    <3>1. attempt - 1 \in Nat
      BY <2>2
    <3>2. /\ ceiling_for(attempt - 1) \in Nat /\ rate_limit_ceiling(attempt - 1) \in Nat
      BY <3>1, CeilingNat
    <3>3. outcome' = outcome /\ ended' = now /\ attempt' = attempt
      BY <2>1, <2>2 DEF history
    <3> HIDE DEF Least
    <3>4. CASE Usable(outcome.header)
      BY <1>1, <2>3, <2>4, <3>3, <3>4 DEF WaitsAsTold
    <3>5. CASE ~Usable(outcome.header) /\ outcome.status = "429"
      BY <1>1, <2>3, <2>4, <3>2, <3>3, <3>5 DEF WaitsAsTold
    <3>6. CASE ~Usable(outcome.header) /\ outcome.status # "429"
      BY <1>1, <2>3, <2>4, <3>2, <3>3, <3>6 DEF WaitsAsTold
    <3>7. QED BY <3>4, <3>5, <3>6
  <2>9. EndsInTime'
    <3>1. attempt' * Round <= (MaxAttempts - 1) * Round /\ attempt' * Round \in Nat
          /\ (MaxAttempts - 1) * Round \in Nat
      <4>1. attempt \in Nat /\ MaxAttempts - 1 \in Nat /\ attempt <= MaxAttempts - 1
        BY DEF Inv, TypeOK
      <4>2. QED BY <2>1, <4>1, RoundsMonotone
    <3>2. now' <= Begins' + attempt' * Round /\ op' # "over" /\ PlaceInv' /\ TypeOK'
      BY <1>3, <2>1, <2>5, <2>6, <2>7 DEF TimeInv
    <3>3. now' <= Begins' + LongestRequest /\ Begins' \in Nat /\ now' \in Nat
      <4>1. Begins' \in Nat
        BY Durations DEF Begins
      <4>2. now' \in Nat
        BY <3>2 DEF TypeOK
      <4>3. now' <= Begins' + attempt' * Round
        BY <3>2
      <4>4. \A b, m, n \in Nat : n <= b + m /\ m <= (MaxAttempts - 1) * Round
                                   => n <= b + LongestRequest
        BY <3>1, Durations
      <4>5. QED BY <3>1, <4>1, <4>2, <4>3, <4>4
    <3>4. op' = "cancel" => owned'
      BY <3>2 DEF PlaceInv
    <3>5. QED BY <3>3, <3>4, Durations DEF EndsInTime, Begins
  <2>10. QED BY <2>5, <2>6, <2>7, <2>8, <2>9 DEF Inv
<1>4. QED BY <1>2, <1>3

\* The sleep between two polls begins before the deadline.
LEMMA RestStep == ASSUME Inv, Rest PROVE Inv'
<1> USE RetryDelayAssumption, CallTimingAssumption
<1>1. PICK late \in 0..Oversleep : now' = now + PollInterval + late
  BY DEF Rest
<1>2. /\ op = "status" /\ now < deadline /\ now \in Nat
      /\ deadline \in Nat /\ deadline <= LongestRequest + Wait
  BY DEF Rest, Inv, TypeOK, PlaceInv
<1>3. /\ op' = "status" /\ doing' = "request" /\ attempt' = 0
      /\ retry_response' = NoResponse
      /\ UNCHANGED <<result, statementVars, deadline, history>>
  BY DEF Rest, Send
<1>4. /\ now' \in Nat
      /\ now' <= LongestRequest + Wait + PollInterval + Oversleep
  BY <1>1, <1>2, Durations
<1>5. TypeOK'
  BY <1>3, <1>4, ResponseTypes DEF Inv, TypeOK, statementVars, history
<1>6. PlaceInv' /\ WaitsAsTold' /\ TimeoutFresh'
  BY <1>2, <1>3 DEF Inv, PlaceInv, WaitsAsTold, TimeoutFresh, statementVars, history
<1>7. TimeInv' /\ EndsInTime'
  <2>1. /\ Begins' = LongestRequest + Wait + PollInterval + Oversleep
        /\ attempt' * Round = 0
    BY <1>3, Durations DEF Begins
  <2>2. QED BY <1>3, <1>4, <2>1, Durations DEF TimeInv, EndsInTime
<1>8. QED BY <1>5, <1>6, <1>7 DEF Inv

LEMMA InvInit == Init => Inv
<1> USE RetryDelayAssumption, CallTimingAssumption
<1>1. SUFFICES ASSUME Init PROVE Inv
  OBVIOUS
<1>2. /\ owned \in BOOLEAN /\ finish \in Nat /\ now = 0 /\ doing = "request"
      /\ attempt = 0 /\ retry_response = NoResponse /\ deadline = Unset
      /\ result = "none" /\ outcome = NoResponse /\ ended = Unset /\ observed = Unset
  BY <1>1 DEF Init
<1>3. op \in {"submit", "first_get"}
  BY <1>1 DEF Init
<1>4. TypeOK
  BY <1>2, <1>3, ResponseTypes DEF TypeOK
<1>5. PlaceInv /\ WaitsAsTold /\ TimeoutFresh
  BY <1>2, <1>3 DEF PlaceInv, WaitsAsTold, TimeoutFresh
<1>6. TimeInv /\ EndsInTime
  <2>1. Begins = 0 /\ attempt * Round = 0
    BY <1>2, <1>3, Durations DEF Begins
  <2>2. QED BY <1>2, <2>1, Durations DEF TimeInv, EndsInTime
<1>7. QED BY <1>4, <1>5, <1>6 DEF Inv

LEMMA InvStep == Inv /\ [Next]_vars => Inv'
<1>1. SUFFICES ASSUME Inv, [Next]_vars PROVE Inv'
  OBVIOUS
<1>2. CASE UNCHANGED vars
  <2>1. UNCHANGED <<owned, finish, now, op, doing, attempt, retry_response, deadline,
                    result, outcome, ended, observed>>
    BY <1>2 DEF vars, statementVars, callVars, history
  <2>2. QED BY <1>1, <2>1
        DEF Inv, TypeOK, PlaceInv, TimeInv, Begins, WaitsAsTold, EndsInTime, TimeoutFresh
<1>3. CASE Next
  BY <1>1, <1>3, NoReplyStep, RetriedReplyStep, ErrorReplyStep, ReplyStep, CancelReplyStep,
     PauseStep, RestStep DEF Next
<1>4. QED BY <1>1, <1>2, <1>3

-----------------------------------------------------------------------------
\* The invariant holds for every policy and wait, whatever the service answers and
\* however long its answers and the sleeps of the client take within their bounds.
THEOREM Invariance == Spec => []Inv
<1>1. QED BY InvInit, InvStep, PTL DEF Spec

\* retry.py and _send: a retry waits for what the attempt just before it asks for.
THEOREM RetriesWaitAsTold == Spec => []WaitsAsTold
<1>1. Inv => WaitsAsTold
  BY DEF Inv
<1>2. QED BY <1>1, Invariance, PTL

\* query, execute and result(): the call is over within a bound that is linear in
\* max_attempts and does not depend on what the service asks for.
THEOREM CallsEndInTime == Spec => []EndsInTime
<1>1. Inv => EndsInTime
  BY DEF Inv
<1>2. QED BY <1>1, Invariance, PTL

\* _poll: a timeout is raised only after the service saw the statement run at the
\* deadline, or within one exchange of it.
THEOREM TimeoutsAreFresh == Spec => []TimeoutFresh
<1>1. Inv => TimeoutFresh
  BY DEF Inv
<1>2. QED BY <1>1, Invariance, PTL
=============================================================================
