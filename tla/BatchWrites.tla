---------------------------- MODULE BatchWrites ----------------------------
(***************************************************************************)
(* insert_batches() of client.py and aclient.py, with everything it        *)
(* drives: the planner that fills a batch, the _BatchExecution that        *)
(* remembers what is known of the batch being written, the transport that  *)
(* submits it and the poll loop that waits for it, against the SQL API.    *)
(*                                                                         *)
(* The uuid4 of the batch with index i is modelled by i: insert_batches()  *)
(* allocates one identity per batch and stops at the first failure.        *)
(* A KeyboardInterrupt or a task cancellation, which leaves no             *)
(* BatchWriteError behind, is outside this module.                         *)
(***************************************************************************)
EXTENDS BatchPlanner, Transport

VARIABLES failed,     \* _BatchExecution: the FailedBatch and the two flags
          expired     \* the poll deadline has passed

vars == <<plannerVars, serverVars, transportVars, failed, expired>>

ASSUME BoundsAssumption == MaxInput < MaxRequests

\* attempts, handle: submission_attempts and statement_handle of the
\* FailedBatch.  phase, succeeded: the attributes of the execution.
Execution == [attempts : 0..MaxAttempts,
              handle : Handles,
              phase : {"submission", "execution"},
              succeeded : BOOLEAN]

NewExecution == [attempts |-> 0, handle |-> None, phase |-> "submission",
                 succeeded |-> FALSE]

\* "submit", "poll" and "cancel" name the transport call that is waited for.
TypeOK ==
    /\ pc \in {"fill", "flush", "ready", "submit", "poll", "cancel", "end",
               "raised"}
    /\ BufferTypeOK
    /\ phase \in Phases
    /\ outcome \in Outcomes
    /\ ServerTypeOK
    /\ TransportTypeOK
    /\ failed \in Execution
    /\ expired \in BOOLEAN

Init ==
    /\ PlannerInit
    /\ ServerInit
    /\ TransportInit
    /\ failed = NewExecution
    /\ expired = FALSE

\* The index, hence the requestId, of the batch at hand.
Current == Len(completed)

-----------------------------------------------------------------------------
\* next_batch()
Plan ==
    /\ NextBatch
    /\ UNCHANGED <<serverVars, transportVars, failed, expired>>

\* on_query raises: a local failure, no _BatchExecution exists yet.
NotifyFails ==
    /\ pc = "ready"
    /\ LocalError("validation")
    /\ UNCHANGED <<bufferVars, serverVars, transportVars, failed, expired>>

\* Mutant: the execution of the batch before is used again.
SubmitBatchReuses ==
    /\ pc = "ready"
    /\ pc' = "submit"
    /\ submit(Current, FALSE)
    /\ UNCHANGED <<bufferVars, progressVars, reportVars, serverVars, failed, expired>>

\* on_query returns, the identity is allocated, transport.submit() is called.
SubmitBatch ==
    /\ pc = "ready"
    /\ pc' = "submit"
    /\ failed' = NewExecution
    /\ submit(Current, FALSE)
    /\ UNCHANGED <<bufferVars, progressVars, reportVars, serverVars, expired>>

-----------------------------------------------------------------------------
(* _BatchExecution.error(): an exception ends the import.  `x' is what is   *)
(* known of the batch, counted and h what the exception carries: the count  *)
(* of statement POSTs unless it is None, and a handle; s is its status.     *)

\* The POST count that decides: the cause's own, or the one kept by received().
Attempts(x, counted, n) == IF counted THEN n ELSE x.attempts

\* Mutant: a SQL error is final however many POSTs were sent.
VerdictLastError(x, counted, n, s) ==
    CASE x.succeeded -> "succeeded"
      [] ~ x.succeeded /\ s = "sql_error" -> "failed"
      [] /\ ~ x.succeeded
         /\ Attempts(x, counted, n) <= 1
         /\ s # "sql_error"
         /\ x.phase = "submission"
         /\ (counted /\ n = 0) \/ s \in Refusals -> "not_executed"
      [] OTHER -> "unknown"

\* Which verdict an exception of status s supports.
Verdict(x, counted, n, s) ==
    CASE x.succeeded -> "succeeded"
      [] ~ x.succeeded /\ Attempts(x, counted, n) <= 1 /\ s = "sql_error" -> "failed"
      [] /\ ~ x.succeeded
         /\ Attempts(x, counted, n) <= 1
         /\ s # "sql_error"
         /\ x.phase = "submission"
         /\ (counted /\ n = 0) \/ s \in Refusals -> "not_executed"
      [] OTHER -> "unknown"

error(x, counted, n, s, h) ==
    /\ pc' = "raised"
    /\ outcome' = Verdict(x, counted, n, s)
    /\ failed' = [x EXCEPT !.attempts = Attempts(x, counted, n),
                           !.handle = IF h # None THEN h ELSE @,
                           !.phase = IF s = "sql_error" THEN "execution" ELSE @]
    /\ phase' = failed'.phase
    /\ UNCHANGED <<bufferVars, progressVars>>

\* An exception raised by this module's own code, not by the transport.
OwnError(x) == error(x, FALSE, 0, "none", None)

\* _rows_affected(strict=True) reads the count and the batch is confirmed, or
\* it cannot, after a write that succeeded.
Conclude(x) ==
    \/ /\ confirm
       /\ failed' = x
    \/ OwnError(x)

-----------------------------------------------------------------------------
\* Mutant: the POST count of the response is not kept.
receivedUncounted ==
    [failed EXCEPT !.handle = call.handle,
                   !.phase = IF ~ is_running \/ call.handle # None
                               THEN "execution" ELSE @,
                   !.succeeded = ~ is_running]

\* received(): what the response to the submission establishes.
received ==
    [failed EXCEPT !.handle = call.handle,
                   !.attempts = call.attempts,
                   !.phase = IF ~ is_running \/ call.handle # None
                               THEN "execution" ELSE @,
                   !.succeeded = ~ is_running]

\* Mutant: any response to the submission is a success.
SubmitDoneRunning ==
    /\ pc = "submit"
    /\ Returned("submit")
    /\ Conclude(received)
    /\ UNCHANGED <<serverVars, transportVars, expired>>

\* submit() returns 200.
SubmitDone ==
    /\ pc = "submit"
    /\ Returned("submit")
    /\ ~ is_running
    /\ Conclude(received)
    /\ UNCHANGED <<serverVars, transportVars, expired>>

\* submit() returns 202 with a handle, its own or an earlier attempt's: _poll()
\* takes the time and sends its first GET.
StartPoll ==
    /\ pc = "submit"
    /\ Returned("submit")
    /\ is_running
    /\ call.handle # None
    /\ pc' = "poll"
    /\ failed' = received
    /\ expired' = FALSE
    /\ get_statement(call.handle)
    /\ UNCHANGED <<bufferVars, progressVars, reportVars, serverVars>>

\* submit() returns 202 and no handle is known.
RunningWithoutHandle ==
    /\ pc = "submit"
    /\ Returned("submit")
    /\ is_running
    /\ call.handle = None
    /\ OwnError(received)
    /\ UNCHANGED <<serverVars, transportVars, expired>>

SubmitRaises ==
    /\ pc = "submit"
    /\ Raised("submit")
    /\ error(failed, TRUE, call.attempts, call.status, call.handle)
    /\ UNCHANGED <<serverVars, transportVars, expired>>

-----------------------------------------------------------------------------
\* _poll(): time passes the deadline.
DeadlinePasses ==
    /\ pc = "poll"
    /\ ~ expired
    /\ expired' = TRUE
    /\ UNCHANGED <<plannerVars, serverVars, transportVars, failed>>

\* Mutant: the deadline does not stop the loop.
PollAgainForever ==
    /\ pc = "poll"
    /\ Returned("get")
    /\ is_running
    /\ get_statement(call.target)
    /\ UNCHANGED <<plannerVars, serverVars, failed, expired>>

\* Still running, in time: sleep and ask again.
PollAgain ==
    /\ pc = "poll"
    /\ Returned("get")
    /\ is_running
    /\ ~ expired
    /\ get_statement(call.target)
    /\ UNCHANGED <<plannerVars, serverVars, failed, expired>>

\* Still running, too late: request its cancellation before giving up.
PollExpires ==
    /\ pc = "poll"
    /\ Returned("get")
    /\ is_running
    /\ expired
    /\ pc' = "cancel"
    /\ cancel(call.target)
    /\ UNCHANGED <<bufferVars, progressVars, reportVars, serverVars, failed,
                   expired>>

\* Mutant: any answer to the status GET is a success.
PollDoneRunning ==
    /\ pc = "poll"
    /\ Returned("get")
    /\ Conclude([failed EXCEPT !.succeeded = TRUE])
    /\ UNCHANGED <<serverVars, transportVars, expired>>

\* The GET answers 200.
PollDone ==
    /\ pc = "poll"
    /\ Returned("get")
    /\ ~ is_running
    /\ Conclude([failed EXCEPT !.succeeded = TRUE])
    /\ UNCHANGED <<serverVars, transportVars, expired>>

\* The GET fails; its exception carries no POST count.
PollRaises ==
    /\ pc = "poll"
    /\ Raised("get")
    /\ error(failed, FALSE, 0, call.status, call.handle)
    /\ UNCHANGED <<serverVars, transportVars, expired>>

\* The cancel request is through or has failed: SnowflakeTimeoutError.
CancelOver ==
    /\ pc = "cancel"
    /\ Returned("cancel") \/ Raised("cancel")
    /\ OwnError(failed)
    /\ UNCHANGED <<serverVars, transportVars, expired>>

-----------------------------------------------------------------------------
Send ==
    /\ TransportNext
    /\ UNCHANGED <<plannerVars, failed, expired>>

Serve ==
    /\ ServerNext
    /\ UNCHANGED <<plannerVars, transportVars, failed, expired>>

Client ==
    \/ Plan \/ NotifyFails \/ SubmitBatch
    \/ SubmitDone \/ StartPoll \/ RunningWithoutHandle \/ SubmitRaises
    \/ PollAgain \/ PollExpires \/ PollDone \/ PollRaises \/ CancelOver
    \/ Send

Next == Client \/ DeadlinePasses \/ Serve

Spec == Init /\ [][Next]_vars

(* Fairness.  The client's own steps are taken: HTTPX bounds each request by *)
(* its timeout, so a call in "wait" ends, and sleeps end.  The monotonic     *)
(* clock reaches the poll deadline.  Nothing is assumed of the service.      *)
LiveSpec == Spec /\ WF_vars(Client) /\ WF_vars(DeadlinePasses)

-----------------------------------------------------------------------------
\* Batches with a committed execution.
Durable ==
    {r \in Requests : \E n \in 1..MaxAttempts : stmt[<<r, n>>] = "committed"}

\* No execution of batch r is in one of the states S, now or ever: nothing that
\* could start one is in flight.
Never(r, S) ==
    \A n \in 1..MaxAttempts : stmt[<<r, n>>] \notin S /\ ~ InFlight(<<r, n>>)

\* The BatchWriteError has a FailedBatch.
ReportsBatch == pc = "raised" /\ phase \in {"submission", "execution"}

\* The outcome of a BatchWriteError is the truth about the batch it stopped at,
\* and stays true whatever the network still delivers: not_executed means that
\* no attempt runs, failed that none commits, succeeded that one did.  (A lost
\* reply, a late POST or a local failure between two POSTs must lead to unknown.)
VerdictSound ==
    pc = "raised" =>
        /\ outcome = "not_executed" =>
             Never(Current, {"running", "committed", "aborted"})
        /\ outcome = "failed" => Never(Current, {"running", "committed"})
        /\ outcome = "succeeded" => Current \in Durable

\* Confirmed batches are durable, and no POST of a batch is sent before every
\* earlier batch is: source order is commit order.
SequentialWrites ==
    /\ 0..(Current - 1) \subseteq Durable
    /\ \A e \in posted : 0..(e[1] - 1) \subseteq Durable

\* Where the service keeps its history and sees the POSTs of a requestId in the
\* order sent, retry=true makes the retries of _send safe: no batch is written
\* twice.
AtMostOnce ==
    HistoryRetained /\ InOrder =>
        \A e, f \in Execs :
            e[1] = f[1] /\ stmt[e] = "committed" /\ stmt[f] = "committed" => e = f

\* submission_attempts of the FailedBatch counts the statement POSTs that were
\* really sent for it, through polling, cancelling and local failures.
AttemptsExact ==
    ReportsBatch =>
        failed.attempts = Cardinality({e \in posted : e[1] = Current})

\* The FailedBatch carries the latest handle that any reply to the submission
\* disclosed, even where the last reply or error had none, and it is a handle of
\* this batch and no other.
HandleKept ==
    ReportsBatch =>
        /\ failed.handle = disclosed
        /\ failed.handle # None =>
             failed.handle[1] = Current /\ stmt[failed.handle] # "none"

\* insert_batches() ends: neither retries nor polling go on for ever.
Termination == <>(pc \in {"end", "raised"})

\* What the caller of insert_batches() sees of it.
CallerView == CASE pc = "end" -> "returned"
                [] pc = "raised" -> outcome
                [] OTHER -> "open"

Progress == INSTANCE BatchProgress WITH
    written <- Durable, done <- Current, state <- CallerView

\* insert_batches() implements the promise made to its caller: batches become
\* durable one at a time in source order, a batch is confirmed only once durable,
\* and the verdict on the first unconfirmed one binds what may still happen to it.
KeepsPromise == Progress!Spec

-----------------------------------------------------------------------------
(* The inductive invariant behind these properties.                         *)

\* Every confirmed batch took at least one record, and no record is counted
\* twice.
RowsInv ==
    /\ Current <= confirmed
    /\ confirmed + Len(buf) + (IF pending = NoRow THEN 0 ELSE 1) <= consumed
    /\ consumed <= MaxInput
    /\ pc \in {"ready", "submit", "poll", "cancel"} => buf # <<>>

\* Executions come from POSTs, each POST leads to at most one, and a POST in
\* flight has led to none yet.
ServerInv ==
    /\ \A e \in Execs : stmt[e] # "none" => ran[e] = e
    /\ \A e \in Execs : ran[e] # None =>
         /\ e \in posted
         /\ ran[e][1] = e[1]
         /\ stmt[ran[e]] # "none"
    /\ \A m \in net : m.id \in posted /\ ran[m.id] = None
    /\ \A m, o \in net : m.id = o.id => m = o

\* Under the assumptions of AtMostOnce: only the first POST of a requestId lacks
\* retry=true, what is in flight was sent after everything that has run, and at
\* most one execution of a requestId is not aborted.
OnceInv ==
    HistoryRetained /\ InOrder =>
        /\ \A m \in net : ~ m.retry => m.id[2] = 1
        /\ \A m \in net, e \in Execs :
             m.id[1] = e[1] /\ stmt[e] # "none" => e[2] < m.id[2]
        /\ \A e, f \in Execs :
             /\ e[1] = f[1]
             /\ stmt[e] \in {"running", "committed"}
             /\ stmt[f] \in {"running", "committed"}
             => e = f

\* The POSTs sent for batch r are the first k.
Sent(r, k) == \A n \in 1..MaxAttempts : <<r, n>> \in posted <=> n <= k

\* Nothing is sent for a batch before its turn.
OrderInv ==
    /\ \A r \in 0..(Current - 1) : r \in Durable
    /\ \A e \in posted : e[1] <= Current
    /\ ~ ReportsBatch /\ pc \notin {"submit", "poll", "cancel"} => Sent(Current, 0)

\* The loop of _send runs only while the client waits for it.
CallInv ==
    /\ pc \notin {"submit", "poll", "cancel"} => call.stage \notin {"loop", "wait"}
    /\ call.stage = "loop" => call.attempts = call.attempt
    /\ call.stage = "wait" => call.attempts = call.attempt + 1
    /\ call.stage = "returned" => call.status \in {"ok", "running"}

\* h belongs to the batch at hand.
OwnHandle(h) == h # None => h[1] = Current /\ stmt[h] # "none"

\* The POST id ran nothing and never will.
Dead(id) == ran[id] = None /\ ~ InFlight(id)

SubmitInv ==
    pc = "submit" =>
        /\ call.op = "submit" /\ call.req = Current /\ call.stage # "idle"
        /\ Sent(Current, call.attempts)
        /\ failed = NewExecution
        /\ OwnHandle(disclosed)
        /\ call.known = disclosed \/ call.stage \in {"returned", "raised"}
        /\ call.stage \in {"returned", "raised"} => call.handle = disclosed
        /\ call.stage = "returned" => call.attempts >= 1
        /\ call.stage = "returned" /\ call.status = "ok" => Current \in Durable
        /\ call.stage = "raised" /\ call.status \in Refusals =>
             call.attempts >= 1 /\ Dead(PostId)
        /\ call.stage = "raised" /\ call.status = "sql_error" =>
             /\ call.attempts >= 1
             /\ \/ Dead(PostId)
                \/ ran[PostId] # None /\ stmt[ran[PostId]] = "aborted"

PollInv ==
    pc \in {"poll", "cancel"} =>
        /\ call.op = IF pc = "poll" THEN "get" ELSE "cancel"
        /\ call.stage # "idle"
        /\ call.target # None /\ call.target = disclosed
        /\ OwnHandle(disclosed)
        /\ call.known = None
        /\ call.handle \in {None, call.target}
        /\ failed.handle = call.target
        /\ failed.phase = "execution" /\ ~ failed.succeeded
        /\ failed.attempts >= 1
        /\ Sent(Current, failed.attempts)
        /\ call.op = "get" /\ call.stage = "returned" /\ call.status = "ok" =>
             stmt[call.target] = "committed"
        /\ call.op = "get" /\ call.stage = "raised" /\ call.status = "sql_error" =>
             stmt[call.target] = "aborted"

ReportInv ==
    /\ pc = "raised" => outcome # "none"
    /\ ReportsBatch =>
         /\ failed.handle = disclosed
         /\ OwnHandle(disclosed)
         /\ Sent(Current, failed.attempts)

Inv ==
    /\ TypeOK
    /\ RowsInv
    /\ ServerInv
    /\ OnceInv
    /\ OrderInv
    /\ CallInv
    /\ SubmitInv
    /\ PollInv
    /\ ReportInv
    /\ VerdictSound
=============================================================================
