--------------------------- MODULE StatementPoll ---------------------------
(***************************************************************************)
(* client.py and aclient.py: how a call waits for its statement (query,    *)
(* execute and the others that submit one themselves, and result() of a    *)
(* QueryHandle), when it has the statement cancelled, and what a           *)
(* cancellation of the waiting task does.  Several such calls share one    *)
(* client.                                                                 *)
(*                                                                         *)
(* A call of the transport is one wait: Transport.tla has its inside.  The *)
(* answer reaches the caller in a step of its own, and task.cancel() can   *)
(* come between the two; asyncio then drops the answer and raises          *)
(* CancelledError instead.                                                 *)
(***************************************************************************)

CONSTANT Polls              \* the calls

VARIABLES style,            \* "sync" or "async": which of the two clients
          owned,            \* owned[p]: the cancel_on_timeout of the call p
          poll,             \* poll[p]: the state of the call p
          ctask,            \* ctask[p]: the task of _cancel_after_task_cancel
          grace,            \* grace[p]: its deadline has passed
          abandoned,        \* _abandoned_cancels
          closed,           \* the HTTP client is closed
          stmt,             \* stmt[p]: the statement of p, at the service
          requested,        \* calls that have called transport.cancel()
          took              \* calls whose cancel request the service took

clientVars == <<style, owned, closed>>
cancelVars == <<ctask, grace, abandoned>>
serviceVars == <<stmt, took>>
vars == <<clientVars, poll, cancelVars, serviceVars, requested>>

(* pc         the first request (POST of the statement, or GET by the owner  *)
(*            of a handle) / GET of _poll / its sleep / the cancel after a   *)
(*            timeout / _cancel_after_task_cancel / over                     *)
(* reply      what the transport's call has come to, before p sees it        *)
(* deadline   of _poll: not yet taken, ahead, or past                        *)
(* cancelled  task.cancel() was called and CancelledError is still to come   *)
(* asked      history: task.cancel() was called before the call was over     *)
(* result     what the caller gets                                           *)
(* note       on the SnowflakeTimeoutError: nothing, "cancellation           *)
(*            requested", or the cancel_error                                *)
Poll == [pc : {"first", "get", "sleep", "cancel", "drain", "over"},
         reply : {"none", "running", "ok", "error"},
         deadline : {"unset", "ahead", "past"},
         cancelled : BOOLEAN,
         asked : BOOLEAN,
         result : {"none", "response", "error", "not_ready", "timeout",
                   "cancelled", "interrupted"},
         note : {"none", "requested", "failed"}]

TypeOK ==
    /\ style \in {"sync", "async"}
    /\ owned \in [Polls -> BOOLEAN]
    /\ poll \in [Polls -> Poll]
    /\ ctask \in [Polls -> {"none", "running", "cancelling", "done", "settled"}]
    /\ grace \in [Polls -> BOOLEAN]
    /\ abandoned \in SUBSET Polls
    /\ closed \in BOOLEAN
    /\ stmt \in [Polls -> {"none", "running", "over"}]
    /\ requested \in SUBSET Polls
    /\ took \in SUBSET Polls
    /\ \A p \in Polls :
         /\ poll[p].pc = "over" <=> poll[p].result # "none"
         /\ poll[p].pc \in {"sleep", "drain", "over"} => poll[p].reply = "none"
         /\ poll[p].pc = "drain" => ctask[p] # "none"

NewPoll == [pc |-> "first", reply |-> "none", deadline |-> "unset",
            cancelled |-> FALSE, asked |-> FALSE, result |-> "none",
            note |-> "none"]

Init ==
    /\ style \in {"sync", "async"}
    /\ owned \in [Polls -> BOOLEAN]
    /\ poll = [p \in Polls |-> NewPoll]
    /\ ctask = [p \in Polls |-> "none"]
    /\ grace = [p \in Polls |-> FALSE]
    /\ abandoned = {}
    /\ closed = FALSE
    /\ stmt = [p \in Polls |-> IF owned[p] THEN "none" ELSE "running"]
    /\ requested = {}
    /\ took = {}

-----------------------------------------------------------------------------
(* The service, and the calls of the transport.                             *)

Execute(p) ==
    /\ stmt[p] = "none"
    /\ stmt' = [stmt EXCEPT ![p] = "running"]
    /\ UNCHANGED <<clientVars, poll, cancelVars, requested, took>>

Finish(p) ==
    /\ stmt[p] = "running"
    /\ stmt' = [stmt EXCEPT ![p] = "over"]
    /\ UNCHANGED <<clientVars, poll, cancelVars, requested, took>>

TakeCancel(p) ==
    /\ p \in requested
    /\ took' = took \cup {p}
    /\ stmt' = [stmt EXCEPT ![p] = "over"]
    /\ UNCHANGED <<clientVars, poll, cancelVars, requested>>

\* 202 for a statement that was there, 200 for one that is over or a cancel that
\* was taken, and anything can fail.
MayReply(p, r) ==
    /\ r = "running" => poll[p].pc # "cancel" /\ stmt[p] # "none"
    /\ r = "ok" => IF poll[p].pc = "cancel" THEN p \in took ELSE stmt[p] = "over"

\* The transport's call ends.
Answer(p) ==
    /\ poll[p].pc \in {"first", "get", "cancel"}
    /\ poll[p].reply = "none"
    /\ \E r \in {"running", "ok", "error"} :
         /\ MayReply(p, r)
         /\ poll' = [poll EXCEPT ![p].reply = r]
    /\ UNCHANGED <<clientVars, cancelVars, serviceVars, requested>>

-----------------------------------------------------------------------------
(* The steps of a call.                                                      *)

\* p resumes with the reply r of the call it made at w.
Resumes(p, w, r) ==
    /\ poll[p].pc = w
    /\ poll[p].reply = r
    /\ ~ poll[p].cancelled

\* Mutant: the answer before is still there in the next turn.
GotoStale(p, w) == poll' = [poll EXCEPT ![p].pc = w]

Goto(p, w) == poll' = [poll EXCEPT ![p].pc = w, ![p].reply = "none"]

Leave(p, res, n) ==
    poll' = [poll EXCEPT ![p].pc = "over", ![p].reply = "none",
                         ![p].result = res, ![p].note = n,
                         ![p].cancelled = FALSE]

\* _prepare_result() of a 202: _poll() starts, or ResultNotReady for
\* result(poll=False), or the response names no handle.
FirstRunning(p) ==
    /\ Resumes(p, "first", "running")
    /\ \/ poll' = [poll EXCEPT ![p].pc = "get", ![p].reply = "none",
                               ![p].deadline = "ahead"]
       \/ ~ owned[p] /\ Leave(p, "not_ready", "none")
       \/ Leave(p, "error", "none")
    /\ UNCHANGED <<clientVars, cancelVars, serviceVars, requested>>

\* A 200 is the response; _prepare_result() may find no handle or no valid
\* columns in it.
Finished(p) ==
    /\ Resumes(p, "first", "ok") \/ Resumes(p, "get", "ok")
    /\ Leave(p, "response", "none") \/ Leave(p, "error", "none")
    /\ UNCHANGED <<clientVars, cancelVars, serviceVars, requested>>

\* The error of a POST or a GET propagates as it is.
Fails(p) ==
    /\ Resumes(p, "first", "error") \/ Resumes(p, "get", "error")
    /\ Leave(p, "error", "none")
    /\ UNCHANGED <<clientVars, cancelVars, serviceVars, requested>>

StillRunning(p) ==
    /\ Resumes(p, "get", "running")
    /\ poll[p].deadline = "ahead"
    /\ Goto(p, "sleep")
    /\ UNCHANGED <<clientVars, cancelVars, serviceVars, requested>>

WakeUp(p) ==
    /\ Resumes(p, "sleep", "none")
    /\ Goto(p, "get")
    /\ UNCHANGED <<clientVars, cancelVars, serviceVars, requested>>

\* Mutant: every timeout has the statement cancelled.
TimesOutCancelling(p) ==
    /\ Resumes(p, "get", "running")
    /\ poll[p].deadline = "past"
    /\ Goto(p, "cancel")
    /\ requested' = requested \cup {p}
    /\ UNCHANGED <<clientVars, cancelVars, serviceVars>>

\* Running, and the deadline is past: SnowflakeTimeoutError, after a cancel
\* request if nobody else holds the handle.
TimesOut(p) ==
    /\ Resumes(p, "get", "running")
    /\ poll[p].deadline = "past"
    /\ IF owned[p]
         THEN /\ Goto(p, "cancel")
              /\ requested' = requested \cup {p}
         ELSE /\ Leave(p, "timeout", "none")
              /\ UNCHANGED requested
    /\ UNCHANGED <<clientVars, cancelVars, serviceVars>>

\* Mutant: the failure of the cancel request is not recorded.
CancelAnsweredUnrecorded(p) ==
    /\ Resumes(p, "cancel", "ok") \/ Resumes(p, "cancel", "error")
    /\ Leave(p, "timeout", "requested")
    /\ UNCHANGED <<clientVars, cancelVars, serviceVars, requested>>

CancelAnswered(p) ==
    /\ \/ Resumes(p, "cancel", "ok") /\ Leave(p, "timeout", "requested")
       \/ Resumes(p, "cancel", "error") /\ Leave(p, "timeout", "failed")
    /\ UNCHANGED <<clientVars, cancelVars, serviceVars, requested>>

DeadlinePasses(p) ==
    /\ poll[p].pc # "over"
    /\ poll[p].deadline = "ahead"
    /\ poll' = [poll EXCEPT ![p].deadline = "past"]
    /\ UNCHANGED <<clientVars, cancelVars, serviceVars, requested>>

\* KeyboardInterrupt in the synchronous client: no cancel request.
Interrupt(p) ==
    /\ style = "sync"
    /\ poll[p].pc # "over"
    /\ Leave(p, "interrupted", "none")
    /\ UNCHANGED <<clientVars, cancelVars, serviceVars, requested>>

-----------------------------------------------------------------------------
(* Task cancellation, in the asynchronous client.                           *)

\* task.cancel(), by anyone, any number of times.
TaskCancel(p) ==
    /\ style = "async"
    /\ poll[p].pc # "over"
    /\ ~ poll[p].cancelled
    /\ poll' = [poll EXCEPT ![p].cancelled = TRUE, ![p].asked = TRUE]
    /\ UNCHANGED <<clientVars, cancelVars, serviceVars, requested>>

\* Mutant: a CancelledError in the cancel after a timeout counts as its failure.
DeliverSwallowed(p) ==
    /\ poll[p].cancelled
    /\ poll[p].pc = "cancel"
    /\ Leave(p, "timeout", "failed")
    /\ UNCHANGED <<clientVars, cancelVars, serviceVars, requested>>

\* CancelledError outside _poll(), or for a handle that is somebody else's.
Deliver(p) ==
    /\ poll[p].cancelled
    /\ poll[p].pc # "drain"
    /\ poll[p].pc = "first" \/ ~ owned[p]
    /\ Leave(p, "cancelled", "none")
    /\ UNCHANGED <<clientVars, cancelVars, serviceVars, requested>>

\* CancelledError in _poll(): the cancel request goes into a task of its own,
\* also where it cuts off the cancel after a timeout.
DeliverInPoll(p) ==
    /\ poll[p].cancelled
    /\ poll[p].pc \in {"get", "sleep", "cancel"}
    /\ owned[p]
    /\ poll' = [poll EXCEPT ![p].pc = "drain", ![p].reply = "none",
                            ![p].cancelled = FALSE]
    /\ ctask' = [ctask EXCEPT ![p] = "running"]
    /\ requested' = requested \cup {p}
    /\ UNCHANGED <<clientVars, serviceVars, grace, abandoned>>

Unfinished(p) == ctask[p] \in {"running", "cancelling"}

\* The request is through or has failed: the first CancelledError goes on.
Drained(p) ==
    /\ poll[p].pc = "drain"
    /\ ~ Unfinished(p)
    /\ Leave(p, "cancelled", "none")
    /\ UNCHANGED <<clientVars, cancelVars, serviceVars, requested>>

\* Mutant: a second CancelledError ends the wait.
AbsorbLeaves(p) ==
    /\ poll[p].pc = "drain"
    /\ Unfinished(p)
    /\ ~ grace[p]
    /\ poll[p].cancelled
    /\ Leave(p, "cancelled", "none")
    /\ UNCHANGED <<clientVars, cancelVars, serviceVars, requested>>

\* Mutant: each turn of the loop waits for five more seconds.
AbsorbRenews(p) ==
    /\ poll[p].pc = "drain"
    /\ Unfinished(p)
    /\ poll[p].cancelled
    /\ poll' = [poll EXCEPT ![p].cancelled = FALSE]
    /\ grace' = [grace EXCEPT ![p] = FALSE]
    /\ UNCHANGED <<clientVars, ctask, abandoned, serviceVars, requested>>

\* A further cancellation while the request may still take its time.
Absorb(p) ==
    /\ poll[p].pc = "drain"
    /\ Unfinished(p)
    /\ ~ grace[p]
    /\ poll[p].cancelled
    /\ poll' = [poll EXCEPT ![p].cancelled = FALSE]
    /\ UNCHANGED <<clientVars, cancelVars, serviceVars, requested>>

\* Mutant: nothing holds on to the task that is left behind.
AbandonUnheld(p) ==
    /\ poll[p].pc = "drain"
    /\ Unfinished(p)
    /\ grace[p]
    /\ ctask' = [ctask EXCEPT ![p] = "cancelling"]
    /\ Leave(p, "cancelled", "none")
    /\ UNCHANGED <<clientVars, grace, abandoned, serviceVars, requested>>

\* Five seconds are over: the request is cancelled and left behind.
Abandon(p) ==
    /\ poll[p].pc = "drain"
    /\ Unfinished(p)
    /\ grace[p]
    /\ abandoned' = abandoned \cup {p}
    /\ ctask' = [ctask EXCEPT ![p] = "cancelling"]
    /\ Leave(p, "cancelled", "none")
    /\ UNCHANGED <<clientVars, grace, serviceVars, requested>>

GraceEnds(p) ==
    /\ poll[p].pc = "drain"
    /\ ~ grace[p]
    /\ grace' = [grace EXCEPT ![p] = TRUE]
    /\ UNCHANGED <<clientVars, poll, ctask, abandoned, serviceVars, requested>>

\* The task with the cancel request ends, one way or another, or never does.
RequestEnds(p) ==
    /\ Unfinished(p)
    /\ ctask' = [ctask EXCEPT ![p] = "done"]
    /\ UNCHANGED <<clientVars, poll, grace, abandoned, serviceVars, requested>>

\* _settle_cancel(), the done-callback of that task.
Settle(p) ==
    /\ ctask[p] = "done"
    /\ ctask' = [ctask EXCEPT ![p] = "settled"]
    /\ abandoned' = abandoned \ {p}
    /\ UNCHANGED <<clientVars, poll, grace, serviceVars, requested>>

-----------------------------------------------------------------------------
\* The client's context manager ends when the calls made in it have ended.
Close ==
    /\ \A p \in Polls : poll[p].pc = "over"
    /\ ~ closed
    /\ closed' = TRUE
    /\ UNCHANGED <<style, owned, poll, cancelVars, serviceVars, requested>>

Service(p) == Execute(p) \/ Finish(p) \/ TakeCancel(p)

\* What the thread or the event loop does for the call p.
Step(p) ==
    \/ FirstRunning(p) \/ Finished(p) \/ Fails(p)
    \/ StillRunning(p) \/ WakeUp(p) \/ TimesOut(p) \/ CancelAnswered(p)
    \/ Deliver(p) \/ DeliverInPoll(p)
    \/ Drained(p) \/ Absorb(p) \/ Abandon(p)

Next ==
    \/ \E p \in Polls :
         \/ Service(p) \/ Answer(p) \/ Step(p)
         \/ DeadlinePasses(p) \/ GraceEnds(p)
         \/ Interrupt(p) \/ TaskCancel(p)
         \/ RequestEnds(p) \/ Settle(p)
    \/ Close

Spec == Init /\ [][Next]_vars

(* Fairness.  A call of the transport made by p itself ends (HTTPX bounds    *)
(* each attempt, RetryPolicy their number), the thread or the event loop     *)
(* runs p, and the two timers go off.  Nothing is assumed of the service,    *)
(* nor of the task with the cancel request, which may stall for ever.        *)
LiveSpec ==
    /\ Spec
    /\ \A p \in Polls : /\ WF_vars(Answer(p))
                        /\ WF_vars(Step(p))
                        /\ WF_vars(DeadlinePasses(p))
                        /\ WF_vars(GraceEnds(p))

-----------------------------------------------------------------------------
Over(p) == poll[p].pc = "over"

\* A statement is cancelled for a timeout or a task cancellation only by the call
\* that started it, and such a call never gives up a statement whose handle it
\* knows without asking for its cancellation.  result() leaves it alone.
CancelsOwnStatements ==
    \A p \in Polls :
        /\ p \in requested =>
             owned[p] /\ (poll[p].deadline = "past" \/ poll[p].asked)
        /\ /\ owned[p]
           /\ poll[p].deadline # "unset"
           /\ poll[p].result \in {"timeout", "cancelled"}
           => p \in requested

\* A task cancellation is never lost: the call it hits ends in CancelledError,
\* whichever answer, timeout or further cancellation it races with, and no other
\* call does.
CancellationKept ==
    \A p \in Polls : Over(p) => (poll[p].asked <=> poll[p].result = "cancelled")

\* The caller gets control back, and may close the HTTP client, only when the
\* cancel request is over or was told to stop after its five seconds.
ClientOutlivesCancel ==
    /\ closed => \A p \in Polls : ctask[p] # "running"
    /\ \A p \in Polls : Over(p) /\ ctask[p] = "cancelling" => grace[p]

\* A cancel request that is not over is referred to by the call that waits for it
\* or by _abandoned_cancels, so the event loop's weak reference is not the only
\* one; and what is settled does not stay in the set.
AbandonedHeld ==
    \A p \in Polls :
        /\ Unfinished(p) => poll[p].pc = "drain" \/ p \in abandoned
        /\ p \in abandoned => ctask[p] \in {"cancelling", "done"}

\* What the caller is told is true.  After a SnowflakeTimeoutError the wait was over,
\* and where it says that cancellation was requested the service has taken the
\* request; a response is that of a finished statement, never the body of a 202.
ResultHonest ==
    \A p \in Polls :
        /\ poll[p].result = "timeout" =>
              /\ poll[p].deadline = "past"
              /\ poll[p].note = "requested" => p \in took
              /\ poll[p].note = "none" <=> ~ owned[p]
        /\ poll[p].result = "response" => stmt[p] = "over"

(* The inductive strengthening.                                             *)

\* Where a call is goes with what it has of a deadline and of an answer.
PlaceInv(p) ==
    /\ poll[p].pc = "first" => poll[p].deadline = "unset"
    /\ poll[p].pc \in {"get", "sleep", "cancel", "drain"} => poll[p].deadline # "unset"
    /\ poll[p].pc = "cancel" => poll[p].deadline = "past"
    /\ poll[p].reply = "ok" =>
         IF poll[p].pc = "cancel" THEN p \in took ELSE stmt[p] = "over"

\* The cancel requests: made by the owner, for a reason; made by the time the call
\* is at them; by a task of their own only where a task cancellation was delivered.
RequestInv(p) ==
    /\ p \in requested => owned[p] /\ (poll[p].deadline = "past" \/ poll[p].asked)
    /\ poll[p].pc \in {"cancel", "drain"} \/ ctask[p] # "none" => p \in requested
    /\ ctask[p] # "none" => poll[p].pc \in {"drain", "over"}
    /\ ctask[p] = "running" => poll[p].pc = "drain"
    /\ ctask[p] = "cancelling" => Over(p) /\ grace[p] /\ p \in abandoned
    /\ p \in abandoned => ctask[p] \in {"cancelling", "done"}

\* A task cancellation is still to be delivered, or being seen to, until the call
\* is over; there is none in the synchronous client.
AskedInv(p) ==
    /\ poll[p].cancelled => poll[p].asked /\ ~ Over(p)
    /\ poll[p].asked => style = "async"
    /\ ~ Over(p) => (poll[p].asked <=> poll[p].cancelled \/ poll[p].pc = "drain")

Inv ==
    /\ TypeOK
    /\ closed => \A p \in Polls : Over(p)
    /\ \A p \in Polls : PlaceInv(p) /\ RequestInv(p) /\ AskedInv(p)
    /\ CancelsOwnStatements
    /\ CancellationKept
    /\ ResultHonest

\* Every call ends, even if its statement never does, the cancel request hangs
\* and its task is cancelled again and again.
Termination == \A p \in Polls : <>Over(p)
=============================================================================
