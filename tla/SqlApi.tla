------------------------------- MODULE SqlApi -------------------------------
(***************************************************************************)
(* The Snowflake SQL API as the client meets it: an unreliable network in  *)
(* front of a service that runs statements.  None of this is code of the   *)
(* repository; it is what transport.py, batches.py and the documents       *)
(* docs/batch-writes.md and docs/submissions.md assume of the other side.  *)
(*                                                                         *)
(* A statement POST is identified by <<r, n>>: the n-th POST that carries  *)
(* the requestId r.  The execution a POST starts has the POST's own        *)
(* identity, which is also the statementHandle the service gives it.       *)
(*                                                                         *)
(*  - A POST stays in flight until the service takes it or it is           *)
(*    discarded.  The client may long have given up waiting by then.       *)
(*  - retry=true makes the service look the requestId up in its history.   *)
(*    HistoryRetained says whether that look-up is certain to find a       *)
(*    statement that runs or has succeeded.                                *)
(*  - InOrder says whether the POSTs of one requestId reach the service in *)
(*    the order in which they were sent.                                   *)
(***************************************************************************)
EXTENDS Naturals, FiniteSets

CONSTANTS MaxRequests,       \* bound on the number of requestIds
          MaxAttempts,       \* POSTs that one requestId is sent in: where it is
                             \* submitted once, RetryPolicy.max_attempts
          HistoryRetained,
          InOrder

ASSUME SqlApiAssumption ==
    /\ MaxRequests \in Nat \ {0}
    /\ MaxAttempts \in Nat
    /\ HistoryRetained \in BOOLEAN
    /\ InOrder \in BOOLEAN

VARIABLES net,        \* statement POSTs in flight
          ran,        \* ran[<<r, n>>]: the execution that POST was given, or None
          stmt,       \* stmt[e]: what has become of the execution e
          cancels     \* executions for which a cancel request is in flight

serverVars == <<net, ran, stmt, cancels>>

Requests == 0..(MaxRequests - 1)
Execs == Requests \X (1..MaxAttempts)
None == <<0, 0>>                          \* no statementHandle
Handles == Execs \cup {None}

Post(id, retry) == [id |-> id, retry |-> retry]

\* What a reply's status code means to the client: 200, 202, 422, one of 400, 401
\* and 403, one of RetryPolicy.retry_statuses, any other code.
Refusals == {"bad_request", "unauthorized", "forbidden"}
Statuses == {"ok", "running", "sql_error", "transient", "other"} \cup Refusals

ServerTypeOK ==
    /\ net \subseteq [id : Execs, retry : BOOLEAN]
    /\ ran \in [Execs -> Handles]
    /\ stmt \in [Execs -> {"none", "running", "committed", "aborted"}]
    /\ cancels \subseteq Execs

ServerInit ==
    /\ net = {}
    /\ ran = [e \in Execs |-> None]
    /\ stmt = [e \in Execs |-> "none"]
    /\ cancels = {}

InFlight(id) == \E m \in net : m.id = id

-----------------------------------------------------------------------------
\* Executions that the service has on record for requestId r.
History(r) == {e \in Execs : e[1] = r /\ stmt[e] # "none"}

\* It is m's turn: nothing sent earlier under the same requestId is in flight.
Turn(m) == InOrder => \A o \in net : o.id[1] = m.id[1] => m.id[2] <= o.id[2]

\* The service takes the POST m and runs it as a new statement.
Start(m) ==
    /\ m \in net
    /\ Turn(m)
    /\ ~ /\ m.retry
         /\ HistoryRetained
         /\ \E e \in History(m.id[1]) : stmt[e] # "aborted"
    /\ net' = net \ {m}
    /\ ran' = [ran EXCEPT ![m.id] = m.id]
    /\ stmt' = [stmt EXCEPT ![m.id] = "running"]
    /\ UNCHANGED cancels

\* The service recognises the resubmission m and attaches it to a statement it
\* already has.
Recall(m) ==
    /\ m \in net
    /\ Turn(m)
    /\ m.retry
    /\ \E e \in History(m.id[1]) :
         /\ HistoryRetained =>
              \/ stmt[e] # "aborted"
              \/ \A o \in History(m.id[1]) : stmt[o] = "aborted"
         /\ ran' = [ran EXCEPT ![m.id] = e]
    /\ net' = net \ {m}
    /\ UNCHANGED <<stmt, cancels>>

\* The POST m is lost, or refused before anything runs: it never executes.
Discard(m) ==
    /\ m \in net
    /\ net' = net \ {m}
    /\ UNCHANGED <<ran, stmt, cancels>>

\* A running statement ends, in its own time.
Finish(e) ==
    /\ stmt[e] = "running"
    /\ \E s \in {"committed", "aborted"} : stmt' = [stmt EXCEPT ![e] = s]
    /\ UNCHANGED <<net, ran, cancels>>

\* A cancel request arrives; it stops a statement that still runs.
TakeCancel(e) ==
    /\ e \in cancels
    /\ cancels' = cancels \ {e}
    /\ stmt' = [stmt EXCEPT ![e] = IF @ = "running" THEN "aborted" ELSE @]
    /\ UNCHANGED <<net, ran>>

LoseCancel(e) ==
    /\ e \in cancels
    /\ cancels' = cancels \ {e}
    /\ UNCHANGED <<net, ran, stmt>>

ServerNext ==
    \/ \E m \in net : Start(m) \/ Recall(m) \/ Discard(m)
    \/ \E e \in Execs : Finish(e) \/ TakeCancel(e) \/ LoseCancel(e)

-----------------------------------------------------------------------------
(* What the client may be told.  A reply can be late, so "running" may       *)
(* describe a statement that has finished since; "ok" and "sql_error"       *)
(* describe a final state.  A refusal says that this POST ran nothing.  Any *)
(* other code says nothing, and a gateway may send it while the POST is     *)
(* still on its way.                                                        *)

MayAnswerPost(id, s, h) ==
    /\ s \in Statuses
    /\ h \in {None, ran[id]}
    /\ s = "ok" => ran[id] # None /\ stmt[ran[id]] = "committed"
    /\ s = "running" => ran[id] # None
    /\ s = "sql_error" => IF ran[id] = None THEN ~ InFlight(id)
                                            ELSE stmt[ran[id]] = "aborted"
    /\ s \in Refusals => ran[id] = None /\ ~ InFlight(id)

MayAnswerGet(e, s, h) ==
    /\ s \in Statuses
    /\ h \in {None, e}
    /\ s = "ok" => stmt[e] = "committed"
    /\ s = "running" => stmt[e] # "none"
    /\ s = "sql_error" => stmt[e] = "aborted"

\* What a cancel is answered with depends on nothing the client goes on to use.
MayAnswerCancel(e, s, h) ==
    /\ s \in Statuses
    /\ h \in {None, e}
=============================================================================
