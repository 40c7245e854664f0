---------------------------- MODULE Submissions ----------------------------
(***************************************************************************)
(* client.py: submit(), resubmit() and _submit_handle, the entry points    *)
(* whose requestId the application owns, used as docs/submissions.md and   *)
(* tests/smoke/test_submissions.py use them: a worker stores the id before *)
(* it submits, may die at any moment, and a later worker that finds no     *)
(* handle in the store resubmits under the stored id.  An application that *)
(* stores nothing lets submit() generate the id, learns it from the handle *)
(* or from the SnowflakeError, and has no second worker.                   *)
(*                                                                         *)
(* The POSTs of one requestId come from several calls, so that they are    *)
(* numbered over the life of the id and not within a call.  Everything     *)
(* else is the loop of Transport._send with async=true.                    *)
(***************************************************************************)
EXTENDS SqlApi

CONSTANTS Tries,       \* RetryPolicy.max_attempts
          MaxLives     \* bound on the workers that take up the job

ASSUME SubmissionsAssumption ==
    /\ Tries \in Nat \ {0}
    /\ MaxLives \in Nat

VARIABLES job,       \* what the store holds of the one job there is
          worker,    \* what the present worker holds in memory
          posts      \* posts[r]: statement POSTs sent so far under requestId r

vars == <<job, worker, posts, serverVars>>

NoRequest == MaxRequests                      \* no requestId
Ids == Requests \cup {NoRequest}

(* durable   whether the application stores the id before it submits        *)
(* request   the requestId stored; handle, the statementHandle stored       *)
(* named     history: the reply that ended the submission named the handle  *)
(* outcome   what the application takes to have become of the job           *)
Job == [durable : BOOLEAN,
        request : Ids,
        handle : Handles,
        named : BOOLEAN,
        outcome : {"open", "done", "failed"}]

(* stage     no worker / nothing submitted yet / top of the loop of _send / *)
(*           POST sent / the call raised a SnowflakeError / it raised       *)
(*           another exception / it returned a QueryHandle                  *)
(* life      how many workers there have been                               *)
(* id        the requestId the application knows                            *)
(* request   canonical_id of the call                                       *)
(* turn, retry, known    attempt, params["retry"] and known_handle of _send *)
(* handle    QueryHandle.statement_handle; named as in Job                  *)
Worker == [stage : {"down", "new", "loop", "wait", "raised", "lost", "handle"},
           life : 0..MaxLives,
           id : Ids,
           request : Ids,
           turn : 0..Tries,
           retry : BOOLEAN,
           known : Handles,
           handle : Handles,
           named : BOOLEAN]

TypeOK ==
    /\ job \in Job
    /\ worker \in Worker
    /\ posts \in [Requests -> 0..MaxAttempts]
    /\ ServerTypeOK

Memory(stage, life, id, handle, named) ==
    [stage |-> stage, life |-> life, id |-> id, request |-> NoRequest,
     turn |-> 0, retry |-> FALSE, known |-> None, handle |-> handle,
     named |-> named]

Init ==
    /\ job \in {j \in Job : /\ j.request = NoRequest
                            /\ j.handle = None
                            /\ ~ j.named
                            /\ j.outcome = "open"}
    /\ worker = Memory("down", 0, NoRequest, None, FALSE)
    /\ posts = [r \in Requests |-> 0]
    /\ ServerInit

\* uuid.uuid4(): an id that nothing has used.
Fresh(r) == r \in Requests /\ posts[r] = 0 /\ job.request # r

-----------------------------------------------------------------------------
(* The application.                                                         *)

\* A worker starts from what the store holds.
Boot ==
    /\ worker.stage = "down"
    /\ worker.life < MaxLives
    /\ job.outcome = "open"
    /\ worker.life > 0 => job.durable
    /\ worker' = Memory(IF job.request = NoRequest THEN "new"
                        ELSE IF job.handle = None THEN "raised" ELSE "handle",
                        worker.life + 1, job.request, job.handle, job.named)
    /\ UNCHANGED <<job, posts, serverVars>>

\* The worker dies, and its client with it.
Crash ==
    /\ worker.stage # "down"
    /\ worker' = Memory("down", worker.life, NoRequest, None, FALSE)
    /\ UNCHANGED <<job, posts, serverVars>>

\* persist_job: the id is committed before the first POST.
PersistJob ==
    /\ worker.stage = "new"
    /\ job.durable
    /\ job.request = NoRequest
    /\ \E r \in Requests :
         /\ Fresh(r)
         /\ job' = [job EXCEPT !.request = r]
         /\ worker' = [worker EXCEPT !.id = r]
    /\ UNCHANGED <<posts, serverVars>>

\* persist_handle.
PersistHandle ==
    /\ worker.stage = "handle"
    /\ job.handle = None
    /\ job' = [job EXCEPT !.handle = worker.handle, !.named = worker.named,
                          !.request = worker.id]
    /\ UNCHANGED <<worker, posts, serverVars>>

-----------------------------------------------------------------------------
(* submit, resubmit and _submit_handle.                                     *)

\* Mutant: resubmit() without a stored handle allocates an id like submit().
SubmissionIdFresh(given, retry, r) ==
    IF given = NoRequest \/ retry THEN Fresh(r) ELSE r = given

\* The canonical id r of a call that was given the id `given': a new one where
\* none was given, which only submit() accepts.
SubmissionId(given, retry, r) ==
    IF given = NoRequest THEN ~ retry /\ Fresh(r) ELSE r = given

Enter(retry, r) ==
    worker' = [worker EXCEPT !.stage = "loop", !.request = r, !.turn = 0,
                             !.retry = retry, !.known = None]

submit ==
    /\ worker.stage = "new"
    /\ job.durable => worker.id # NoRequest
    /\ \E r \in Requests : SubmissionId(worker.id, FALSE, r) /\ Enter(FALSE, r)
    /\ UNCHANGED <<job, posts, serverVars>>

\* Mutant: resubmit() leaves retry=true to the HTTP retries.
resubmitUnmarked ==
    /\ worker.stage \in {"raised", "lost"}
    /\ \E r \in Requests : SubmissionId(worker.id, TRUE, r) /\ Enter(FALSE, r)
    /\ UNCHANGED <<job, posts, serverVars>>

resubmit ==
    /\ worker.stage \in {"raised", "lost"}
    /\ \E r \in Requests : SubmissionId(worker.id, TRUE, r) /\ Enter(TRUE, r)
    /\ UNCHANGED <<job, posts, serverVars>>

\* An exception that is no SnowflakeError leaves the call and carries no id:
\* on_query's, a reply that cannot be decoded, the cancellation of the task.
Unidentified ==
    /\ worker.stage \in {"loop", "wait"}
    /\ worker' = [worker EXCEPT !.stage = "lost"]
    /\ UNCHANGED <<job, posts, serverVars>>

\* Mutant: the SnowflakeError goes out as the transport raised it.
IdentifiedWithout == worker' = [worker EXCEPT !.stage = "raised"]

\* A SnowflakeError leaves the call with the id on it.
Identified == worker' = [worker EXCEPT !.stage = "raised", !.id = worker.request]

\* Binding a parameter fails, or signing the token, or max_attempts is used up.
FailsUnsent ==
    /\ worker.stage = "loop"
    /\ Identified
    /\ UNCHANGED <<job, posts, serverVars>>

Flag == worker.retry \/ worker.turn > 0
PostId == <<worker.request, posts[worker.request]>>

\* A turn of the loop sends the POST; MaxAttempts bounds the POSTs of an id.
Attempt ==
    /\ worker.stage = "loop"
    /\ worker.turn < Tries
    /\ posts[worker.request] < MaxAttempts
    /\ posts' = [posts EXCEPT ![worker.request] = @ + 1]
    /\ net' = net \cup {Post(<<worker.request, posts'[worker.request]>>, Flag)}
    /\ worker' = [worker EXCEPT !.stage = "wait", !.retry = Flag]
    /\ UNCHANGED <<job, ran, stmt, cancels>>

\* httpx.TransportError.
NoReply ==
    /\ worker.stage = "wait"
    /\ worker' = [worker EXCEPT !.stage = "loop", !.turn = @ + 1]
    /\ UNCHANGED <<job, posts, serverVars>>

\* A status in retry_statuses.
RetryReply(h) ==
    /\ worker.stage = "wait"
    /\ MayAnswerPost(PostId, "transient", h)
    /\ worker' = [worker EXCEPT !.stage = "loop", !.turn = @ + 1,
                                !.known = IF h # None THEN h ELSE @]
    /\ UNCHANGED <<job, posts, serverVars>>

\* The final reply: a QueryHandle if it, or a retryable reply before it, names
\* the statement.
FinalReply(s, h) ==
    /\ worker.stage = "wait"
    /\ s # "transient"
    /\ MayAnswerPost(PostId, s, h)
    /\ LET handle == IF h # None THEN h ELSE worker.known
       IN IF s \in {"ok", "running"} /\ handle # None
            THEN worker' = [worker EXCEPT !.stage = "handle", !.handle = handle,
                                          !.named = h # None,
                                          !.id = worker.request]
            ELSE Identified
    /\ UNCHANGED <<job, posts, serverVars>>

\* handle.result() ends with rows or with the statement's error, and the
\* application writes down which (mark_done).  Any other end of result() tells
\* the application nothing.
result(s) ==
    /\ worker.stage = "handle"
    /\ job.handle # None
    /\ job.outcome = "open"
    /\ MayAnswerGet(job.handle, s, None)
    /\ s \in {"ok", "sql_error"}
    /\ job' = [job EXCEPT !.outcome = IF s = "ok" THEN "done" ELSE "failed"]
    /\ UNCHANGED <<worker, posts, serverVars>>

\* handle.cancel(), whatever it is answered.
cancel ==
    /\ worker.stage = "handle"
    /\ cancels' = cancels \cup {worker.handle}
    /\ UNCHANGED <<job, worker, posts, net, ran, stmt>>

ClientNext ==
    \/ submit
    \/ resubmit
    \/ Unidentified
    \/ FailsUnsent
    \/ Attempt
    \/ NoReply
    \/ \E h \in Handles : RetryReply(h)
    \/ \E s \in Statuses, h \in Handles : FinalReply(s, h)
    \/ \E s \in Statuses : result(s)
    \/ cancel

Next ==
    \/ Boot
    \/ Crash
    \/ PersistJob
    \/ PersistHandle
    \/ ClientNext
    \/ ServerNext /\ UNCHANGED <<job, worker, posts>>

Spec == Init /\ [][Next]_vars

-----------------------------------------------------------------------------
Effective == {e \in Execs : stmt[e] \in {"running", "committed"}}

\* However often the worker dies or its calls fail, and whatever was delayed or
\* lost, the service has the statement in at most one execution that runs or has
\* succeeded.  It rests on retry=true from the second POST of an id on, over the
\* lives of the workers, on there being no second id, and on the service: it
\* must remember its statements and take an id's POSTs in order.
AtMostOnce == Cardinality(Effective) <= 1

\* What the application has written down of its job is true and stays so, whatever
\* is still on its way.  A job that is done has been executed to its end under the id
\* the store holds.  For one that has failed nothing runs, and no POST is under way
\* that could still start it; the exception is a handle that _send put in for one that
\* the final reply lacks: it may be that of an earlier POST, whose statement has failed
\* while a later one runs.  It rests on the service as AtMostOnce does.
OutcomeTrue ==
    /\ job.outcome = "done" =>
          \E e \in Execs : e[1] = job.request /\ stmt[e] = "committed"
    /\ job.outcome = "failed" /\ job.named => Effective = {} /\ net = {}

-----------------------------------------------------------------------------
(* The inductive invariant behind these properties.                         *)

\* The POSTs of r are numbered from 1, and r is the only id that has any.
Solely(r) == \A o \in Requests : posts[o] > 0 => o = r
Unused == \A r \in Requests : posts[r] = 0

\* Executions come from POSTs, each POST leads to at most one, and a POST in
\* flight has led to none yet.
ServerInv ==
    /\ \A e \in Execs : stmt[e] # "none" => ran[e] = e
    /\ \A e \in Execs : ran[e] # None =>
         /\ e[2] <= posts[e[1]]
         /\ ran[e][1] = e[1]
         /\ stmt[ran[e]] # "none"
    /\ \A m \in net : m.id[2] <= posts[m.id[1]] /\ ran[m.id] = None
    /\ \A m, o \in net : m.id = o.id => m = o

\* There is no second id: what the store, the worker and the call know is the id of
\* all POSTs.  The application that stores nothing knows it too once a call has ended in
\* a SnowflakeError or a handle, whatever the POSTs came to.
IdInv ==
    /\ \E r \in Requests : Solely(r)
    /\ worker.life = 0 => worker.stage = "down" /\ job.request = NoRequest /\ Unused
    /\ worker.stage = "new" => Unused
    /\ job.durable =>
         /\ IF job.request = NoRequest THEN Unused ELSE Solely(job.request)
         /\ worker.stage # "down" => worker.id = job.request
         /\ worker.stage \notin {"down", "new"} => job.request # NoRequest
    /\ worker.stage \in {"loop", "wait"} =>
         /\ worker.request \in Requests /\ Solely(worker.request)
         /\ worker.id \in {NoRequest, worker.request}
    /\ worker.stage \in {"raised", "handle"} => worker.id # NoRequest
    /\ worker.stage \in {"raised", "lost", "handle"} /\ worker.id # NoRequest =>
         Solely(worker.id)

\* h belongs to the id r.
Own(r, h) == h # None /\ h[1] = r /\ stmt[h] # "none"

\* Only the first POST of all goes out unmarked.
LoopInv ==
    /\ worker.stage = "wait" => worker.turn < Tries /\ posts[worker.request] > 0
    /\ worker.stage = "loop" /\ ~ worker.retry /\ worker.turn = 0 => Unused
    /\ worker.stage \in {"loop", "wait"} /\ worker.known # None =>
         Own(worker.request, worker.known)

\* A handle in hand or in the store is one of the job's own, and ends the sending.
HandleInv ==
    /\ worker.stage = "handle" => worker.id # NoRequest /\ Own(worker.id, worker.handle)
    /\ job.handle # None => /\ worker.stage \in {"down", "handle"}
                            /\ Own(job.request, job.handle)
    /\ job.outcome # "open" => job.handle # None

\* Under the assumptions of AtMostOnce: what is in flight was sent after everything that
\* was taken, and a POST taken after an execution that still counts was given that one.
OnceInv ==
    /\ \A m \in net : ~ m.retry => m.id[2] = 1
    /\ \A m \in net, e \in Execs : m.id[1] = e[1] /\ ran[e] # None => e[2] < m.id[2]
    /\ \A e, f \in Execs :
         e[1] = f[1] /\ ran[e] # None /\ f \in Effective /\ f[2] <= e[2] => ran[e] = f

\* h is what the last POST of r was given, and nothing is under way.
Last(r, h) == net = {} /\ posts[r] > 0 /\ ran[<<r, posts[r]>>] = h

LastInv ==
    /\ worker.stage = "handle" /\ worker.named => Last(worker.id, worker.handle)
    /\ job.handle # None /\ job.named => Last(job.request, job.handle)

Reliable == HistoryRetained /\ InOrder

Inv ==
    /\ TypeOK
    /\ ServerInv
    /\ IdInv
    /\ LoopInv
    /\ HandleInv
    /\ job.outcome = "done" =>
          \E e \in Execs : e[1] = job.request /\ stmt[e] = "committed"
    /\ Reliable => OnceInv /\ LastInv /\ OutcomeTrue
=============================================================================
