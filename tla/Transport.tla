----------------------------- MODULE Transport -----------------------------
(***************************************************************************)
(* transport.py: Transport._send (AsyncTransport._send is the same code    *)
(* with awaits), the retry loop that every statement POST, status GET and  *)
(* cancel POST goes through.  The calling client is sequential, so there   *)
(* is one call at a time; `call' holds the loop's local variables and,     *)
(* once the call is over, what it returned or raised.                      *)
(***************************************************************************)
EXTENDS SqlApi

VARIABLES call,       \* the call of _send in progress, or the last one
          posted,     \* history: every statement POST put on the wire
          disclosed   \* history: the latest statementHandle in a reply to the
                      \* present submission, or None

transportVars == <<call, posted, disclosed>>

(* op        which of submit, get_statement and cancel called _send         *)
(* req       the requestId of a submission                                  *)
(* target    the statementHandle in the path of a GET or a cancel           *)
(* stage     top of the loop / request sent / returned / raised             *)
(* attempt   the loop variable                                              *)
(* attempts  the count of requests handed to HTTPX                          *)
(* retry     whether params holds retry=true                                *)
(* known     known_handle                                                   *)
(* status    of the response returned, or of the exception raised; "none"   *)
(*           for an exception that carries no status                        *)
(* handle    statement_handle of the response or the exception              *)
Call == [op : {"submit", "get", "cancel"},
         req : Requests,
         target : Handles,
         stage : {"idle", "loop", "wait", "returned", "raised"},
         attempt : 0..MaxAttempts,
         attempts : 0..MaxAttempts,
         retry : BOOLEAN,
         known : Handles,
         status : Statuses \cup {"none"},
         handle : Handles]

TransportTypeOK ==
    /\ call \in Call
    /\ posted \subseteq Execs
    /\ disclosed \in Handles

NewCall(op, r, e, retry) ==
    [op |-> op, req |-> r, target |-> e, stage |-> "loop", attempt |-> 0,
     attempts |-> 0, retry |-> retry, known |-> None, status |-> "none",
     handle |-> None]

TransportInit ==
    /\ call = [NewCall("submit", 0, None, FALSE) EXCEPT !.stage = "idle"]
    /\ posted = {}
    /\ disclosed = None

\* Steps of the client that enter _send.
submit(r, retry) ==
    /\ call' = NewCall("submit", r, None, retry)
    /\ disclosed' = None
    /\ UNCHANGED posted

get_statement(e) ==
    /\ call' = NewCall("get", call.req, e, FALSE)
    /\ UNCHANGED <<posted, disclosed>>

cancel(e) ==
    /\ call' = NewCall("cancel", call.req, e, FALSE)
    /\ UNCHANGED <<posted, disclosed>>

Returned(op) == call.op = op /\ call.stage = "returned"
Raised(op) == call.op = op /\ call.stage = "raised"
is_running == call.status = "running"

-----------------------------------------------------------------------------
PostId == <<call.req, call.attempts>>

\* Mutant: a retry goes out like the first POST.
FlagNever == call.retry

\* params = {**params, "retry": "true"} from the second turn of the loop on.
Flag == call.retry \/ (call.op = "submit" /\ call.attempt > 0)

\* A turn of the loop in which the token is signed and the request goes out.
Attempt ==
    /\ call.stage = "loop"
    /\ call.attempt < MaxAttempts
    /\ call' = [call EXCEPT !.stage = "wait", !.retry = Flag,
                            !.attempts = @ + 1]
    /\ LET id == <<call.req, call.attempts + 1>> IN
         CASE call.op = "submit" -> /\ net' = net \cup {Post(id, Flag)}
                                    /\ posted' = posted \cup {id}
                                    /\ UNCHANGED cancels
           [] call.op = "cancel" -> /\ cancels' = cancels \cup {call.target}
                                    /\ UNCHANGED <<net, posted>>
           [] call.op = "get"    -> UNCHANGED <<net, cancels, posted>>
    /\ UNCHANGED <<ran, stmt, disclosed>>

\* The exception leaves _send: known_handle fills in for a missing handle.
Raise(s, h) ==
    call' = [call EXCEPT !.stage = "raised", !.status = s,
                         !.handle = IF h # None THEN h ELSE call.known]

\* _headers() raises while the token is signed: no request goes out.
TokenFails ==
    /\ call.stage = "loop"
    /\ call.attempt < MaxAttempts
    /\ Raise("none", None)
    /\ UNCHANGED <<serverVars, posted, disclosed>>

\* httpx.TransportError: refused, reset or timed out, with or without effect.
NoReply ==
    /\ call.stage = "wait"
    /\ call' = [call EXCEPT !.stage = "loop", !.attempt = @ + 1]
    /\ UNCHANGED <<serverVars, posted, disclosed>>

MayAnswer(s, h) ==
    CASE call.op = "submit" -> MayAnswerPost(PostId, s, h)
      [] call.op = "get"    -> MayAnswerGet(call.target, s, h)
      [] call.op = "cancel" -> MayAnswerCancel(call.target, s, h)

Disclose(h) ==
    disclosed' = IF call.op = "submit" /\ h # None THEN h ELSE disclosed

\* Mutant: the handle in the body of a 429 or 503 is not looked at.
RetryReplyForgets(h) ==
    /\ call.stage = "wait"
    /\ MayAnswer("transient", h)
    /\ call' = [call EXCEPT !.stage = "loop", !.attempt = @ + 1]
    /\ Disclose(h)
    /\ UNCHANGED <<serverVars, posted>>

\* A status in retry_statuses: remember its handle, go round again.
RetryReply(h) ==
    /\ call.stage = "wait"
    /\ MayAnswer("transient", h)
    /\ call' = [call EXCEPT !.stage = "loop", !.attempt = @ + 1,
                            !.known = IF call.op = "submit" /\ h # None
                                        THEN h ELSE @]
    /\ Disclose(h)
    /\ UNCHANGED <<serverVars, posted>>

\* Mutant: a final reply without a handle erases the one disclosed before.
FinalReplyForgets(s, h) ==
    /\ call.stage = "wait"
    /\ MayAnswer(s, h)
    /\ s # "transient"
    /\ call' = [call EXCEPT !.stage = IF s \in {"ok", "running"} THEN "returned"
                                                                ELSE "raised",
                            !.status = s, !.handle = h]
    /\ Disclose(h)
    /\ UNCHANGED <<serverVars, posted>>

\* Any other status goes through _interpret: 200 and 202 return a
\* StatementResponse, the rest raise the typed error of that status.
FinalReply(s, h) ==
    /\ call.stage = "wait"
    /\ MayAnswer(s, h)
    /\ s # "transient"
    /\ IF s \in {"ok", "running"}
         THEN call' = [call EXCEPT !.stage = "returned", !.status = s,
                                   !.handle = IF h # None THEN h ELSE call.known]
         ELSE Raise(s, h)
    /\ Disclose(h)
    /\ UNCHANGED <<serverVars, posted>>

\* A reply HTTPX cannot decode: not a TransportError, so it leaves at once.
Undecodable ==
    /\ call.stage = "wait"
    /\ Raise("none", None)
    /\ UNCHANGED <<serverVars, posted, disclosed>>

\* The loop ends without an answer: SnowflakeRetryError.
Exhausted ==
    /\ call.stage = "loop"
    /\ call.attempt = MaxAttempts
    /\ Raise("none", None)
    /\ UNCHANGED <<serverVars, posted, disclosed>>

TransportNext ==
    \/ Attempt
    \/ TokenFails
    \/ NoReply
    \/ \E h \in Handles : RetryReply(h)
    \/ \E s \in Statuses, h \in Handles : FinalReply(s, h)
    \/ Undecodable
    \/ Exhausted
=============================================================================
