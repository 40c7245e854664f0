--------------------------- MODULE FakeSnowflake ---------------------------
(***************************************************************************)
(* testing.py, and the real client on top of it: FakeSnowflake answers     *)
(* the requests of calls that run concurrently (the tasks of an event      *)
(* loop), while the test registers further results.                        *)
(*                                                                         *)
(* handle() is one step, with the client's receipt of its response; in     *)
(* between, other calls send their requests.  A row is <<r, i>>, the i-th  *)
(* of the r-th registration: how values are encoded is WireTypes.          *)
(***************************************************************************)
EXTENDS Naturals, Sequences, SequencesExt, FiniteSets

CONSTANTS Statements,    \* the SQL strings
          Predicates,    \* predicates, as the sets of statements they match
          Shapes,        \* what may be registered, see Shape
          MaxRegs,       \* bound on the number of registrations
          MaxCalls,      \* bound on the number of calls
          MaxAttempts    \* max_attempts of the client's retry policy

(* rows        of register() and register_match(); a DML statement has one  *)
(* partitions  that they are split into                                     *)
(* polls       polls_before_ready                                           *)
(* count       the rows affected: rowcount or stats                         *)
(* error       of register_error(): "final", or "retried" by the client     *)
Shape == [rows : Nat, partitions : Nat \ {0}, polls : Nat, count : Nat,
          error : {"none", "final", "retried"}]

ASSUME FakeAssumption ==
    /\ Predicates \subseteq SUBSET Statements
    /\ Shapes \subseteq Shape
    /\ MaxRegs \in Nat /\ MaxCalls \in Nat
    /\ MaxAttempts \in Nat \ {0}

VARIABLES exact,         \* _exact
          predicates,    \* _predicates
          state,         \* _state
          counter,       \* _counter
          call,          \* call[c]: the state of the call c
          log,           \* history: all registrations, in order
          origin,        \* history: origin[h]: what the log had for handle h
          answers        \* history: answers[h]: of the status polls of h

registry == <<exact, predicates>>
service == <<state, counter>>
history == <<log, origin, answers>>
vars == <<registry, service, call, history>>

Calls == 1..MaxCalls
Handles == 1..(MaxCalls * MaxAttempts)
Unregistered == [shape |-> "none"]

\* What a registration stands for: its number, and its shape.
Regs == [id : 1..MaxRegs, shape : Shapes]
PredicateRegs == [matches : Predicates, reg : Regs]

\* A registration in the log, with the statements it is for.
Entries == [by : {"sql", "predicate"}, matches : SUBSET Statements, reg : Regs]

(* On a call, kind tells what the caller asks for: "peek" is result(poll=False), and    *)
(* the last four are made on a QueryHandle.                                 *)
Kinds == {"query", "execute", "submit", "result", "peek", "status", "cancel"}

Row == (1..MaxRegs) \X Nat

Call == [kind : Kinds \cup {"none"},
         pc : {"new", "post", "get", "poll", "parts", "cancel", "over"},
         statement : Statements \cup {"none"},
         handle : Handles \cup {0},
         attempt : 0..MaxAttempts,
         got : Seq(Row),           \* rows that have arrived
         fetched : Nat,            \* partitions that have
         result : {"none", "rows", "count", "handle", "not_ready", "running",
                   "success", "cancelled", "error", "fake_error", "timeout"},
         count : Nat,
         due : Regs \cup {Unregistered}]   \* history: what its result must show

TypeOK ==
    /\ exact \in [Statements -> Regs \cup {Unregistered}]
    /\ predicates \in Seq(PredicateRegs)
    /\ counter \in 0..(MaxCalls * MaxAttempts)
    /\ DOMAIN state \subseteq 1..counter
    /\ \A h \in DOMAIN state : state[h] \in [reg : Regs, remaining_polls : Nat]
    /\ call \in [Calls -> Call]
    /\ Len(log) <= MaxRegs

Init ==
    /\ exact = [s \in Statements |-> Unregistered]
    /\ predicates = <<>>
    /\ state = <<>>
    /\ counter = 0
    /\ call = [c \in Calls |->
                 [kind |-> "none", pc |-> "new", statement |-> "none", handle |-> 0,
                  attempt |-> 0, got |-> <<>>, fetched |-> 0, result |-> "none",
                  count |-> 0, due |-> Unregistered]]
    /\ log = <<>>
    /\ origin = <<>>
    /\ answers = <<>>

-----------------------------------------------------------------------------
(* The registry.                                                            *)

\* The rows of a registration, and their chunks.
RowsOf(reg) == [i \in 1..reg.shape.rows |-> <<reg.id, i>>]

Larger(a, b) == IF a > b THEN a ELSE b
Smaller(a, b) == IF a < b THEN a ELSE b

\* The rows of a chunk: an equal share, rounded up.
ChunkSize(rows, partitions) == Larger(1, (rows + partitions - 1) \div partitions)

\* Chunks of this size until the rows run out, then empty ones.
_split(data, partitions) ==
    LET size == ChunkSize(Len(data), partitions)
    IN  [p \in 1..partitions |->
           SubSeq(data, (p - 1) * size + 1, Smaller(p * size, Len(data)))]

Chunks(reg) == _split(RowsOf(reg), reg.shape.partitions)

\* Mutant: predicates come before exact matches.
LookupPredicateFirst(sql) ==
    LET k == SelectInSeq(predicates, LAMBDA p : sql \in p.matches)
    IN  IF k = 0 THEN exact[sql] ELSE predicates[k].reg

\* The exact match, or else the first predicate that matches.
_lookup(sql) ==
    LET k == SelectInSeq(predicates, LAMBDA p : sql \in p.matches)
    IN  IF exact[sql] # Unregistered THEN exact[sql]
        ELSE IF k = 0 THEN Unregistered
        ELSE predicates[k].reg

NewReg(shape) == [id |-> Len(log) + 1, shape |-> shape]

\* register(), register_dml() and register_error().
Register(sql, shape) ==
    /\ Len(log) < MaxRegs
    /\ exact' = [exact EXCEPT ![sql] = NewReg(shape)]
    /\ log' = Append(log, [by |-> "sql", matches |-> {sql}, reg |-> NewReg(shape)])
    /\ UNCHANGED <<predicates, service, call, origin, answers>>

RegisterMatch(matches, shape) ==
    /\ Len(log) < MaxRegs
    /\ shape.error = "none"
    /\ predicates' = Append(predicates, [matches |-> matches, reg |-> NewReg(shape)])
    /\ log' = Append(log, [by |-> "predicate", matches |-> matches, reg |-> NewReg(shape)])
    /\ UNCHANGED <<exact, service, call, origin, answers>>

\* What the test may expect of a statement that is submitted now: the latest
\* registration of exactly this statement, or else the earliest matching predicate.
Expected(sql) ==
    LET Of(by) == {i \in DOMAIN log : log[i].by = by /\ sql \in log[i].matches}
    IN  CASE Of("sql") # {} -> log[CHOOSE i \in Of("sql") : \A j \in Of("sql") : j <= i].reg
          [] Of("sql") = {} /\ Of("predicate") # {} ->
               log[CHOOSE i \in Of("predicate") : \A j \in Of("predicate") : i <= j].reg
          [] OTHER -> Unregistered

-----------------------------------------------------------------------------
(* The calls.                                                               *)

Busy(c) == call[c].pc \notin {"new", "over"}

\* The calls are numbered in the order in which they begin.
Fresh(c) == call[c].pc = "new" /\ \A d \in 1..(c - 1) : call[d].pc # "new"

\* query(), execute() or submit(): the POST is next.
Begin(c, kind, sql) ==
    /\ Fresh(c)
    /\ call' = [call EXCEPT ![c] =
                  [@ EXCEPT !.kind = kind, !.pc = "post", !.statement = sql]]
    /\ UNCHANGED <<registry, service, history>>

\* The handles that submit() has returned.
Held == {call[c].handle : c \in {d \in Calls : call[d].result = "handle"}}

\* A method of a QueryHandle, by whoever has it.
BeginWithHandle(c, kind, h) ==
    /\ Fresh(c)
    /\ call' = [call EXCEPT ![c] =
                  [@ EXCEPT !.kind = kind, !.handle = h, !.due = origin[h],
                            !.pc = IF kind = "cancel" THEN "cancel" ELSE "get"]]
    /\ UNCHANGED <<registry, service, history>>

\* What the call r is when it ends with the result e.
Ended(r, e) == [r EXCEPT !.pc = "over", !.result = e]

\* fetch_all_partitions(): partition 0 came with the response; the others follow.
Receive(r, chunks) ==
    LET s == [r EXCEPT !.got = @ \o chunks[r.fetched + 1], !.fetched = @ + 1]
    IN  IF s.fetched < Len(chunks) THEN [s EXCEPT !.pc = "parts"]
        ELSE Ended(s, "rows")

\* What a call makes of the response of a finished statement.
Finished(r, reg) ==
    CASE r.kind = "execute" -> Ended([r EXCEPT !.count = reg.shape.count], "count")
      [] r.kind = "status" -> Ended(r, "success")
      [] r.kind \in {"query", "result", "peek"} -> Receive(r, Chunks(reg))

\* Mutant: the submission counts as the first poll.
AcceptCountsAsPoll(c, h, reg, r) ==
    /\ state' = [i \in DOMAIN state \cup {h} |->
                   IF i = h
                     THEN [reg |-> reg,
                           remaining_polls |-> IF reg.shape.polls = 0 THEN 0
                                               ELSE reg.shape.polls - 1]
                     ELSE state[i]]
    /\ call' = [call EXCEPT ![c] =
                  IF r.kind = "submit" THEN Ended(r, "handle")
                  ELSE IF reg.shape.polls > 0 THEN [r EXCEPT !.pc = "poll"]
                  ELSE Finished(r, reg)]

\* A statement is accepted under the handle h.  submit() asks for a 202 always.
Accept(c, h, reg, r) ==
    /\ state' = [i \in DOMAIN state \cup {h} |->
                   IF i = h THEN [reg |-> reg, remaining_polls |-> reg.shape.polls]
                   ELSE state[i]]
    /\ call' = [call EXCEPT ![c] =
                  IF r.kind = "submit" THEN Ended(r, "handle")
                  ELSE IF reg.shape.polls > 0 THEN [r EXCEPT !.pc = "poll"]
                  ELSE Finished(r, reg)]

\* Mutant: the client counts its retries and not its attempts.
PostsAgainOnceMore(r, reg) == reg.shape.error = "retried" /\ r.attempt <= MaxAttempts

\* Whether the client retries the POST of r, which was answered with reg's error.
PostsAgain(r, reg) == reg.shape.error = "retried" /\ r.attempt < MaxAttempts

\* _on_submit(): no registration, an error with a handle that is not kept, or a
\* statement.  The client posts again after a status that is retried.
Post(c) ==
    /\ call[c].pc = "post"
    /\ LET reg == _lookup(call[c].statement)
           h == counter + 1
           due == Expected(call[c].statement)
           r == [call[c] EXCEPT !.handle = h, !.attempt = @ + 1, !.due = due]
       IN  \/ /\ reg = Unregistered
              /\ call' = [call EXCEPT ![c] = Ended([@ EXCEPT !.due = due], "fake_error")]
              /\ UNCHANGED <<service, origin, answers>>
           \/ /\ reg # Unregistered
              /\ counter' = h
              /\ origin' = Append(origin, due)
              /\ answers' = Append(answers, <<>>)
              /\ IF reg.shape.error = "none"
                   THEN Accept(c, h, reg, r)
                   ELSE /\ call' = [call EXCEPT ![c] =
                             IF PostsAgain(r, reg) THEN r ELSE Ended(r, "error")]
                        /\ UNCHANGED state
    /\ UNCHANGED <<registry, log>>

\* What a call makes of the response of a running statement.  After a GET of _poll()
\* the deadline may have passed; a statement of the call's own is then cancelled.
StillRunning(r) ==
    CASE r.pc = "get" /\ r.kind = "peek" -> {Ended(r, "not_ready")}
      [] r.pc = "get" /\ r.kind = "status" -> {Ended(r, "running")}
      [] r.pc = "get" /\ r.kind = "result" -> {[r EXCEPT !.pc = "poll"]}
      [] r.pc = "poll" /\ r.kind = "result" -> {r, Ended(r, "timeout")}
      [] r.pc = "poll" /\ r.kind # "result" -> {r, [r EXCEPT !.pc = "cancel"]}

\* Mutant: the polls are not counted down.
PollForever(c) ==
    /\ call[c].pc \in {"get", "poll"}
    /\ LET h == call[c].handle
       IN  IF state[h].remaining_polls > 0
             THEN /\ answers' = [answers EXCEPT ![h] = Append(@, "running")]
                  /\ \E r \in StillRunning(call[c]) : call' = [call EXCEPT ![c] = r]
             ELSE /\ answers' = [answers EXCEPT ![h] = Append(@, "success")]
                  /\ call' = [call EXCEPT ![c] = Finished(@, state[h].reg)]
    /\ UNCHANGED <<registry, service, log, origin>>

\* _on_get() without a partition: the statement runs for some polls.
Poll(c) ==
    /\ call[c].pc \in {"get", "poll"}
    /\ LET h == call[c].handle
       IN  IF state[h].remaining_polls > 0
             THEN /\ state' = [state EXCEPT ![h].remaining_polls = @ - 1]
                  /\ answers' = [answers EXCEPT ![h] = Append(@, "running")]
                  /\ \E r \in StillRunning(call[c]) : call' = [call EXCEPT ![c] = r]
             ELSE /\ answers' = [answers EXCEPT ![h] = Append(@, "success")]
                  /\ call' = [call EXCEPT ![c] = Finished(@, state[h].reg)]
                  /\ UNCHANGED state
    /\ UNCHANGED <<registry, counter, log, origin>>

\* _on_get() with a partition.  Polls do not matter to it.
GetPartition(c) ==
    /\ call[c].pc = "parts"
    /\ call' = [call EXCEPT ![c] = Receive(@, Chunks(state[@.handle].reg))]
    /\ UNCHANGED <<registry, service, history>>

\* A cancel request changes nothing.
Cancel(c) ==
    /\ call[c].pc = "cancel"
    /\ call' = [call EXCEPT ![c] =
                  Ended(@, IF @.kind = "cancel" THEN "cancelled" ELSE "timeout")]
    /\ UNCHANGED <<registry, service, history>>

Step(c) == Post(c) \/ Poll(c) \/ GetPartition(c) \/ Cancel(c)

Next ==
    \/ \E sql \in Statements, shape \in Shapes : Register(sql, shape)
    \/ \E matches \in Predicates, shape \in Shapes : RegisterMatch(matches, shape)
    \/ \E c \in Calls, kind \in {"query", "execute", "submit"}, sql \in Statements :
          Begin(c, kind, sql)
    \/ \E c \in Calls, kind \in {"result", "peek", "status", "cancel"}, h \in Held :
          BeginWithHandle(c, kind, h)
    \/ \E c \in Calls : Step(c)

Spec == Init /\ [][Next]_vars

-----------------------------------------------------------------------------
\* Whatever else is registered, submitted, polled or cancelled in the meantime, a
\* call that gets rows gets all the rows, in order, of the registration that was in
\* force when its statement was submitted, and one that gets a count gets that
\* registration's; it fails exactly when that registration is an error, and the fake
\* complains exactly when there was none.
OwnResult ==
    \A c \in Calls : call[c].pc = "over" =>
        LET r == call[c]
        IN  /\ r.result = "rows" => r.got = RowsOf(r.due)
            /\ r.result = "count" => r.count = r.due.shape.count
            /\ r.result = "fake_error" <=> r.due = Unregistered
            /\ r.result = "error" <=>
                 r.due # Unregistered /\ r.due.shape.error # "none"

\* A statement reports RUNNING for exactly polls_before_ready status polls, whoever
\* makes them, and SUCCESS ever after; its partitions are not to be had before.
PollsExact ==
    /\ \A h \in 1..counter : origin[h] # Unregistered =>
          LET polls == origin[h].shape.polls
          IN  \A i \in DOMAIN answers[h] :
                 answers[h][i] = IF i <= polls THEN "running" ELSE "success"
    /\ \A c \in Calls :
          call[c].result \in {"rows", "count"} \/ call[c].pc = "parts" =>
             Cardinality({i \in DOMAIN answers[call[c].handle] :
                            answers[call[c].handle][i] = "running"})
               = call[c].due.shape.polls

\* The phases of a call, in order.
Phase == [new |-> 0, post |-> 1, get |-> 1, poll |-> 2, parts |-> 3, cancel |-> 4, over |-> 5]

\* One of the steps by which a call gets nearer to its end.
Advances ==
    /\ \A h \in DOMAIN state : state'[h].remaining_polls <= state[h].remaining_polls
    /\ \A c \in Calls :
         LET r == call[c]
             polled == /\ r.pc = "poll"
                       /\ answers'[r.handle] = Append(answers[r.handle], "running")
         IN  Busy(c) /\ (call'[c] # r \/ polled) =>
               \/ Phase[call'[c].pc] > Phase[r.pc]
               \/ /\ call'[c].pc = r.pc
                  /\ CASE r.pc = "post" -> call'[c].attempt > r.attempt
                       [] r.pc = "poll" -> state'[r.handle].remaining_polls
                                             < state[r.handle].remaining_polls
                       [] r.pc = "parts" -> call'[c].fetched > r.fetched

\* No call goes round for ever: each of its steps takes it to a later phase, or to one
\* more of its attempts, a poll less to go or a partition more, and nobody gives a
\* statement polls back.
Progress == [][Advances]_vars

-----------------------------------------------------------------------------
(* The inductive invariant.                                                 *)

\* _exact and _predicates against the log: the latest entry for each statement, and
\* all the predicates in the order of their registration.
RegistryInv ==
    /\ log \in Seq(Entries)
    /\ \A i \in DOMAIN log : log[i].reg.id = i
    /\ \A sql \in Statements :
         LET mine == {i \in DOMAIN log : log[i].by = "sql" /\ sql \in log[i].matches}
         IN  \/ mine = {} /\ exact[sql] = Unregistered
             \/ \E i \in mine : exact[sql] = log[i].reg /\ \A j \in mine : j <= i
    /\ \A k \in DOMAIN predicates :
         LET i == predicates[k].reg.id
         IN  /\ i \in DOMAIN log
             /\ log[i] = [by |-> "predicate", matches |-> predicates[k].matches,
                          reg |-> predicates[k].reg]
    /\ \A k, l \in DOMAIN predicates : k < l => predicates[k].reg.id < predicates[l].reg.id
    /\ \A i \in DOMAIN log : log[i].by = "predicate" =>
         \E k \in DOMAIN predicates : predicates[k].reg.id = i

\* The attempts that have been answered with a handle.
Attempts == {ca \in Calls \X (1..MaxAttempts) : ca[2] <= call[ca[1]].attempt}

\* A handle of an accepted statement: it has answered RUNNING as often as
\* polls_before_ready says it should by now.
HandleExact(h) ==
    LET polls == origin[h].shape.polls
        asked == Len(answers[h])
    IN  /\ h \in DOMAIN state
        /\ state[h].reg = origin[h]
        /\ state[h].remaining_polls = IF asked < polls THEN polls - asked ELSE 0
        /\ \A i \in 1..asked :
             answers[h][i] = IF i <= polls THEN "running" ELSE "success"

\* A handle of a statement that was answered with an error.
HandleFailed(h) == h \notin DOMAIN state /\ answers[h] = <<>>

\* There is a handle for each attempt, with the registration that was in force.
HandleInv ==
    /\ counter = Cardinality(Attempts)
    /\ origin \in Seq(Regs) /\ Len(origin) = counter
    /\ answers \in Seq(Seq({"running", "success"})) /\ Len(answers) = counter
    /\ \A h \in 1..counter :
         IF origin[h].shape.error = "none" THEN HandleExact(h) ELSE HandleFailed(h)

\* The rows of the first k chunks of a registration.
FirstRows(reg, k) ==
    LET size == ChunkSize(reg.shape.rows, reg.shape.partitions)
    IN  SubSeq(RowsOf(reg), 1, Smaller(k * size, reg.shape.rows))

\* The states in which nothing has been received.
Untouched(r) == r.got = <<>> /\ r.fetched = 0

\* What is true of a call r on a fake with these statements and origins, whichever
\* other calls poll the same statement.
OnTrack(r, statements, origins) ==
    LET accepted == /\ r.handle \in DOMAIN statements
                    /\ r.due = origins[r.handle]
                    /\ r.due.shape.error = "none"
        ready == accepted /\ statements[r.handle].remaining_polls = 0
    IN  /\ r.pc = "over" <=> r.result # "none"
        /\ r.pc = "new" => Untouched(r) /\ r.attempt = 0
        /\ r.pc = "post" => /\ Untouched(r)
                            /\ r.attempt < MaxAttempts
                            /\ r.kind \in {"query", "execute", "submit"}
                            /\ r.statement \in Statements
        /\ r.pc = "get" => accepted /\ Untouched(r) /\ r.kind \in {"result", "peek", "status"}
        /\ r.pc = "poll" => accepted /\ Untouched(r) /\ r.kind \in {"query", "execute", "result"}
        /\ r.pc = "parts" => /\ ready
                             /\ r.kind \in {"query", "result", "peek"}
                             /\ r.fetched \in 1..(r.due.shape.partitions - 1)
                             /\ r.got = FirstRows(r.due, r.fetched)
        /\ r.pc = "cancel" => accepted
        /\ r.result = "rows" => ready /\ r.got = RowsOf(r.due)
        /\ r.result = "count" => ready /\ r.count = r.due.shape.count
        /\ r.result \in {"handle", "not_ready", "running", "success", "cancelled", "timeout"}
             => accepted
        /\ r.result = "error" => r.due # Unregistered /\ r.due.shape.error # "none"
        /\ r.result = "fake_error" => r.due = Unregistered

CallInv == \A c \in Calls : OnTrack(call[c], state, origin)

\* The registry is the log's, there is a handle for each accepted attempt and its
\* polls add up, and every call is in the middle of the rows it is due.
Inv == TypeOK /\ RegistryInv /\ HandleInv /\ CallInv
=============================================================================
