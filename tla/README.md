# Verification of snowflake-sql-api

TLA+ models of the client library in `src/snowflake_sql_api`, the TLC
configurations that check them on small instances, and TLAPS proofs of their
main results for every value of the constants. File and line references are to
the source under `src/snowflake_sql_api` unless they say otherwise.

## 1. The system

The library is a client of Snowflake's SQL API over HTTPS. There is a
synchronous client (`SnowflakeClient`) and an asynchronous one
(`AsyncSnowflakeClient`) with the same code apart from `await`; the main
difference in behaviour is what an interruption does to a poll.

| Part | State it keeps | Operations | Talks to |
|------|----------------|------------|----------|
| Batch planner, `batches.py` | iterator, look-ahead record, counters, summaries | `next_batch`, `confirm`, `error` | the caller's iterable |
| Batch execution, `batches.py`, `insert_batches` of both clients | `FailedBatch`, phase, `succeeded` | `received`, `error` | planner, transport, poll loop |
| Transport, `transport.py` | none across calls; attempt, POST count, handle within one | `submit`, `get_statement`, `cancel` through `_send` | token cache, retry policy, HTTPX |
| Poll loop, `client.py`, `aclient.py` | deadline of the poll; `_abandoned_cancels` | `_poll`, `_prepare_result`, `result`, `_cancel_after_task_cancel` | transport, event loop |
| Token cache, `auth.py` | `_cached_token`, `_cached_exp`, shared by the threads that use the client | `token` | wall clock |
| Partitions and streams, `pagination.py`, `exports.py`, clients | partition buffer, position, list being filled | `fetch_all_partitions`, `iter_result_rows`, `query_stream`, `query_batches`, `export_*` | transport, the consumer |
| Submissions, `client.py`, `aclient.py` | the caller's request id and handle | `submit`, `resubmit` | transport |
| Retry delays, `retry.py` | none | `delay_for` | wall clock |
| Values on the wire, `types.py`, `bindings.py` | none | `coerce_value`, `to_bindings` | |
| Test double, `testing.py` | `_exact`, `_predicates`, `_state`, `_counter` | `register` and its kin, `handle` | the real client, through HTTPX's mock transport |
| Configuration, escaping, exceptions, CLI, scripts | constant | | |

What is hard in it, and what makes each part correct:

- **Lost, late and refused requests.** HTTP does not say whether a POST whose
  reply is missing has run. `_send` repeats it with `retry=true`, and
  `insert_batches` must then say of the batch it stopped at whether it ran,
  failed, or may still do either. Correct means: a definite verdict is true and
  stays true whatever is still in the network; the POST count and the handle are
  those of the batch; batches are written in source order, one at a time.
- **Boundaries.** The planner measures a request body it has not built yet, with
  binding keys that grow by a digit, and holds back the record that did not fit.
  Correct means: no record lost or repeated, no batch over its budget, the
  import ends only when everything is written.
- **Cancellation.** A poll can time out, and in the asynchronous client its task
  can be cancelled, at any await and any number of times, also while the
  statement is being cancelled. Correct means: the cancellation is never lost, a
  statement the call owns is not left without a cancel request, somebody else's
  is left alone, the caller does not close the HTTP client under the request,
  and nothing waits for ever.
- **Partitions.** Rows come in pieces, and the consumer of a generator may stop
  anywhere. Correct means: every row once, in order, no result that is silently
  short, and in a stream or an export one partition in memory at a time.
- **Restarts.** A worker can die between storing its request id and learning the
  handle of its statement. Correct means: the workers that follow do not run the
  statement again, and know how it ended before they say so.
- **Values.** A time is counted in seconds with a fraction in results, in
  nanoseconds in bindings, in days, seconds and microseconds in Python. Correct
  means: it survives the conversions on both sides of the epoch, and what cannot
  be kept is cut the same way everywhere.
- **Tokens.** The token cache mixes whole seconds, fractions and a wall clock that
  may be stepped, and writes token and expiry one after the other without a lock.
  Correct means: a request does not carry an expired token, whichever thread
  signed it.
- **Time.** A call has one deadline and many sources of delay: requests that time
  out, retries, waits that the service dictates, sleeps, a cancel request at the
  end. Correct means: a retry waits for what the attempt before it was told, the
  call ends within a bound that the service cannot stretch, and it does not give
  up on a statement that it has stopped asking about.
- **A test's expectations.** The test double is shared by concurrent calls and
  its registry changes under them. Correct means: each call gets the result that
  was registered when its statement was submitted, whole, after as many polls as
  were asked for.

## 2. Modules

| Module | Models | Rests on |
|--------|--------|----------|
| `SqlApi` | the service and the network in front of it (external) | |
| `Transport` | `_send` of `transport.py` and its three callers | `SqlApi` |
| `Induction` | lemmas: induction and recursion over the natural numbers, stated of sets and functions | |
| `BatchPlanner` | `_BatchPlanner` of `batches.py` | |
| `BatchWrites` | `insert_batches`, `_BatchExecution`, the poll loop as it uses it | `BatchPlanner`, `Transport` |
| `BatchProgress` | abstract specification: what `insert_batches` promises | |
| `BatchWritesProofs` | theorems about `BatchPlanner` and `BatchWrites` | `BatchWrites`, `BatchProgress`, `Induction` |
| `TokenCache`, `TokenCacheProofs` | `KeypairAuthenticator.token`, and theorems | |
| `RetryDelay` | `RetryPolicy.delay_for` of `retry.py`: operators only | |
| `CallTiming`, `MCCallTiming`, `CallTimingProofs` | a waiting call in time: `_send`, `_poll` and the delays between; its instance; theorems | `RetryDelay`, `Induction` |
| `StatementPoll`, `StatementPollProofs` | `_poll`, `_prepare_result`, `result`, timeouts, task cancellation; theorems | |
| `ResultStream`, `ResultStreamProofs` | `pagination.py` and the methods that hand out rows; theorems | `Induction` |
| `Submissions`, `SubmissionsProofs` | `submit`, `resubmit` and an application that restarts; theorems | `SqlApi` |
| `WireTypes`, `MCWireTypes` | cells and bindings of `types.py`, `bindings.py`, `testing.py`; its instance | |
| `FakeSnowflake`, `MCFakeSnowflake` | `FakeSnowflake` of `testing.py` under the real client; its instance | |
| `TestDoubleProofs` | theorems about `FakeSnowflake` and `WireTypes` | both, `Induction` |

### SqlApi and Transport

A statement POST is `<<r, n>>`, the n-th one with requestId `r`. It stays in
`net` until the service takes or loses it, which may be long after the client
gave up on it. An execution has the identity of the POST that started it; this
stands for the statementHandle. `HistoryRetained` and `InOrder` are the two
things the service may or may not grant: that `retry=true` always finds a
statement that runs or has succeeded, and that POSTs of one requestId arrive in
order. Only `AtMostOnce` and `OutcomeTrue` depend on them. The replies that are
possible in a state are the `MayAnswer...` operators; a gateway can answer for a
POST that is still under way.

`Transport` is one record, `call`: the local variables of `_send`. `Attempt` is
a turn of the loop up to the request (lines 255-271), `NoReply`, `RetryReply`
and `FinalReply` are what may come of it (272-293), `TokenFails`, `Undecodable`
and `Exhausted` the other ways out. The waits between attempts have no length
here; they have one in `CallTiming`.

### BatchPlanner

A record is its position in the source and the bytes of its encoded values. A
step is one turn of the loop in `next_batch` (lines 189-229), or what follows
the loop (`Prepare`). Sizes are counted as the code builds the body: a
placeholder of `3 * Width` bytes, a key of one byte per digit, separators. The
lazily built context is `SingleOverhead`.

### BatchWrites and BatchProgress

`pc` names what `insert_batches` waits for: nothing (`fill`, `flush`, `ready`),
or the transport's `submit`, `poll` or `cancel`. `failed` is the
`_BatchExecution`; `error` is its method of that name, with `Verdict` for lines
284-295. The uuid4 of a batch is the batch's index. The poll loop appears as it
runs in the synchronous client, and in the asynchronous one as long as its task
is not cancelled. `on_query` may raise (`NotifyFails`), and the affected count
may be unreadable (`Conclude`).

`BatchProgress` has three variables: the batches that are durable, how many the
caller has confirmed, and what the caller has been told. It promises that
batches become durable one after another, that confirmation follows durability,
and that a verdict binds the future. `Durable`, `Current` and `CallerView` are
the refinement mapping.

### StatementPoll

Each call `p` has a record: where it waits, the answer that has come but not
reached it yet, its deadline, and whether a `CancelledError` is on its way.
Between an answer and its delivery `TaskCancel` can happen, and then wins, as in
asyncio. `ctask[p]` is the task of `_cancel_after_task_cancel` (lines 84-95 of
`aclient.py`): `running`, `cancelling` once it was told to stop, `done`, and
`settled` after its callback. `requested` and `took` are history: which calls
asked for a cancellation, and whose request the service took. A call begins with
its first request: the POST of a statement it owns (`owned`, the code's
`cancel_on_timeout`), or the GET of `result()` on somebody's handle. The inside
of a transport call is `Transport`'s business and one step here. `Close` is the
end of the client's context manager, after the calls made in it.

### ResultStream

`lens` is the result at the service: the number of rows in each partition. A row
is `<<partition, position>>`. In a generator or an export one step is one turn of
the innermost loop, through all layers: partition buffer (`data`), list of
`query_batches` (`batch`), sink of an export; `NextPartition` releases the buffer
before the next GET (`pagination.py:96`). `query()` has no such buffer: `Extend` puts
each partition behind those it has (`fetch_all_partitions`, 43-51), and the promise of
one partition in memory, `PartitionReleased`, is not about it. `Malformed` says to
which surfaces a reply may come without a data array, and `Received` what each makes
of it. Conversion and the text of an export are one step that can fail (`RowFails`).

### RetryDelay and CallTiming

`delay_for` is the set of delays that the function of that name may return
(`retry.py:77-117`): a usable `Retry-After`, cut at the cap, or a draw up to the
ceiling of the attempt, which a 429 raises. Durations are whole ticks. A date is
the time it names on the client's clock, so that the skew between client and
service is in the date.

`CallTiming` follows one call that waits for a statement, from its first request
to its end, on one clock. `op` is the request that `_send` is at, `doing` whether
it is under way, whether `_send` sleeps before a retry (`pause`) or `_poll`
between two polls (`rest`). A step is an attempt with its outcome, or a sleep, and
takes the time it takes. `Exchange` bounds an HTTP exchange: the code gives HTTPX
a timeout, which bounds each phase of an exchange rather than the whole, so the
constant is an assumption about the network as well. `Oversleep` bounds how late
a sleeper wakes. `outcome` and `ended` are history: what the latest attempt came to
and when; `observed` is when the service looked at the statement for the latest
answer. The fetches of partitions come after the wait and are not under its
deadline; they are in `ResultStream`. What floating point does to
`multiplier ** attempt` is left out.

### TokenCache

Time is in ticks, `Second` of them to a second. `token()` takes no lock, and so
each of its accesses to the clock and the two attributes is a step: `Enter` reads the
clock, `Look` the token, `Check` the expiry, `Hit` the token once more, to return it;
`Store` writes first the one, then the other (lines 167-173). Two `Store`s can
interleave and leave a token with the expiry of another. `Stall` bounds the time
between a thread's entry and its return. The clock may be set to any value, also while
requests are under way, but not while a thread is in `token()`: a token that is judged
by one clock and returned under another can be as old as the step is large, and
nothing in the code promises otherwise. There is one clock; a service whose clock
differs, and so an `iat` in its future, is outside. A request carries the token it
was given until it is answered.

### Submissions

`job` is the application's store, which survives; `worker` is the memory of the
present worker, which `Crash` empties. The application is the one of
`docs/submissions.md` and `tests/smoke/test_submissions.py` and is external:
store the id, submit, store the handle, wait for the result; after a restart,
attach to a stored handle or resubmit under the stored id. Its other form
(`durable = FALSE`) lets `submit()` generate the id and takes it from the handle
or from the exception, and cannot resubmit without it. POSTs are numbered over the life of an id (`posts`), as a
second worker's POST must not be mistaken for the first one's; the loop of
`_send` is otherwise as in `Transport`. Exceptions come in two kinds: a
`SnowflakeError` carries the id (`Identified`, stage `raised`), others do not
(`Unidentified`, stage `lost`). `IdInv` says that the id has reached the caller with
every one of the first kind.

### WireTypes

Numerals, numbers and times are records of integers, and the units are
constants: with a day of 8 seconds and a second of 3 microseconds TLC covers the
carries that a real day has. `register` is the test double's path: a column gets its
type from its first value that is not null (`infer_column`) or from the test
(`normalize_columns`), and `encode_cell` puts every value of the column, of whatever
kind, into a cell of that type or raises (`Encodes`). A column can be mixed: a naive
datetime among aware ones, an aware one in a `timestamp_ntz` column, which keeps its wall
clock, a datetime in a column of times. `InColumn` says what such a value comes back as.
`bind` is the path of a date, a time or a datetime through `_bind_one` and the service's
rendering; numbers, booleans and text are bound by `str()`, `json.dumps()` and the like
and are left out there. `serve` is a cell of the service's own with nanoseconds, of a
time zone with an offset or, as the decoder allows, without one; `coerce_rows` decodes
each. An aware value carries any offset of less than a day, in seconds: the wire has
minutes, which one side rounds down and the other to the nearest.

### FakeSnowflake

The state is that of the class, and `call[c]` is a call of the real client: its
kind, where it is, the rows that have come. `handle()` is one step, with the
client's receipt of its response, as it runs without an await; between two
requests anything may happen: other calls, other registrations. `Post` is
`_on_submit` (lines 495-516), `Poll` and `GetPartition` are the two halves of
`_on_get` (518-536), `Cancel` the cancel path. A registration is its number in
`log` and a shape: rows, partitions, polls, count, and whether it is an error
that the client retries (`retried`) or not (`final`). A row names the
registration it is from, so a row of the wrong one is seen. `log`, `origin` and
`answers` are history: what was registered, what each handle should have got,
and what its polls were told. The fake does not look at requestIds: a POST that
is repeated makes another handle.

## 3. Runs

`CHECK_DEADLOCK FALSE` everywhere: a call that has returned or raised does
nothing more.

| Run | Bounds | Shows |
|-----|--------|-------|
| `batch_writes` | 3 records, batches of up to 2, 2 POSTs each, service with history and order | verdicts, order, attempts, handles, at most once, refinement, `Termination`, and the inductive invariant of the proofs |
| `batch_planner` | 8 records of 3 sizes, batches up to 6, width 2 | the fifth record has a two-digit key, 118 bytes are exactly six of the shortest records, one size never fits |
| `call_timing` | 3 attempts, wait 3, poll interval 2, ceilings 1 and 2, raised to 2 and 3 by a 429, cap on `Retry-After` 4; numbers 0, 3, 100, dates 3 ago, 2 and 100 ahead; a statement that ends at 0, at 5 or not in time | retries wait as told, the call ends in time, a timeout is fresh |
| `statement_poll` | 2 calls, all combinations of owner and style | the cancellation properties, that a result or a timeout is what the statement and the cancel request came to, and `Termination` with repeated cancellation and a hanging cancel request; calls only share the client and `_abandoned_cancels`; the inductive invariant |
| `result_stream` | 3 partitions of 0-3 rows, lists of 2, malformed replies except to `query()` | the properties of generators and exports, and completeness of `query()` on well-formed replies; the inductive invariant |
| `result_collect_malformed` | 2 partitions of 0-2 rows | finding: a missing array is an empty partition to `query()` |
| `submissions` | 4 POSTs of an id, 2 per call, 3 workers, retained history, order | at most one execution in effect; `done` and (for a handle that the final reply named) `failed` are true for good; the inductive invariant, with it that a `SnowflakeError` brings the caller the id |
| `wire_types` | columns of up to 2 values near the epoch and a day away, of one kind or two, with inferred or stated types, every offset of less than a day, scales none and 0-2 | round trips into the column's type, truncation towards the epoch, order |
| `wire_types_decimals` | columns of 2 numbers, inferred types | finding: a column's scale comes from one value |
| `fake_snowflake` | 3 calls, 2 registrations of 3 shapes, by statement or by 2 predicates, 2 attempts | own results, exact polls, progress; the inductive invariant |
| `token_cache` | 2 threads, lifetime 4 s, margin 3 s, half seconds, a call of up to half a second, 7 s | token properties |
| `token_no_margin` | 1 thread that never stalls, lifetime 5 s, margin 0, thirds of a second, 10 s | finding: an expired token is returned |

**Bounds.** In `batch_writes`, two attempts per request are enough for one POST to
be lost and another to be refused. Two batches show that one batch's knowledge
does not leak into the next; the third record makes the first batch hold a
look-ahead. That the verdicts, the handles and the refinement do not depend on
`HistoryRetained`, `InOrder` or the number of attempts is left to the theorems,
which hold for all of them.

In `call_timing`, three attempts allow a reply with a `Retry-After`, an attempt
without a reply after it, and the wait after that. Each of the ceiling, the raised
ceiling, the cap and the header bounds some wait. The wait of 3 ends during a
request, during a rest and between polls.

In `fake_snowflake`, three calls are one that submits and two that poll its
handle, or two that submit; three rows in two partitions leave a short last chunk,
one row in two leaves an empty one; two polls can be used up by two calls. Two
registrations of one statement can be two of the same kind, one of each, or an
error and its replacement between the attempts of a POST.

In `token_cache`, the cover of 6 ticks exceeds what is lost (4), so neither
property is vacuous, and the clock is long enough for a token to be signed, used,
renewed and expire.

For `Submissions`, two POSTs in one call and four in all let a first worker's
POSTs be late, lost or answered while two later workers send theirs. The bound
on the POSTs of an id stops a worker that has used it up. The history variable
`named` records whether the handle is the one the final reply gave.

**Fairness.** `BatchWrites!LiveSpec`: the client's steps are taken and the
monotonic clock reaches the poll deadline; HTTPX's timeout ends every request
and `max_attempts` every call. `StatementPoll!LiveSpec`: the same for each call,
plus the five-second timer. Nothing is assumed of the service, and nothing of
the task with the cancel request. `CallTiming!EndsInTime` bounds the end of a call
in ticks and needs no fairness. `FakeSnowflake!Progress` is stated of steps: each
lowers a measure of its call, whatever the other calls do, and with every call's
next step taken it follows that they all end.

## 4. Findings

- `renewal_margin_seconds=0` is accepted (`auth.py:130`), and the cache then
  returns a token whose `exp` has passed: `exp` is cut to whole seconds (158),
  the cached expiry is not (172). The docstring at 163 promises a valid token.
  With a cover of at least what truncation and interleaving cost, `ReturnsValid`
  is a theorem.
- `fetch_all_partitions` takes a 200 or 202 reply without a data array for an
  empty partition (`pagination.py:40`), and `query()` returns fewer rows without
  an error; `docs/troubleshooting.md:172-173` says this never happens. A non-JSON page
  with status 200 (`transport.py:75`) is enough where a later partition is fetched. For
  the first partition, inline in the reply to the POST, `_prepare_result` wants a handle as
  well: the body is JSON with a `statementHandle` and no `data`, or an earlier attempt of
  the POST has disclosed the handle (`transport.py:68`). The streams check for the array.
- `_infer_column` (`testing.py:314-322`) takes the scale of a column from its
  first value, so a column of `Decimal("1")` and `Decimal("1.5")` raises
  `ValueError` in the client; `docs/testing.md:53-55` calls the round trip of
  `Decimal` lossless, without repeating the hint above it (42) to state types "when
  inference is not enough". With a scale that fits, `RoundTrip` holds. The same choice
  by the first value makes a mixed column of datetimes lose zones or wall clocks, which is
  `InColumn` and holds as it says.

Not a finding, but worth knowing: the second half of `OutcomeTrue` is about
handles that the reply ending the submission named. If a 200 or 202 names none,
`StatementResponse` falls back on the handle of an earlier POST (`transport.py:68`), as its docstring
says; that statement may have failed while a later POST has started it anew, and
the application then waits for the wrong one (without the conjunct `job.named`
TLC finds this). `AtMostOnce` needs a service that remembers and keeps order;
`docs/submissions.md` says so.

Also not a finding: an aware datetime whose UTC offset is less than a minute short
of a day, on the side where rounding reaches the day, cannot be read back.
`bindings.py:55` and `testing.py:232` send it as a whole day, and `timezone()`
(`types.py:137`) raises `ValueError`. No real time zone has such an offset;
`OffsetsFit` keeps them out of `RoundTrip`.

## 5. Proofs

Each `*Proofs` module proves `Invariance`: `Spec => []Inv` (for the planner
`PlannerInvariance`, in `TokenCacheProofs` `TokenInvariant`, in `TestDoubleProofs`
`FakeInvariance` and, for `WireTypes`, `DecodedColumns`), with one lemma per
action, and the properties from `Inv`. `Inv` stands at the end of the module it is
about (`WireInv`, which only the proofs use, with them). All of it holds for every
value of the constants that satisfies the named assumptions of the modules; where a
theorem needs more of the service or of the configuration, it says so in an `ASSUME`.
The runs check the inductive invariants, on the instances of section 3, except those of `BatchPlanner`,
`CallTiming` and `WireTypes`: these were model-checked with the configurations of
`batch_planner`, `call_timing` and `wire_types` and one more `INVARIANT` each
before they were proved.

| Module | Properties proved | Under |
|--------|-------------------|-------|
| `BatchWritesProofs` | `VerdictSound`, `HandleKept`, `SequentialWrites`, `AttemptsExact`, `KeepsPromise` (refinement), the planner's properties in `insert_batches` | |
| | `AtMostOnce` | `HistoryRetained`, `InOrder` |
| (planner) | `RecordsAccounted`, `MeasuredBudget`, `BatchesGreedy`, `EndsComplete` | |
| `StatementPollProofs` | `CancelsOwnStatements`, `CancellationKept`, `ClientOutlivesCancel`, `AbandonedHeld`, `ResultHonest` | |
| `ResultStreamProofs` | `PartitionReleased` (streams and exports), `BatchesFull` | |
| | `RowsConserved`, `NothingTruncated` | the call rejects malformed replies (`Faithful`) |
| `CallTimingProofs` | `WaitsAsTold`, `EndsInTime`, `TimeoutFresh` | |
| `SubmissionsProofs` | `AtMostOnce`, `OutcomeTrue` | `HistoryRetained`, `InOrder` |
| | a job that is done has been executed under the stored id | |
| `TokenCacheProofs` | `OutlivesRequest` | |
| | `ReturnsValid` | `Lost <= Cover` |
| `TestDoubleProofs` | `OwnResult`, `PollsExact`, `Progress` of `FakeSnowflake` | |
| | `RoundTrip`, `TruncatesToEpoch`, `OrderKept` of `WireTypes` | |

**`BatchWrites`.** The properties are not inductive alone: a verdict's truth
depends on which POSTs were sent (`Sent`, `OrderInv`), on executions coming
only from POSTs (`ServerInv`), on the transport's count being that of the
POSTs (`CallInv`), on what `failed` holds while waiting (`SubmitInv`, `PollInv`), on what a
verdict rests on (`ReportInv`), and at most once on the POST in flight being
later than all that has run (`OnceInv`). `Refinement` shows that `Spec` implements
`BatchProgress`: steps of planner, transport and service are stutters or the abstract
steps; `DurablePrefix` is the abstract invariant, carried over. `PlannerInWrites`
carries the planner's invariant over in the other direction: every step of
`insert_batches` is a step of the planner or leaves its variables alone.

**`BatchPlanner`.** `size` is a running sum, the body is put together at the end.
`BodyLenAppend` says by how much a record lengthens the body; it needs the sum over
a batch with one record more to agree with the sum before, which is an
induction over the batch. `BatchesGreedy` speaks of the moment a batch is
prepared, the decision was taken before: `CutInv` keeps the reason the loop
stopped, `PendingInv` that the record held back had been measured alone.

**`StatementPoll`.** `PlaceInv`, `RequestInv` and `AskedInv` say of each place of a call
what is known there of its deadline, its cancel request and a task cancellation:
one that was asked for is still to be delivered, or is being seen to in `drain`, or has
ended the call. The calls share `_abandoned_cancels` and the client, so that a step of one must be
shown to leave what the others rely on.

**`ResultStream`.** What has been handed out, the list being filled and the rest of
the partition in memory are the prefix of the result, and what has not been fetched is
the rest (`RowsConserved`). The rows are flattened twice, over partitions and over lists;
the lemmas say what `FlattenSeq` returns for an appended sequence and for its first
element. `WellFormedReplies` is the case of a service that never omits an array;
without `Faithful` both properties are false of `query()`, see section 4.

**`CallTiming`.** `TimeInv` bounds the clock by where the call is: the latest time at
which its present request may have begun (`Begins`) and a `Round` for each
attempt before. That no wait exceeds `LongestWait` follows from the caps in
`delay_for`, for every growth of the backoff.

**`Submissions`.** `IdInv` is the core: there is no second requestId, whoever died when. `LoopInv`
says that only the first POST of all goes out without `retry=true`; `OnceInv` that what is in
flight was sent after all that was taken, and that a POST that was taken after an execution
which still counts was given that execution; `HandleInv` that a handle ends the sending;
`LastInv` that a handle named by the final reply is what the last POST was given. `OutcomeTrue` needs
them all.

**`TokenCache`.** A request that takes no longer than the cover less `Lost` is not
overtaken by the expiry. The cover is the
margin, or the lifetime if that is shorter; `Lost` is a second, for the truncated
claims, and twice `Stall`, for two threads that are each late once. The invariant is
needed as the expiry in the
cache may be another token's: `CacheLag` bounds how far it may be ahead of the
claim, `Lead` how far the expiry that made a thread sign may be ahead of the one
the thread is going to store, `Seen` what a thread still knows of the cache when it
acts on it, and `BearerCover` is the promise at the moment of the return.

**`FakeSnowflake`.** `RegistryInv` ties the registry to the log: each statement has
its latest registration, `_predicates` are those by predicate in their order, so that
`_lookup` returns what `Expected` says (`LookupExpected`). `HandleInv` says that there
are as many handles as attempts, which is why none is given out twice: `counter` is
the size of the set `Attempts`, and each POST adds one element to it. `HandleExact`
counts the polls: what a handle has answered with RUNNING and what it has left are
what was registered. `CallInv` (`OnTrack`) says of each place of a call what it has of
the registration it is due; the rows received are always the first chunks. It is
stated with the statements as a parameter, as another call's step
changes them: `StaysOnTrack` shows that handles that are added, and polls that are
counted down, do no harm. A poll lowers the remaining polls, a partition that is
fetched raises `fetched`, a POST uses up an attempt, and no step of another call undoes
it (`AdvancesBy`); that is `Progress`.

**`WireTypes`.** Only the last step computes: `WireInv` says that the rows are the
decoded cells, and the cells those of a registration, a binding or the service. What
is proved of them is arithmetic, for every size of the units (a real day as well as
the one that TLC has). `Carry` and `DivMod` take quotients and remainders apart on both sides
of the epoch: `InstantOfString`, `EpochNanosExact` and `SeenMicros` give
`TimestampBack`, `FieldsOfDay` the times of day, `OffsetMinutes` the offsets under either
rounding. `Kept` says that a decoded timestamp is the size of its numeral in whole
microseconds, with its sign; `Truncated` and `Ordered` follow. The hypotheses of
`RoundTrip`, `ScaleFits` and `OffsetsFit`, are those of section 4: without either it
is false. A value in its own type has a lemma for each kind, for a registration and a
binding alike (`DateBack`, `TimeBack`, `NaiveBack`, `AwareBack`, `NumberBack`); `ClockBack`
and `Converted` are the columns of another type.

**Induction.** The library's induction theorems take an operator as a parameter, which the
provers cannot instantiate. `Induction` states induction of a set (`NatSet`: a set of
naturals that holds 0 and all successors is `Nat`), from the well-foundedness of `<`, and
recursion of functions (`Recursion`: a first value and a step determine a
function). With them the recursive functions `growth` and `FragmentsLen` and the fold in
`FlattenSeq` are shown to satisfy their equations, which is where proofs about them
start. `SequenceTheorems` and `FiniteSetTheorems` supply the rest.

**Only model-checked.** `Termination` of `BatchWrites` and of `StatementPoll`: the prover
has neither `ENABLED` nor leads-to under fairness; and that every call on the test double
ends, for which `Progress` is the step. The violations are TLC's as well: a proof would
say that they are possible, a trace shows how. Every other property that a run checks
is stated by a theorem.

## 6. Not modelled

- Key loading, fingerprints and signatures: no state.
- Text, binary, boolean, float and JSON cells, each of which passes through one
  library function; the text of CSV, JSON, SQL and messages; the quoting of
  `escaping.py`, which is string work without state.
- Configuration checks and payload building in `_client_base.py`, sequential and
  on constants; exceptions as classes; the command line, one query per process;
  the scripts. In `testing.py`, the factories and fixtures that construct a client.
- A `KeyboardInterrupt` or task cancellation in the middle of `insert_batches`
  leaves no `BatchWriteError` and is outside `BatchWrites`; what it does to the
  poll is in `StatementPoll`.
- Threads that share a client are modelled where they share state the library
  writes, which is the token cache. Threads that share a `FakeSnowflake` are not
  modelled: nothing documents that use.
- A status GET that fails for good leaves the statement running; the code leaves
  it to the service, and there is no promise to check.

## 7. Plan

All modules, runs and proofs that were planned are there: every invariant and
action property of the runs is a theorem. What could be added:

1. Threads that share a `FakeSnowflake`, once its documentation allows them: `_counter`
   and `_state` (`testing.py:492`) would need steps of their own.
2. `insert_batches` interrupted by a task cancellation, once the code promises something
   of it.
3. Boolean and binary cells, if their decoding comes to do more than call one function.
