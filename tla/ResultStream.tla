---------------------------- MODULE ResultStream ----------------------------
(***************************************************************************)
(* pagination.py and what client.py and aclient.py build on it: the rows   *)
(* of a finished statement, which the service hands out in partitions, on  *)
(* their way to the caller.  `surface' tells how they are wanted:          *)
(*                                                                         *)
(*   "query"    query() and result(): one list with all rows               *)
(*   "stream"   query_stream(): a generator of rows                        *)
(*   "batches"  query_batches(): a generator of lists of rows              *)
(*   "export"   export_csv() and export_jsonl(): rows written to a sink    *)
(*                                                                         *)
(* A step of a generator is a turn of its innermost loop; between two of   *)
(* them the consumer decides whether to go on.  The asynchronous client    *)
(* has the same code with awaits: a cancelled task is a failed request.    *)
(***************************************************************************)
EXTENDS Naturals, Sequences, SequencesExt

CONSTANTS Surfaces,      \* the surfaces that are looked at
          MaxParts,      \* bound on the number of partitions
          MaxLen,        \* bound on the rows of a partition
          BatchSize,     \* batch_size
          Malformed      \* the surfaces that may get a 2xx reply without a data array

\* validate_batch_size() refuses other batch sizes.
ASSUME StreamAssumption ==
    /\ Surfaces \subseteq {"query", "stream", "batches", "export"}
    /\ MaxParts \in Nat \ {0}
    /\ MaxLen \in Nat
    /\ BatchSize \in Nat \ {0}
    /\ Malformed \subseteq Surfaces

VARIABLES surface,
          lens,      \* lens[i]: the number of rows the service has in partition i
          pc,
          index,     \* partition at hand, from 1
          offset,    \* rows of it that have been used
          data,      \* the partition that a generator or an export has in memory
          batch,     \* rows collected for the caller's next list, or for query()'s
          handed,    \* what the caller has: rows (one by one) or lists of rows
          ending     \* how it ended

resultVars == <<surface, lens>>
cursorVars == <<index, offset, data>>
vars == <<resultVars, pc, cursorVars, batch, handed, ending>>

Row == (1..MaxParts) \X (1..MaxLen)
Generators == {"stream", "batches"}

(* new      nothing submitted yet                                           *)
(* execute  the statement runs and is polled for                            *)
(* get      partition `index' has been asked for                            *)
(* rows     in the loop over `data'; that of query() is empty               *)
(* held     suspended at a yield; `last': at the yield after the loop       *)
TypeOK ==
    /\ surface \in Surfaces
    /\ lens \in UNION {[1..n -> 0..MaxLen] : n \in 1..MaxParts}
    /\ pc \in {"new", "execute", "get", "rows", "held", "last", "over"}
    /\ index \in 1..Len(lens)
    /\ offset \in 0..MaxLen
    /\ data \in Seq(Row)
    /\ batch \in Seq(Row)
    /\ handed \in Seq(Seq(Row))
    /\ ending \in {"none", "complete", "failed", "closed"}

Init ==
    /\ surface \in Surfaces
    /\ lens \in UNION {[1..n -> 0..MaxLen] : n \in 1..MaxParts}
    /\ pc = "new"
    /\ index = 1
    /\ offset = 0
    /\ data = <<>>
    /\ batch = <<>>
    /\ handed = <<>>
    /\ ending = "none"

\* The rows the service has in partition i, and in all of them from i on.
Part(i) == [j \in 1..lens[i] |-> <<i, j>>]
From(i) == FlattenSeq([k \in 1..(Len(lens) + 1 - i) |-> Part(i + k - 1)])
AllRows == From(1)

-----------------------------------------------------------------------------
\* A generator or a call is left: its frame goes, and the finally block releases
\* the buffered rows.
End(e) ==
    /\ pc' = "over"
    /\ ending' = e
    /\ data' = <<>>
    /\ offset' = 0
    /\ UNCHANGED <<resultVars, index>>

Fail == End("failed") /\ batch' = <<>> /\ UNCHANGED handed

\* The call, or the generator's first next(), submits the statement.
Begin ==
    /\ pc = "new"
    /\ pc' = "execute"
    /\ UNCHANGED <<resultVars, cursorVars, batch, handed, ending>>

\* Mutant: the streams, too, take a missing data array for an empty one.
ReceivedLenient == {Part(index)} \cup {x \in {<<>>} : surface \in Malformed}

\* The partitions that a reply may be taken to hold.  _stream_data() insists on an
\* array where _rows() makes an empty list of whatever else there is.
Received == {Part(index)} \cup {x \in {<<>>} : surface \in Malformed \cap {"query"}}

\* The statement has finished, and its response holds the first partition; or the
\* partition asked for arrives.  A generator or an export has it in memory alone.
Arrives ==
    /\ pc \in {"execute", "get"}
    /\ surface # "query"
    /\ data' \in Received
    /\ pc' = "rows"
    /\ offset' = 0
    /\ UNCHANGED <<resultVars, index, batch, handed, ending>>

\* query() keeps the partition with those it has.
Extend ==
    /\ pc \in {"execute", "get"}
    /\ surface = "query"
    /\ \E rows \in Received : batch' = batch \o rows
    /\ pc' = "rows"
    /\ UNCHANGED <<resultVars, cursorVars, handed, ending>>

\* The statement or the GET fails, the column names clash, or a stream gets no
\* array.
RequestFails ==
    /\ pc \in {"execute", "get"}
    /\ Fail

-----------------------------------------------------------------------------
\* The caller is given rows.
Hand(rows) == handed' = Append(handed, rows)

\* Mutant: the list is handed out with one row too few.
YieldBatchShort(row) ==
    LET grown == Append(batch, row) IN
      IF Len(grown) + 1 = BatchSize
        THEN Hand(grown) /\ batch' = <<>> /\ pc' = "held"
        ELSE batch' = grown /\ UNCHANGED <<handed, pc>>

\* query_batches(): a list is handed out once it is full.
YieldBatch(row) ==
    LET grown == Append(batch, row) IN
      IF Len(grown) = BatchSize
        THEN Hand(grown) /\ batch' = <<>> /\ pc' = "held"
        ELSE batch' = grown /\ UNCHANGED <<handed, pc>>

\* The next row of the partition is converted and goes where it is wanted.
UseRow ==
    /\ pc = "rows"
    /\ offset < Len(data)
    /\ offset' = offset + 1
    /\ LET row == data[offset + 1] IN
         CASE surface = "stream"  -> /\ Hand(<<row>>)
                                     /\ pc' = "held"
                                     /\ UNCHANGED batch
           [] surface = "export"  -> Hand(<<row>>) /\ UNCHANGED <<batch, pc>>
           [] surface = "batches" -> YieldBatch(row)
    /\ UNCHANGED <<resultVars, index, data, ending>>

\* The row does not convert, or the sink refuses it.
RowFails ==
    /\ pc = "rows"
    /\ offset < Len(data)
    /\ Fail

partition_count == Len(lens)

PartUsed == pc = "rows" /\ offset = Len(data)

\* Mutant: one partition too many.
NextPartitionPast ==
    /\ PartUsed
    /\ index <= partition_count
    /\ index' = index + 1
    /\ data' = <<>>
    /\ offset' = 0
    /\ pc' = "get"
    /\ UNCHANGED <<resultVars, batch, handed, ending>>

\* Mutant: the partition is kept while the next one is fetched.
NextPartitionKeeps ==
    /\ PartUsed
    /\ index < partition_count
    /\ index' = index + 1
    /\ pc' = "get"
    /\ UNCHANGED <<resultVars, data, offset, batch, handed, ending>>

\* The next partition is asked for; a generator or an export has released the one it
\* has used.
NextPartition ==
    /\ PartUsed
    /\ index < partition_count
    /\ index' = index + 1
    /\ data' = <<>>
    /\ offset' = 0
    /\ pc' = "get"
    /\ UNCHANGED <<resultVars, batch, handed, ending>>

\* Mutant: rows short of a full list are forgotten.
AllUsedDropsRest ==
    /\ PartUsed
    /\ index >= partition_count
    /\ IF surface = "query"
         THEN \/ End("complete") /\ Hand(batch) /\ batch' = <<>>
              \/ Fail
         ELSE End("complete") /\ batch' = <<>> /\ UNCHANGED handed

\* That was the last partition.  query() converts its rows and returns them, and
\* query_batches() has a last, shorter list.
AllUsed ==
    /\ PartUsed
    /\ index >= partition_count
    /\ CASE surface = "query" ->
              \/ End("complete") /\ Hand(batch) /\ batch' = <<>>
              \/ Fail
         [] surface = "batches" /\ batch # <<>> ->
              /\ Hand(batch)
              /\ batch' = <<>>
              /\ pc' = "last"
              /\ data' = <<>>
              /\ offset' = 0
              /\ UNCHANGED <<resultVars, index, ending>>
         [] OTHER -> End("complete") /\ UNCHANGED <<batch, handed>>

-----------------------------------------------------------------------------
(* The consumer of a generator.                                             *)

Resume ==
    \/ /\ pc = "held"
       /\ pc' = "rows"
       /\ UNCHANGED <<resultVars, cursorVars, batch, handed, ending>>
    \/ /\ pc = "last"
       /\ End("complete")
       /\ UNCHANGED <<batch, handed>>

\* close(), aclose() or an exception in the consumer, before the first next() or
\* between two.
Close ==
    /\ surface \in Generators
    /\ pc \in {"new", "held", "last"}
    /\ End("closed")
    /\ batch' = <<>>
    /\ UNCHANGED handed

Next ==
    \/ Begin \/ Arrives \/ Extend \/ RequestFails
    \/ UseRow \/ RowFails \/ NextPartition \/ AllUsed
    \/ Resume \/ Close

Spec == Init /\ [][Next]_vars

-----------------------------------------------------------------------------
\* What the caller has, as one sequence of rows.
Handed == FlattenSeq(handed)

\* The rows that have not been used yet.
Rest == CASE pc \in {"new", "execute", "get"} -> From(index)
          [] pc = "over" -> <<>>
          [] OTHER -> SubSeq(data, offset + 1, Len(data)) \o From(index + 1)

\* No row is lost, repeated or moved on its way through partitions, batches and
\* suspended generators: what the caller has, what is collected for it and what is
\* still to come make up the result at every moment, and when it is over the
\* caller has an initial part of it.
RowsConserved ==
    IF pc = "over" THEN IsPrefix(Handed, AllRows)
                   ELSE Handed \o batch \o Rest = AllRows

\* A call that returns, or a generator that is exhausted, has given the caller
\* every row of every partition: a result is never silently truncated.  For query()
\* it needs replies that hold their array.
NothingTruncated == ending = "complete" => Handed = AllRows

\* Generators and exports have at most one partition in memory, fetch nothing ahead,
\* and keep nothing when they have ended or were closed.  It is the promise of the
\* streams: query() has all rows in memory.
PartitionReleased ==
    surface # "query" =>
        /\ pc \in {"new", "execute", "get", "last", "over"} => data = <<>>
        /\ \A i \in 1..Len(data) : data[i][1] = index

\* Lists from query_batches() hold batch_size rows across partition boundaries; only
\* the last may be shorter, none is empty, and an empty result has none.
BatchesFull ==
    surface = "batches" =>
        /\ \A i \in 1..Len(handed) : Len(handed[i]) \in 1..BatchSize
        /\ \A i \in 1..(Len(handed) - 1) : Len(handed[i]) = BatchSize
        /\ pc \in {"held", "rows", "get"} =>
             \A i \in 1..Len(handed) : Len(handed[i]) = BatchSize

-----------------------------------------------------------------------------
(* The inductive invariant.                                                 *)

\* What each surface and each place leave empty.
PlaceInv ==
    /\ pc \in {"new", "execute"} => index = 1 /\ handed = <<>>
    /\ pc \in {"new", "execute", "get"} => offset = 0
    /\ pc = "held" => surface \in Generators
    /\ pc = "last" => index = Len(lens) /\ data = <<>> /\ offset = 0 /\ batch = <<>>
    /\ (pc = "over") <=> (ending # "none")
    /\ offset <= Len(data) /\ Len(data) <= MaxLen
    /\ surface = "query" => data = <<>> /\ offset = 0
    /\ surface \in {"stream", "export"} => batch = <<>>
    /\ surface = "batches" => Len(batch) < BatchSize

\* The replies to this call hold their rows.
Faithful == surface \notin Malformed \cap {"query"}

Inv ==
    /\ TypeOK
    /\ PlaceInv
    /\ PartitionReleased
    /\ BatchesFull
    /\ Faithful => RowsConserved /\ NothingTruncated
=============================================================================
