---------------------------- MODULE BatchPlanner ----------------------------
(***************************************************************************)
(* batches.py: _BatchPlanner, which cuts a single-pass source of records   *)
(* into INSERT statements that respect max_rows and max_bytes.  One step   *)
(* is one turn of the loop in next_batch().                                *)
(*                                                                         *)
(* A record is its position in the source and the number of bytes its      *)
(* encoded binding values take.  Everything else that makes up the request *)
(* body (keys, separators, placeholders, the fixed part) is counted the    *)
(* way the code builds it.                                                 *)
(***************************************************************************)
EXTENDS Naturals, Sequences, FiniteSets

CONSTANTS MaxInput,        \* bound on the number of records the source yields
          MaxRows,         \* max_rows
          MaxBytes,        \* max_bytes
          Width,           \* len(columns)
          SingleOverhead,  \* len(_body(prefix + placeholder, b""))
          RowLens          \* lengths the encoded values of a record can have

\* __init__ refuses no columns and limits that are not positive.  (It also caps
\* max_rows at 200,000, which nothing here depends on.)
ASSUME PlannerAssumption ==
    /\ MaxInput \in Nat
    /\ MaxRows \in Nat \ {0}
    /\ MaxBytes \in Nat \ {0}
    /\ Width \in Nat \ {0}
    /\ SingleOverhead \in Nat
    /\ RowLens \subseteq Nat \ {0}

VARIABLES pc,          \* "fill" while next_batch() runs
          buf,         \* the records of the batch being filled or written
          size,        \* running size of its request body
          pending,     \* validated look-ahead record, or NoRow
          exhausted,   \* the source has raised StopIteration
          consumed,    \* consumed_rows
          confirmed,   \* confirmed_rows
          completed,   \* summaries of the confirmed batches
          phase,       \* phase of the BatchWriteError, "none" before
          outcome      \* outcome of the BatchWriteError, "none" before

bufferVars == <<buf, size, pending, exhausted, consumed>>
progressVars == <<confirmed, completed>>
reportVars == <<phase, outcome>>
plannerVars == <<pc, bufferVars, progressVars, reportVars>>

NoRow == [at |-> 0, len |-> 0]
Row == [at : Nat, len : RowLens]
Summary == [start : Nat, rows : Nat \ {0}]

Phases == {"none", "input", "validation", "submission", "execution"}
Outcomes == {"none", "not_executed", "failed", "unknown", "succeeded"}

BufferTypeOK ==
    /\ buf \in Seq(Row)
    /\ size \in Nat
    /\ pending \in Row \cup {NoRow}
    /\ exhausted \in BOOLEAN
    /\ consumed \in Nat
    /\ confirmed \in Nat
    /\ completed \in Seq(Summary)

PlannerTypeOK ==
    /\ pc \in {"fill", "flush", "ready", "end", "raised"}
    /\ BufferTypeOK
    /\ phase \in Phases
    /\ outcome \in Outcomes

PlannerInit ==
    /\ pc = "fill"
    /\ buf = <<>>
    /\ size = 0
    /\ pending = NoRow
    /\ exhausted = FALSE
    /\ consumed = 0
    /\ confirmed = 0
    /\ completed = <<>>
    /\ phase = "none"
    /\ outcome = "none"

-----------------------------------------------------------------------------
\* Bytes of the placeholder "(?, ?, ...)".
PlaceholderLen == 3 * Width

\* Digits in the binding keys offset+1 .. offset+Width: a key has one digit for
\* each power of ten that does not exceed it.
KeyDigits(offset) ==
    Cardinality({kd \in ((offset + 1)..(offset + Width)) \X (0..9) :
                    10 ^ kd[2] <= kd[1]})

\* Bytes of _fragment(): each value with its quoted key and a colon, commas
\* between.
FragmentLen(row, offset) ==
    row.len + KeyDigits(offset) + 3 * Width + (Width - 1)

SingleSize(row) == SingleOverhead + FragmentLen(row, 0)

\* Mutant: the bytes of the record as the first of a batch are taken at every
\* place, so the growth of the binding keys is missed.
CandidateFirstKeys(row) ==
    IF buf = <<>> THEN SingleSize(row)
                  ELSE size + 2 + PlaceholderLen + 1 + FragmentLen(row, 0)

\* The size of the body once `row' joins the batch, as the loop computes it:
\* ", " and a placeholder in the SQL, "," and a fragment in the bindings.
Candidate(row) ==
    IF buf = <<>>
      THEN SingleSize(row)
      ELSE size + 2 + PlaceholderLen + 1 + FragmentLen(row, Len(buf) * Width)

\* Bytes of the fragments of `rows', up to each of them.
FragmentsLen(rows) ==
    LET total[i \in 0..Len(rows)] ==
            IF i = 0 THEN 0
            ELSE total[i - 1] + FragmentLen(rows[i], (i - 1) * Width)
    IN  total

\* The length of the body that _body() actually puts together for `rows'.
BodyLen(rows) ==
    LET n == Len(rows)
    IN  SingleOverhead + (n - 1) * (2 + PlaceholderLen)
          + FragmentsLen(rows)[n] + (n - 1)

-----------------------------------------------------------------------------
\* planner.error(): a local failure, before the submission is ready.
LocalError(ph) ==
    /\ pc' = "raised"
    /\ phase' = ph
    /\ outcome' = "not_executed"
    /\ UNCHANGED progressVars

Filling == pc = "fill" /\ Len(buf) < MaxRows

\* Mutant: the record that does not fit is not kept for the next batch.
PlaceDropsOverflow(row) ==
    IF SingleSize(row) > MaxBytes
      THEN /\ LocalError("validation")
           /\ pending' = NoRow
           /\ UNCHANGED <<buf, size>>
      ELSE /\ IF Candidate(row) > MaxBytes
                THEN /\ pc' = "flush"
                     /\ UNCHANGED <<buf, size>>
                ELSE /\ buf' = Append(buf, row)
                     /\ size' = Candidate(row)
                     /\ UNCHANGED pc
           /\ pending' = NoRow
           /\ UNCHANGED <<progressVars, reportVars>>

\* What the loop does with a validated record.
Place(row) ==
    IF SingleSize(row) > MaxBytes
      THEN /\ LocalError("validation")
           /\ pending' = NoRow
           /\ UNCHANGED <<buf, size>>
      ELSE /\ IF Candidate(row) > MaxBytes
                THEN /\ pc' = "flush"
                     /\ pending' = row
                     /\ UNCHANGED <<buf, size>>
                ELSE /\ buf' = Append(buf, row)
                     /\ size' = Candidate(row)
                     /\ pending' = NoRow
                     /\ UNCHANGED pc
           /\ UNCHANGED <<progressVars, reportVars>>

\* The look-ahead record of the previous batch comes first.
TakePending ==
    /\ Filling
    /\ pending # NoRow
    /\ Place(pending)
    /\ UNCHANGED <<exhausted, consumed>>

MayPull == Filling /\ pending = NoRow /\ ~ exhausted

\* next(iterator) yields a record that validates.
TakeRecord(len) ==
    /\ MayPull
    /\ consumed < MaxInput
    /\ consumed' = consumed + 1
    /\ Place([at |-> consumed, len |-> len])
    /\ UNCHANGED exhausted

\* next(iterator) yields a record of the wrong shape, or one that cannot be
\* encoded: it counts as consumed, and the unsent buffer is given up.
TakeInvalid ==
    /\ MayPull
    /\ consumed < MaxInput
    /\ consumed' = consumed + 1
    /\ LocalError("validation")
    /\ UNCHANGED <<buf, size, pending, exhausted>>

\* iter() or next() raises: no record is added.
SourceFails ==
    /\ MayPull
    /\ LocalError("input")
    /\ UNCHANGED bufferVars

\* Mutant: the source is asked before the look-ahead record is used.
SourceEndsFirst ==
    /\ Filling
    /\ exhausted' = TRUE
    /\ pc' = "flush"
    /\ UNCHANGED <<buf, size, pending, consumed, progressVars, reportVars>>

\* No record is left, now or from an earlier call: the loop ends.
SourceEnds ==
    /\ Filling
    /\ pending = NoRow
    /\ exhausted' = TRUE
    /\ pc' = "flush"
    /\ UNCHANGED <<buf, size, pending, consumed, progressVars, reportVars>>

\* Mutant: one row too few.
BatchFullEarly ==
    /\ pc = "fill"
    /\ Len(buf) + 1 = MaxRows
    /\ pc' = "flush"
    /\ UNCHANGED <<bufferVars, progressVars, reportVars>>

\* The loop's own bound.
BatchFull ==
    /\ pc = "fill"
    /\ Len(buf) = MaxRows
    /\ pc' = "flush"
    /\ UNCHANGED <<bufferVars, progressVars, reportVars>>

\* After the loop: no record at all ends the import, otherwise the body is put
\* together and measured once more.
Prepare ==
    /\ pc = "flush"
    /\ IF buf # <<>> /\ (BodyLen(buf) # size \/ BodyLen(buf) > MaxBytes)
         THEN LocalError("validation")
         ELSE /\ pc' = IF buf = <<>> THEN "end" ELSE "ready"
              /\ UNCHANGED <<progressVars, reportVars>>
    /\ UNCHANGED bufferVars

NextBatch ==
    \/ TakePending
    \/ \E len \in RowLens : TakeRecord(len)
    \/ TakeInvalid
    \/ SourceFails
    \/ SourceEnds
    \/ BatchFull
    \/ Prepare

\* confirm(), and the empty buffer with which next_batch() is called again.
confirm ==
    /\ completed' = Append(completed, [start |-> confirmed, rows |-> Len(buf)])
    /\ confirmed' = confirmed + Len(buf)
    /\ buf' = <<>>
    /\ size' = 0
    /\ pc' = "fill"
    /\ UNCHANGED <<pending, exhausted, consumed, reportVars>>

\* The planner on its own: every batch it prepares is written.
Written == pc = "ready" /\ confirm

PlannerNext == NextBatch \/ Written

PlannerSpec == PlannerInit /\ [][PlannerNext]_plannerVars

-----------------------------------------------------------------------------
LookAhead == IF pending = NoRow THEN <<>> ELSE <<pending>>

\* Every record pulled from the source is accounted for exactly once and in
\* source order: confirmed rows, then the buffer, then the look-ahead record.
\* Only the record that an error is about is pulled without being held.  This
\* is what makes next_row_index a boundary the source can be rebuilt from.
RecordsAccounted ==
    LET held == buf \o LookAhead IN
      /\ \A i \in 1..Len(held) : held[i].at = confirmed + i - 1
      /\ IF pc = "raised" /\ phase = "validation"
           THEN consumed - confirmed - Len(held) \in {0, 1}
           ELSE consumed = confirmed + Len(held)

\* The size next_batch() adds up record by record is the length of the body it
\* sends (binding keys grow by a digit at 10, 100, ...), so the final check of
\* the measured budget never stops an import.
MeasuredBudget ==
    buf # <<>> => size = BodyLen(buf) /\ size <= MaxBytes

\* Batches are greedy: one is cut short of max_rows only at the end of the source
\* or where the look-ahead record, which would fit alone, does not fit beside it.
BatchesGreedy ==
    /\ pending # NoRow => BodyLen(<<pending>>) <= MaxBytes
    /\ pc = "ready" =>
         \/ Len(buf) = MaxRows
         \/ pending # NoRow /\ BodyLen(Append(buf, pending)) > MaxBytes
         \/ pending = NoRow /\ exhausted

\* insert_batches() returns normally only once the whole source is written:
\* next_batch() does not return None with a record still held back.
EndsComplete ==
    pc = "end" => exhausted /\ pending = NoRow /\ consumed = confirmed

-----------------------------------------------------------------------------
(* The inductive invariant.                                                 *)

\* Why the loop has stopped, while the batch is prepared and written.
CutInv ==
    pc \in {"flush", "ready"} =>
        \/ Len(buf) = MaxRows
        \/ pending # NoRow /\ Candidate(pending) > MaxBytes
        \/ pending = NoRow /\ exhausted

\* A record is held back only if it fits alone.
PendingInv == pending # NoRow => SingleSize(pending) <= MaxBytes

PlannerInv ==
    /\ BufferTypeOK
    /\ RecordsAccounted
    /\ MeasuredBudget
    /\ EndsComplete
    /\ PendingInv
    /\ CutInv
    /\ pc = "ready" => buf # <<>>
=============================================================================
