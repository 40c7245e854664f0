--------------------------- MODULE BatchProgress ---------------------------
(***************************************************************************)
(* What insert_batches() promises to the application that calls it         *)
(* (docs/batch-writes.md, "Confirmed progress" and "Partial completion and *)
(* failures"), with nothing about how it is done.                          *)
(*                                                                         *)
(* Batches become durable in order, one at a time, and are confirmed only  *)
(* once durable.  The import ends by returning or with a verdict about the *)
(* first unconfirmed batch, and the verdict binds the future: after        *)
(* not_executed and failed the batch never becomes durable, after unknown  *)
(* it still may.                                                           *)
(***************************************************************************)
EXTENDS Naturals

VARIABLES written,    \* batches whose rows are durable
          done,       \* number of confirmed batches
          state       \* "open", "returned", or the verdict

progress == <<written, done, state>>

Verdicts == {"not_executed", "failed", "unknown", "succeeded"}

Init ==
    /\ written = {}
    /\ done = 0
    /\ state = "open"

\* The batch at hand becomes durable.
Write ==
    /\ state \in {"open", "unknown"}
    /\ done \notin written
    /\ written' = written \cup {done}
    /\ UNCHANGED <<done, state>>

Confirm ==
    /\ state = "open"
    /\ done \in written
    /\ done' = done + 1
    /\ UNCHANGED <<written, state>>

Stop(v) ==
    /\ state = "open"
    /\ v = "succeeded" => done \in written
    /\ v \in {"not_executed", "failed"} => done \notin written
    /\ state' = v
    /\ UNCHANGED <<written, done>>

Return ==
    /\ state = "open"
    /\ done \notin written
    /\ state' = "returned"
    /\ UNCHANGED <<written, done>>

Next ==
    \/ Write
    \/ Confirm
    \/ \E v \in Verdicts : Stop(v)
    \/ Return

Spec == Init /\ [][Next]_progress

-----------------------------------------------------------------------------
\* The durable batches are the confirmed ones and at most the one after them,
\* and a verdict of not_executed or failed (or a normal return) rules that one
\* out.
PrefixDurable ==
    /\ done \in Nat
    /\ written = 0..(done - 1) \/ written = 0..done
    /\ state \in {"not_executed", "failed", "returned"} => written = 0..(done - 1)
    /\ state = "succeeded" => written = 0..done
=============================================================================
