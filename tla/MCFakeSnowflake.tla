-------------------------- MODULE MCFakeSnowflake --------------------------
(* FakeSnowflake for TLC.                                                   *)
EXTENDS FakeSnowflake

\* A predicate for everything, and one for one of the statements.
MCPredicates == {{"s"}, {}}

\* Three rows in two partitions, ready after two polls; a row in two partitions, with
\* a count, ready at once; an error that the client retries.
MCShapes ==
    {[rows |-> 3, partitions |-> 2, polls |-> 2, count |-> 0, error |-> "none"],
     [rows |-> 1, partitions |-> 2, polls |-> 0, count |-> 2, error |-> "none"],
     [rows |-> 0, partitions |-> 1, polls |-> 0, count |-> 0, error |-> "retried"]}
=============================================================================
