---------------------------- MODULE MCCallTiming ----------------------------
(* CallTiming for TLC: a cfg cannot hold a negative number.                 *)
EXTENDS CallTiming

\* Dates in the past, near, and far beyond the cap.
MCOffsets == {-3, 2, 100}
=============================================================================
