----------------------------- MODULE MCShmQueue -----------------------------
(* A reader on a ring of 3 slots whose counters wrap at 8: SafeLag is 2.   *)
EXTENDS ShmQueue

MCMapped == {2, 3}
=============================================================================
