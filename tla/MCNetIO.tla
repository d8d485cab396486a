------------------------------ MODULE MCNetIO -------------------------------
(* A buffer smaller than a message and a chunk smaller than both.          *)
EXTENDS NetIO

MCLens == {0, 1, 5}
=============================================================================
