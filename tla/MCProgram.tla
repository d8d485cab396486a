----------------------------- MODULE MCProgram ------------------------------
(* Instance of Program: every command line of at most four arguments.     *)
EXTENDS Program

MCLines == UNION {[1..n -> Token] : n \in 0..4}
=============================================================================
