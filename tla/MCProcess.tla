----------------------------- MODULE MCProcess ------------------------------
(* Two objects and two spawns, of a program that was started with all      *)
(* standard descriptors, or without standard output.                       *)
EXTENDS Process

MCStd == {0..2, {0, 2}}
=============================================================================
