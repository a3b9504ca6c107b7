---------------------------- MODULE MCInputQueue ----------------------------
(* Model-checking instances of InputQueue. *)
EXTENDS InputQueue
=============================================================================
