------------------------ MODULE MCConcurrencyGovernor ------------------------
(***************************************************************************)
(* Instances of ConcurrencyGovernor for TLC.                               *)
(***************************************************************************)
EXTENDS ConcurrencyGovernor

CONSTANTS run_a, run_b, run_c

\* One run, and the two or three that share the key.
One == {run_a}
Two == {run_a, run_b}
Three == {run_a, run_b, run_c}
Nobody == {}
=============================================================================
