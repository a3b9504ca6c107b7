---------------------------- MODULE MCRunService ----------------------------
(***************************************************************************)
(* Instances of the run service: calls that overlap, with a close and a    *)
(* crash, and the four statements of the code that do not hold of them.    *)
(***************************************************************************)
EXTENDS RunService

Nothing == {}
Crashes == {"crash"}
Closes == {"close"}
Both == {"close", "crash"}
=============================================================================
