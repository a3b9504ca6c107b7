---------------------------- MODULE MCSwarmPool ----------------------------
(***************************************************************************)
(* Instances of SwarmPool for TLC.                                         *)
(***************************************************************************)
EXTENDS SwarmPool
=============================================================================
