---------------------------- MODULE MCChannelRpc ----------------------------
(***************************************************************************)
(* Instances of the channel layer: calls and an event on connections that  *)
(* begin after the handshake or before it, and the two ways in which a     *)
(* subscription goes wrong.                                                *)
(***************************************************************************)
EXTENDS ChannelRpc

\* A listener comes twice after the handshake, once before it.
Listens == [s \in Starts |-> IF s = "steady" THEN 2 ELSE 1]
=============================================================================
