------------------------ MODULE MCPersistentProtocol ------------------------
(***************************************************************************)
(* Instances of PersistentProtocol for TLC.                                *)
(***************************************************************************)
EXTENDS PersistentProtocol

CONSTANTS near, far

\* How many messages each side sends: a burst of one side, or an exchange.
Burst == [p \in Peers |-> IF p = near THEN 3 ELSE 0]
Exchange == [p \in Peers |-> IF p = near THEN 2 ELSE 1]
=============================================================================
