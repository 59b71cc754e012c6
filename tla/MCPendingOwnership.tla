-------------------------- MODULE MCPendingOwnership --------------------------
(* Instances of PendingOwnership for TLC. *)
EXTENDS PendingOwnership, TLC

CONSTANTS t1, t2, t3, c1

OwnResource == [t \in Tokens |-> t]          \* every registration has its own resource
SharedResource == [t \in Tokens |-> IF t = t3 THEN t1 ELSE t] \* t3 registers t1 again
=============================================================================
