------------------------ MODULE MCTriggerReconciler -------------------------
(* A small instance of TriggerReconciler for TLC: the first station never  *)
(* expires within the bounds, the others do.                               *)
EXTENDS TriggerReconciler

Stations == 1 .. 3
TimeoutOf == [b \in Stations |-> IF b = 1 THEN MaxClock + 1 ELSE 1]
=============================================================================
