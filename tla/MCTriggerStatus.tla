-------------------------- MODULE MCTriggerStatus ---------------------------
(* The module of the runs that check the status request, which reads the   *)
(* command and its acknowledgements while they change.                     *)
EXTENDS TriggerStatus

(* Where the run looks.  The reply is complete when the request is done.   *)
(* While it reads, the clock stands at its first values and no ACK was     *)
(* refused, a table the request does not read.                             *)
InScope ==
  /\ read.phase # "done"
  /\ read.phase # "idle" => clock <= 1 /\ rejections = {}
=============================================================================
