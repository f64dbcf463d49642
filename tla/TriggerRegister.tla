--------------------------- MODULE TriggerRegister --------------------------
(***************************************************************************)
(* What blast control promises to an operator, with no transactions,       *)
(* locks or queues: one command that is ON with a deadline, or OFF.        *)
(* A command takes effect at once, is stamped with the time of its         *)
(* request, and an ON command is turned OFF by the system only when its    *)
(* own deadline has passed, leaving a record of it.                        *)
(***************************************************************************)
EXTENDS Integers

CONSTANT Minutes   (* timeouts a command may carry *)

VARIABLES
  time,      (* the present                                      *)
  value,     (* 1: ON, 0: OFF, -1: no command was ever given     *)
  since,     (* request time of the command                      *)
  minutes,   (* timeout of the last ON command, 0 if none        *)
  record     (* request times of the ON commands that timed out  *)

regVars == <<time, value, since, minutes, record>>

Init == time = 0 /\ value = -1 /\ since = 0 /\ minutes = 0 /\ record = {}

(* "requested" may lie in the past: requests overtake each other. *)
TurnOn(requested, m) ==
  /\ requested <= time
  /\ value' = 1
  /\ since' = requested
  /\ minutes' = m
  /\ UNCHANGED <<time, record>>

TurnOff(requested) ==
  /\ requested <= time
  /\ value' = 0
  /\ since' = requested
  /\ UNCHANGED <<time, minutes, record>>

TimeOut(requested) ==
  /\ value = 1
  /\ time >= since + minutes
  /\ requested <= time
  /\ record' = record \cup {since}
  /\ value' = 0
  /\ since' = requested
  /\ UNCHANGED <<time, minutes>>

Advance == time' = time + 1 /\ UNCHANGED <<value, since, minutes, record>>

Next ==
  \/ \E r \in 0 .. time, m \in Minutes : TurnOn(r, m)
  \/ \E r \in 0 .. time : TurnOff(r) \/ TimeOut(r)
  \/ Advance

(* An ON command whose deadline has passed does not stay ON. *)
NoOverdueForever ==
  WF_regVars(\E r \in 0 .. time : TimeOut(r))

Safety == Init /\ [][Next]_regVars
Spec == Safety /\ NoOverdueForever
=============================================================================
