---------------------------- MODULE TriggerStatus ----------------------------
(***************************************************************************)
(* The operator's read model of a trigger, GET /trigger-status of          *)
(* apps/api/routers/v1/blast.py, beside the commands it reports.           *)
(*                                                                         *)
(* The handler borrows one connection and opens no transaction: each of    *)
(* its SELECTs sees the database at another instant, and commands, expiry  *)
(* and acknowledgements commit between them.                               *)
(***************************************************************************)
EXTENDS BlastControl

CONSTANT Window   (* 5 seconds, in units of the clock *)

ASSUME WindowIsNat == Window \in Nat

VARIABLES
  read,    (* what one request has fetched so far                           *)
  truths   (* history: the deliveries that were true at some instant of it  *)

statusVars == <<vars, read, truths>>

Unread == [phase |-> "idle", config |-> NoRow, row |-> 0, acked |-> FALSE,
           expired_at |-> -1]

Acked(i) == \E a \in acks : a.device = Base /\ a.row = i

(* The delivery of the latest pending row at this instant.                 *)
Deliveries ==
  {[value |-> config.value, row |-> i, acked |-> Acked(i)] :
     i \in {j \in DOMAIN pending : IsLatestPending(j)}}

ReadTypeOK ==
  /\ read \in [phase : {"idle", "config", "pending", "ack", "done"},
               config : ConfigRow \cup {NoRow},
               row : Nat,
               acked : BOOLEAN, expired_at : Nat \cup {-1}]
  /\ truths \subseteq [value : {-1, 0, 1}, row : Nat, acked : BOOLEAN]

StatusInit == Init /\ read = Unread /\ truths = {}

---------------------------------------------------------------------------
ReadConfig ==
  /\ read.phase = "idle"
  /\ read' = [read EXCEPT !.phase = "config", !.config = config]
  /\ truths' = Deliveries
  /\ UNCHANGED vars

(* Mutant: the oldest row instead of the latest one.                       *)
ReadOldestPending ==
  /\ read.phase = "config"
  /\ read' = [read EXCEPT !.phase = "pending",
                !.row = IF pending = <<>> THEN 0 ELSE 1]
  /\ UNCHANGED <<vars, truths>>

(* Mutant: the absence of a row is -1, which passes for a row.             *)
ReadPendingOrMinusOne ==
  /\ read.phase = "config"
  /\ \/ pending = <<>> /\ read' = [read EXCEPT !.phase = "pending", !.row = -1]
     \/ \E i \in DOMAIN pending :
          /\ IsLatestPending(i)
          /\ read' = [read EXCEPT !.phase = "pending", !.row = i]
  /\ UNCHANGED <<vars, truths>>

(* No row, no request for its ACK: row 0.                                  *)
ReadPending ==
  /\ read.phase = "config"
  /\ \/ pending = <<>> /\ read' = [read EXCEPT !.phase = "pending"]
     \/ \E i \in DOMAIN pending :
          /\ IsLatestPending(i)
          /\ read' = [read EXCEPT !.phase = "pending", !.row = i]
  /\ UNCHANGED <<vars, truths>>

(* Mutant: any ACK of that value, whichever command it named.              *)
ReadAckOfAnyRow ==
  /\ read.phase = "pending"
  /\ read' = [read EXCEPT !.phase = "ack",
                !.acked = \E a \in acks : a.device = Base
                                          /\ a.value = read.config.value]
  /\ UNCHANGED <<vars, truths>>

(* The BASE's ACKs that name the row just read, compared as ack_matches    *)
(* does; the latest of them stands for all, as they carry one value.       *)
ReadAck ==
  /\ read.phase = "pending"
  /\ read' = [read EXCEPT !.phase = "ack",
                !.acked = \E a \in acks : /\ a.device = Base
                                          /\ a.row = read.row
                                          /\ a.value = read.config.value]
  /\ UNCHANGED <<vars, truths>>

(* ORDER BY expired_at DESC LIMIT 1                                        *)
ReadTimeout ==
  /\ read.phase = "ack"
  /\ \/ events = {} /\ read' = [read EXCEPT !.phase = "done"]
     \/ \E e \in events :
          /\ \A f \in events : f.expired_at <= e.expired_at
          /\ read' = [read EXCEPT !.phase = "done",
                        !.expired_at = e.expired_at]
  /\ UNCHANGED <<vars, truths>>

ReadStep == ReadConfig \/ ReadPending \/ ReadAck \/ ReadTimeout

(* The database moves on; while the request is open its history grows.     *)
DatabaseStep ==
  /\ Next
  /\ truths' = IF read.phase \in {"config", "pending"}
               THEN truths \cup Deliveries' ELSE truths
  /\ UNCHANGED read

StatusNext == ReadStep \/ DatabaseStep

StatusSpec == StatusInit /\ [][StatusNext]_statusVars

---------------------------------------------------------------------------
(* The reply                                                               *)

current_pending ==
  /\ read.config # NoRow
  /\ read.row # 0
  /\ pending[read.row].value = read.config.value
  /\ pending[read.row].created_at >= read.config.updated_at

timeout_is_current ==
  /\ read.config.value = 0
  /\ read.expired_at # -1
  /\ read.config.updated_at >= read.expired_at
  /\ read.config.updated_at - read.expired_at < Window

---------------------------------------------------------------------------
(* A delivery the reply reports, as acknowledged or as still pending, was  *)
(* true at one instant of the request: the value was being served, the row *)
(* was the latest command and its ACK was or was not there, all at once.   *)
(* The four SELECTs of trigger_status read four different instants.        *)
DeliveryWasTrue ==
  (read.phase = "done" /\ current_pending) =>
    [value |-> read.config.value, row |-> read.row, acked |-> read.acked]
      \in truths

(* A trigger that the expiry path turned OFF, and that nobody has touched  *)
(* since, is reported with the reason AUTO_TIMEOUT.                        *)
AutoResetIsReported ==
  (/\ read.phase = "done"
   /\ read.config = config
   /\ config.updated_by = "TIMEOUT_EXPIRED") => timeout_is_current
=============================================================================
