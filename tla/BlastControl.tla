---------------------------- MODULE BlastControl ----------------------------
(***************************************************************************)
(* The trigger command of one BASE station: START and RESET requests,      *)
(* automatic expiry (the reconciler daemon and the expiry-on-read of a     *)
(* configuration request) and device acknowledgements, as the PostgreSQL   *)
(* transactions of                                                         *)
(*   services/blast_service.py, config_repository.py,                      *)
(*   blast_timeout_reconciler.py and trigger_ack_service.py.               *)
(*                                                                         *)
(* A transaction is BEGIN, then one step in which it obtains the           *)
(* TriggerStart row lock and decides, then COMMIT or ROLLBACK.  Its writes *)
(* are invisible until COMMIT.  now() is the time of BEGIN, so two         *)
(* transactions may commit in the opposite order of their timestamps.      *)
(***************************************************************************)
EXTENDS Integers, Sequences

CONSTANTS
  Operators,    (* connections that serve START and RESET requests          *)
  Expirers,     (* connections that run expire_one_on_conn                  *)
  Reconciler,   (* the one of them that is the reconciler daemon            *)
  Ackers,       (* connections that serve trigger-ack requests              *)
  Base,         (* the authoritative BASE device of the site                *)
  Rovers,       (* registered rovers of the same site                       *)
  Strangers,    (* senders rejected before the command is looked at         *)
  Timeouts,     (* TimeOutTrigger values, in minutes                        *)
  NoTxn,        (* the lock is free                                         *)
  NoDevice,     (* a transaction that is not an acknowledgement             *)
  MaxClock,     (* bound: last minute explored                              *)
  MaxCommands,  (* bound: pending rows written before requests stop         *)
  MaxFailures   (* bound: transactions that are rolled back                 *)

Txns == Operators \cup Expirers \cup Ackers
Devices == {Base} \cup Rovers \cup Strangers

ASSUME TimeoutsPositive == Timeouts \subseteq Nat \ {0}
ASSUME BoundsAreNat ==
  MaxClock \in Nat /\ MaxCommands \in Nat /\ MaxFailures \in Nat
ASSUME SentinelsDiffer == NoTxn \notin Txns /\ NoDevice \notin Devices
ASSUME ReconcilerExpires == Reconciler \in Expirers
ASSUME KindsDisjoint ==
  /\ Operators \cap Expirers = {}
  /\ Operators \cap Ackers = {}
  /\ Expirers \cap Ackers = {}
ASSUME SendersDisjoint ==
  Base \notin Rovers /\ Base \notin Strangers /\ Rovers \cap Strangers = {}

VARIABLES
  clock,       (* the database clock, in minutes                            *)
  config,      (* device_config row of TriggerStart                         *)
  timeout,     (* device_config value of TimeOutTrigger, 0: no row          *)
  pending,     (* device_config_pending rows of TriggerStart, by id         *)
  events,      (* blast_trigger_timeout_events                              *)
  acks,        (* blast_trigger_acks, retries of one ACK taken together     *)
  rejections,  (* reason codes found in blast_trigger_ack_rejections        *)
  txn,         (* the open transaction of every connection                  *)
  lock,        (* who holds the TriggerStart row lock                       *)
  failures     (* transactions rolled back so far                           *)

tables == <<config, timeout, pending, events, acks, rejections>>
vars == <<clock, tables, txn, lock, failures>>

---------------------------------------------------------------------------
(* Rows                                                                    *)

NoRow == [value |-> -1, updated_at |-> 0, updated_by |-> "nobody"]
ConfigRow == [value : {0, 1}, updated_at : Nat,
              updated_by : {"operator", "TIMEOUT_EXPIRED"}]
(* "minutes" and "by" are not columns of device_config_pending: they are    *)
(* the TimeOutTrigger row and the updated_by written by the same call.      *)
PendingRow == [value : {0, 1}, created_at : Nat, acked : BOOLEAN,
               minutes : Nat, by : {"operator", "TIMEOUT_EXPIRED"}]
Event == [started_at : Nat, expired_at : Nat]
Ack == [device : Devices, row : Nat, value : {0, 1}]
Reasons == {"UNKNOWN_DEVICE", "COMMAND_STATE_MISMATCH",
            "NO_MATCHING_PENDING", "STALE_PENDING"}

Kinds == {"none", "start", "reset", "expire", "ack"}
Txn == [phase : {"idle", "begun", "locked"}, kind : Kinds, began : Nat,
        minutes : Nat, device : Devices \cup {NoDevice}, value : {0, 1},
        now : Nat, row : Nat]
IdleTxn == [phase |-> "idle", kind |-> "none", began |-> 0, minutes |-> 0,
            device |-> NoDevice, value |-> 0, now |-> 0, row |-> 0]

TypeOK ==
  /\ clock \in Nat
  /\ config \in ConfigRow \cup {NoRow}
  /\ timeout \in Nat
  /\ pending \in Seq(PendingRow)
  /\ events \subseteq Event
  /\ acks \subseteq Ack
  /\ rejections \subseteq Reasons
  /\ txn \in [Txns -> Txn]
  /\ lock \in Txns \cup {NoTxn}
  /\ failures \in Nat

Init ==
  /\ clock = 0
  /\ config = NoRow
  /\ timeout = 0
  /\ pending = <<>>
  /\ events = {}
  /\ acks = {}
  /\ rejections = {}
  /\ txn = [t \in Txns |-> IdleTxn]
  /\ lock = NoTxn
  /\ failures = 0

---------------------------------------------------------------------------
(* Decisions                                                               *)

(* Mutant: the timeout taken in hours.                                     *)
ExpiredInHours(started_at, minutes, now) ==
  minutes <= 0 \/ now >= started_at + 60 * minutes

(* Mutant: one minute early.                                               *)
ExpiredEarly(started_at, minutes, now) ==
  minutes <= 0 \/ now + 1 >= started_at + minutes

(* A missing or non-positive timeout is not permission to serve a command. *)
Expired(started_at, minutes, now) ==
  minutes <= 0 \/ now >= started_at + minutes

(* Mutant: ORDER BY created_at, id without DESC.                           *)
IsOldestPending(i) ==
  /\ i \in DOMAIN pending
  /\ \A j \in DOMAIN pending :
       \/ pending[j].created_at > pending[i].created_at
       \/ pending[j].created_at = pending[i].created_at /\ j >= i

(* ORDER BY created_at DESC, id DESC LIMIT 1                               *)
IsLatestPending(i) ==
  /\ i \in DOMAIN pending
  /\ \A j \in DOMAIN pending :
       \/ pending[j].created_at < pending[i].created_at
       \/ pending[j].created_at = pending[i].created_at /\ j <= i

Overdue == config.value = 1 /\ Expired(config.updated_at, timeout, clock)

(* Mutant: the value of the pending row is not compared.                   *)
AckMatchesAnyValue(i, v) ==
  /\ config.value = v
  /\ IsLatestPending(i)
  /\ pending[i].created_at >= config.updated_at

AckMatches(i, v) ==
  /\ config.value = v
  /\ IsLatestPending(i)
  /\ pending[i].value = v
  /\ pending[i].created_at >= config.updated_at

(* The sender check comes first and reads no command; a SELECT FOR UPDATE  *)
(* that finds no row takes no lock.                                        *)
AckRefused(d, v, reason) ==
  \/ reason = "UNKNOWN_DEVICE" /\ d \in Strangers
  \/ /\ d \notin Strangers
     /\ \/ /\ reason = "COMMAND_STATE_MISMATCH"
           /\ config = NoRow \/ (lock = NoTxn /\ config.value # v)
        \/ /\ lock = NoTxn
           /\ config.value = v
           /\ \/ /\ reason = "NO_MATCHING_PENDING"
                 /\ ~ \E i \in DOMAIN pending :
                        IsLatestPending(i) /\ pending[i].value = v
              \/ /\ reason = "STALE_PENDING"
                 /\ \E i \in DOMAIN pending :
                        /\ IsLatestPending(i)
                        /\ pending[i].value = v
                        /\ pending[i].created_at < config.updated_at

---------------------------------------------------------------------------
(* BEGIN                                                                   *)

Begin(t, new) ==
  /\ txn[t].phase = "idle"
  /\ txn' = [txn EXCEPT ![t] =
               [new EXCEPT !.phase = "begun", !.began = clock]]
  /\ UNCHANGED <<clock, tables, lock, failures>>

WithinBounds == Len(pending) < MaxCommands

BeginStart(t, m) ==
  /\ WithinBounds
  /\ clock + m <= MaxClock
  /\ Begin(t, [IdleTxn EXCEPT !.kind = "start", !.minutes = m, !.value = 1])

BeginReset(t) ==
  /\ WithinBounds
  /\ Begin(t, [IdleTxn EXCEPT !.kind = "reset"])

BeginExpire(t) == Begin(t, [IdleTxn EXCEPT !.kind = "expire"])

BeginAck(t, d, v) ==
  Begin(t, [IdleTxn EXCEPT !.kind = "ack", !.device = d, !.value = v])

---------------------------------------------------------------------------
(* The row lock and the decision taken under it                            *)

(* Mutant: SELECT without FOR UPDATE.                                      *)
ReadWithoutLock(t, locked) ==
  /\ txn[t].phase = "begun"
  /\ txn' = [txn EXCEPT ![t] = locked]
  /\ UNCHANGED <<clock, tables, lock, failures>>

Acquire(t, locked) ==
  /\ txn[t].phase = "begun"
  /\ lock = NoTxn
  /\ lock' = t
  /\ txn' = [txn EXCEPT ![t] = locked]
  /\ UNCHANGED <<clock, tables, failures>>

(* The upsert of set_site_trigger_on_conn locks the row.                   *)
LockForWrite(t) ==
  /\ txn[t].kind \in {"start", "reset"}
  /\ Acquire(t, [txn[t] EXCEPT !.phase = "locked"])

(* SELECT ... FOR UPDATE, the timeout, clock_timestamp(), expired().       *)
LockForExpire(t) ==
  /\ txn[t].kind = "expire"
  /\ Overdue
  /\ Acquire(t, [txn[t] EXCEPT !.phase = "locked", !.now = clock])

LockForAck(t, i) ==
  /\ txn[t].kind = "ack"
  /\ txn[t].device \notin Strangers
  /\ AckMatches(i, txn[t].value)
  /\ Acquire(t, [txn[t] EXCEPT !.phase = "locked", !.row = i])

(* Transactions that end without touching the command.                     *)
EndWithoutCommand(t) ==
  /\ txn[t].phase = "begun"
  /\ txn' = [txn EXCEPT ![t] = IdleTxn]
  /\ UNCHANGED <<clock, config, timeout, pending, events, acks, lock, failures>>

ExpireNothing(t) ==
  /\ txn[t].kind = "expire"
  /\ config = NoRow \/ (lock = NoTxn /\ ~Overdue)
  /\ UNCHANGED rejections
  /\ EndWithoutCommand(t)

RejectAck(t, reason) ==
  /\ txn[t].kind = "ack"
  /\ AckRefused(txn[t].device, txn[t].value, reason)
  /\ rejections' = rejections \cup {reason}
  /\ EndWithoutCommand(t)

---------------------------------------------------------------------------
(* COMMIT and ROLLBACK                                                     *)

Release(t) ==
  /\ txn[t].phase = "locked"
  /\ lock' = NoTxn
  /\ txn' = [txn EXCEPT ![t] = IdleTxn]

(* Mutant: the pending row stamped with clock_timestamp().                 *)
set_site_trigger_restamped(value, began, minutes, by) ==
  /\ config' = [value |-> value, updated_at |-> began, updated_by |-> by]
  /\ timeout' = minutes
  /\ pending' = Append(pending, [value |-> value, created_at |-> clock,
                                 acked |-> FALSE, minutes |-> minutes,
                                 by |-> by])

(* Mutant: updated_by is left out of the upsert.                           *)
set_site_trigger_unsigned(value, began, minutes, by) ==
  /\ config' = [value |-> value, updated_at |-> began,
                updated_by |-> config.updated_by]
  /\ timeout' = minutes
  /\ pending' = Append(pending, [value |-> value, created_at |-> began,
                                 acked |-> FALSE, minutes |-> minutes,
                                 by |-> by])

set_site_trigger(value, began, minutes, by) ==
  /\ config' = [value |-> value, updated_at |-> began, updated_by |-> by]
  /\ timeout' = minutes
  /\ pending' = Append(pending, [value |-> value, created_at |-> began,
                                 acked |-> FALSE, minutes |-> minutes,
                                 by |-> by])

CommitStart(t) ==
  /\ txn[t].kind = "start"
  /\ Release(t)
  /\ set_site_trigger(1, txn[t].began, txn[t].minutes, "operator")
  /\ UNCHANGED <<clock, events, acks, rejections, failures>>

CommitReset(t) ==
  /\ txn[t].kind = "reset"
  /\ Release(t)
  /\ set_site_trigger(0, txn[t].began, timeout, "operator")
  /\ UNCHANGED <<clock, events, acks, rejections, failures>>

(* INSERT ... ON CONFLICT (device_id, started_at) DO NOTHING               *)
RecordTimeout(started_at, expired_at) ==
  events' = IF \E e \in events : e.started_at = started_at THEN events
            ELSE events \cup {[started_at |-> started_at,
                               expired_at |-> expired_at]}

(* Mutant: the event is stamped after the row was overwritten.             *)
CommitExpireThenRecord(t) ==
  /\ txn[t].kind = "expire"
  /\ Release(t)
  /\ RecordTimeout(txn[t].began, txn[t].now)
  /\ set_site_trigger(0, txn[t].began, timeout, "TIMEOUT_EXPIRED")
  /\ UNCHANGED <<clock, acks, rejections, failures>>

CommitExpire(t) ==
  /\ txn[t].kind = "expire"
  /\ Release(t)
  /\ RecordTimeout(config.updated_at, txn[t].now)
  /\ set_site_trigger(0, txn[t].began, timeout, "TIMEOUT_EXPIRED")
  /\ UNCHANGED <<clock, acks, rejections, failures>>

(* Mutant: any accepted sender marks the configuration delivered.          *)
CommitAckByAnyone(t) ==
  LET a == txn[t] IN
  /\ a.kind = "ack"
  /\ Release(t)
  /\ pending' = [pending EXCEPT ![a.row] = [@ EXCEPT !.acked = TRUE]]
  /\ acks' = acks \cup {[device |-> a.device, row |-> a.row,
                         value |-> a.value]}
  /\ UNCHANGED <<clock, config, timeout, events, rejections, failures>>

(* Only the BASE marks the configuration delivered; every accepted ACK,    *)
(* retries included, is kept.                                              *)
CommitAck(t) ==
  LET a == txn[t] IN
  /\ a.kind = "ack"
  /\ Release(t)
  /\ pending' = IF a.device = Base
                THEN [pending EXCEPT ![a.row] = [@ EXCEPT !.acked = TRUE]]
                ELSE pending
  /\ acks' = acks \cup {[device |-> a.device, row |-> a.row,
                         value |-> a.value]}
  /\ UNCHANGED <<clock, config, timeout, events, rejections, failures>>

(* Mutant: a failed transaction is never rolled back.                      *)
AbortWithoutRollback(t) ==
  /\ txn[t].phase # "idle"
  /\ failures < MaxFailures
  /\ failures' = failures + 1
  /\ txn' = [txn EXCEPT ![t] = IdleTxn]
  /\ UNCHANGED <<clock, tables, lock>>

(* Any statement may fail, or the connection be lost, before COMMIT.       *)
Abort(t) ==
  /\ txn[t].phase # "idle"
  /\ failures < MaxFailures
  /\ failures' = failures + 1
  /\ txn' = [txn EXCEPT ![t] = IdleTxn]
  /\ lock' = IF lock = t THEN NoTxn ELSE lock
  /\ UNCHANGED <<clock, tables>>

Tick ==
  /\ clock < MaxClock
  /\ clock' = clock + 1
  /\ UNCHANGED <<tables, txn, lock, failures>>

---------------------------------------------------------------------------
Commit(t) == CommitStart(t) \/ CommitReset(t) \/ CommitExpire(t) \/ CommitAck(t)

OperatorStep(t) ==
  \/ \E m \in Timeouts : BeginStart(t, m)
  \/ BeginReset(t)
  \/ LockForWrite(t)

ExpirerStep(t) == BeginExpire(t) \/ LockForExpire(t) \/ ExpireNothing(t)

AckerStep(t) ==
  \/ \E d \in Devices, v \in {0, 1} : BeginAck(t, d, v)
  \/ \E i \in DOMAIN pending : LockForAck(t, i)
  \/ \E reason \in Reasons : RejectAck(t, reason)

Next ==
  \/ \E t \in Operators : OperatorStep(t)
  \/ \E t \in Expirers : ExpirerStep(t)
  \/ \E t \in Ackers : AckerStep(t)
  \/ \E t \in Txns : Commit(t) \/ Abort(t)
  \/ Tick

Spec == Init /\ [][Next]_vars

(* The clock runs, and a transaction that holds the lock ends.  Every ten  *)
(* seconds the daemon opens a transaction for an active trigger; its turn  *)
(* for the lock comes, since the lock queue is first come first served.    *)
(* Nothing is assumed of operators, devices or configuration requests.     *)
Fairness ==
  /\ WF_vars(Tick)
  /\ \A t \in Txns : WF_vars(Commit(t))
  /\ WF_vars(config.value = 1 /\ BeginExpire(Reconciler))
  /\ SF_vars(LockForExpire(Reconciler))
  /\ WF_vars(ExpireNothing(Reconciler))

FairSpec == Spec /\ Fairness

---------------------------------------------------------------------------
(* Properties                                                              *)

(* What an open transaction knows.  One transaction at most is past the    *)
(* row lock, and what it decided there still holds when it commits: the    *)
(* trigger it expires is the one in force and is overdue, the pending row  *)
(* it acknowledges is the latest and carries the value in force.           *)
DecisionsHold ==
  \A t \in Txns :
    /\ txn[t].phase = "locked" <=> lock = t
    /\ txn[t].began <= clock
    /\ txn[t].kind = "start" => txn[t].minutes \in Timeouts
    /\ txn[t].kind = "ack" => txn[t].device \in Devices
    /\ lock = t /\ txn[t].kind = "expire" =>
         /\ config.value = 1
         /\ Expired(config.updated_at, timeout, txn[t].now)
         /\ txn[t].now <= clock
    /\ lock = t /\ txn[t].kind = "ack" =>
         /\ AckMatches(txn[t].row, txn[t].value)
         /\ txn[t].device \notin Strangers

(* The pending row written last is the command in force: value, timestamp, *)
(* author and timeout of the configuration and of the queue never diverge, *)
(* whatever is rolled back (one transaction in set_site_trigger_on_conn).  *)
PendingMirrorsConfig ==
  /\ config = NoRow <=> pending = <<>>
  /\ pending # <<>> =>
       LET last == pending[Len(pending)] IN
       /\ last.value = config.value
       /\ last.created_at = config.updated_at
       /\ last.by = config.updated_by
       /\ last.minutes = timeout

(* A command that is served as active was given by an operator and has a   *)
(* timeout to end it.                                                      *)
StartsHaveTimeouts ==
  config.value = 1 =>
    timeout \in Timeouts /\ config.updated_by = "operator"

(* A RESET written by the expiry path directly follows the START it ends   *)
(* and is never visible before that START's own deadline: a renewal that   *)
(* commits between the scan and the expiry transaction is not reset by the *)
(* deadline of the START it replaced.  The START ended is audited, and the *)
(* RESET keeps its timeout.                                                *)
TimeoutsAreDue ==
  \A i \in DOMAIN pending : pending[i].by = "TIMEOUT_EXPIRED" =>
    /\ i > 1
    /\ pending[i - 1].value = 1
    /\ pending[i - 1].created_at + pending[i - 1].minutes <= clock
    /\ \E e \in events : e.started_at = pending[i - 1].created_at
    /\ pending[i].minutes = pending[i - 1].minutes

(* Every audit event is the only one for its timestamp, and justified by a *)
(* START with that timestamp whose timeout had run out when the event was  *)
(* read: the reconciler and a reader that expire the same START leave one  *)
(* event.  None lies in the future.                                        *)
EventsAreJustified ==
  \A e \in events :
    /\ e.expired_at <= clock
    /\ \A other \in events : other.started_at = e.started_at => other = e
    /\ \E i \in DOMAIN pending :
         /\ pending[i].value = 1
         /\ pending[i].created_at = e.started_at
         /\ e.expired_at >= e.started_at + pending[i].minutes

(* Delivery is what the BASE reported and nobody else: a pending row is    *)
(* marked acked exactly when an accepted ACK of the BASE names it.         *)
DeliveredByBase ==
  \A i \in DOMAIN pending :
    pending[i].acked <=> \E a \in acks : a.device = Base /\ a.row = i

(* An ACK names a pending row that carries the value it acknowledges.      *)
AcksNameTheirCommand ==
  \A a \in acks : /\ a.row \in DOMAIN pending
                  /\ pending[a.row].value = a.value
                  /\ a.device \notin Strangers

(* When an accepted ACK becomes visible, its value is still the one served *)
(* and no other command has been queued since it was matched.              *)
AcksAreCurrent ==
  [][\A a \in acks' \ acks : AckMatches(a.row, a.value)]_vars

(* An active command ends in one of three ways: a RESET or a START of an   *)
(* operator, or an expiry that leaves its audit event in the same commit.  *)
AutoResetIsAudited ==
  [][(config.value = 1 /\ config'.updated_by = "TIMEOUT_EXPIRED") =>
       \E e \in events' : /\ e.started_at = config.updated_at
                          /\ e.expired_at <= clock]_vars

(* The row the ACK service compares against is never older than the        *)
(* configuration: its STALE_PENDING answer is unreachable.                 *)
NeverStale == "STALE_PENDING" \notin rejections

(* Blast control implements the register an operator is promised.          *)
Register == INSTANCE TriggerRegister WITH
  Minutes <- Timeouts, time <- clock, value <- config.value,
  since <- config.updated_at, minutes <- timeout,
  record <- {e.started_at : e \in events}

(* Every commit of a START, RESET or expiry is one step of the register at *)
(* one instant, and nothing else is visible through it.                    *)
ImplementsRegister == Register!Safety

(* The register's promise of progress: an overdue command is turned OFF.   *)
ImplementsProgress == Register!NoOverdueForever

(* No START stays in force for ever without being renewed.                 *)
EveryStartEnds ==
  \A b \in 0 .. MaxClock :
    (config.value = 1 /\ config.updated_at = b)
      ~> ~(config.value = 1 /\ config.updated_at = b)

(* The row that trigger-ack and trigger-status take for the latest command *)
(* (newest created_at) is the one written by the command in force.         *)
LatestPendingIsInForce ==
  pending # <<>> => IsLatestPending(Len(pending))

=============================================================================
