------------------------- MODULE BlastControlProofs -------------------------
(***************************************************************************)
(* Proofs about BlastControl for every set of connections, every set of    *)
(* devices, every timeout and every bound.                                 *)
(***************************************************************************)
EXTENDS BlastControl, SequenceTheorems, TLAPS

(***************************************************************************)
(* Types and the row lock.  They are proved together: an ACK row names a   *)
(* device because the transaction that writes it holds a decision about it.*)
(***************************************************************************)
LEMMA TypeInit == Init => TypeOK
BY DEF Init, TypeOK, NoRow, IdleTxn, Txn, Kinds

(* A transaction opens, takes the lock or ends without a command: only its *)
(* own record and the lock change.                                         *)
LEMMA IdleTyped == IdleTxn \in Txn
BY DEF IdleTxn, Txn, Kinds

LEMMA OneTxnTyped ==
  ASSUME TypeOK, NEW t \in Txns, NEW new \in Txn,
         txn' = [txn EXCEPT ![t] = new],
         UNCHANGED <<clock, tables, failures>>, lock' \in {lock, t}
  PROVE  TypeOK'
<1>1. txn' \in [Txns -> Txn]
  BY DEF TypeOK
<1>2. lock' \in Txns \cup {NoTxn}
  BY DEF TypeOK
<1>3. QED
  BY <1>1, <1>2 DEF TypeOK, tables

LEMMA BeginTyped ==
  ASSUME TypeOK, NEW t \in Txns, NEW new \in Txn, Begin(t, new)
  PROVE  TypeOK'
<1>1. [new EXCEPT !.phase = "begun", !.began = clock] \in Txn
  BY DEF TypeOK, Txn
<1>2. QED
  BY <1>1, OneTxnTyped DEF Begin

LEMMA AcquireTyped ==
  ASSUME TypeOK, NEW t \in Txns, NEW new \in Txn, Acquire(t, new)
  PROVE  TypeOK'
BY OneTxnTyped DEF Acquire

LEMMA TypeStep ==
  ASSUME TypeOK, DecisionsHold, [Next]_vars
  PROVE  TypeOK'
<1> USE DEF TypeOK
<1>1. ASSUME NEW t \in Operators, NEW m \in Timeouts, BeginStart(t, m)
      PROVE  TypeOK'
  <2>1. m \in Nat
    BY TimeoutsPositive
  <2>2. [IdleTxn EXCEPT !.kind = "start", !.minutes = m, !.value = 1] \in Txn
    BY <2>1, IdleTyped DEF Txn, Kinds
  <2>3. QED
    BY <1>1, <2>2, BeginTyped DEF BeginStart, Txns
<1>2. ASSUME NEW t \in Operators, BeginReset(t)
      PROVE  TypeOK'
  <2>1. [IdleTxn EXCEPT !.kind = "reset"] \in Txn
    BY IdleTyped DEF Txn, Kinds
  <2>2. QED
    BY <1>2, <2>1, BeginTyped DEF BeginReset, Txns
<1>3. ASSUME NEW t \in Operators, LockForWrite(t)
      PROVE  TypeOK'
  <2>1. t \in Txns /\ txn[t] \in Txn
    BY DEF Txns
  <2>2. [txn[t] EXCEPT !.phase = "locked"] \in Txn
    BY <2>1 DEF Txn
  <2>3. QED
    BY <1>3, <2>1, <2>2, AcquireTyped DEF LockForWrite
<1>4. ASSUME NEW t \in Expirers, BeginExpire(t)
      PROVE  TypeOK'
  <2>1. [IdleTxn EXCEPT !.kind = "expire"] \in Txn
    BY IdleTyped DEF Txn, Kinds
  <2>2. QED
    BY <1>4, <2>1, BeginTyped DEF BeginExpire, Txns
<1>5. ASSUME NEW t \in Expirers, LockForExpire(t)
      PROVE  TypeOK'
  <2>1. t \in Txns /\ txn[t] \in Txn
    BY DEF Txns
  <2>2. [txn[t] EXCEPT !.phase = "locked", !.now = clock] \in Txn
    BY <2>1 DEF Txn
  <2>3. QED
    BY <1>5, <2>1, <2>2, AcquireTyped DEF LockForExpire
<1>6. ASSUME NEW t \in Expirers, ExpireNothing(t)
      PROVE  TypeOK'
  BY <1>6, IdleTyped DEF ExpireNothing, EndWithoutCommand, Txns
<1>7. ASSUME NEW t \in Ackers, NEW d \in Devices, NEW v \in {0, 1},
             BeginAck(t, d, v)
      PROVE  TypeOK'
  <2>1. [IdleTxn EXCEPT !.kind = "ack", !.device = d, !.value = v] \in Txn
    BY IdleTyped DEF Txn, Kinds
  <2>2. QED
    BY <1>7, <2>1, BeginTyped DEF BeginAck, Txns
<1>8. ASSUME NEW t \in Ackers, NEW i \in DOMAIN pending, LockForAck(t, i)
      PROVE  TypeOK'
  <2>1. t \in Txns /\ txn[t] \in Txn /\ i \in Nat
    BY DEF Txns
  <2>2. [txn[t] EXCEPT !.phase = "locked", !.row = i] \in Txn
    BY <2>1 DEF Txn
  <2>3. QED
    BY <1>8, <2>1, <2>2, AcquireTyped DEF LockForAck
<1>9. ASSUME NEW t \in Ackers, NEW reason \in Reasons, RejectAck(t, reason)
      PROVE  TypeOK'
  BY <1>9, IdleTyped DEF RejectAck, EndWithoutCommand, Txns
<1>10. ASSUME NEW t \in Txns, CommitStart(t)
       PROVE  TypeOK'
  BY <1>10, SMTT(20) DEF CommitStart, Release, set_site_trigger, IdleTxn, Txn, Kinds,
               ConfigRow, PendingRow
<1>11. ASSUME NEW t \in Txns, CommitReset(t)
       PROVE  TypeOK'
  BY <1>11, SMTT(20) DEF CommitReset, Release, set_site_trigger, IdleTxn, Txn, Kinds,
               ConfigRow, PendingRow
<1>12. ASSUME NEW t \in Txns, CommitExpire(t)
       PROVE  TypeOK'
  <2>1. events' \subseteq Event
    BY <1>12 DEF CommitExpire, RecordTimeout, Event, Txn, ConfigRow, NoRow
  <2>2. QED
    BY <1>12, <2>1, SMTT(20) DEF CommitExpire, Release, set_site_trigger, IdleTxn, Txn,
                       Kinds, ConfigRow, PendingRow
<1>13. ASSUME NEW t \in Txns, CommitAck(t)
       PROVE  TypeOK'
  <2>1. /\ txn[t] \in Txn
        /\ txn[t].device \in Devices
        /\ txn[t].row \in DOMAIN pending
    BY <1>13 DEF CommitAck, Release, DecisionsHold, AckMatches, IsLatestPending
  <2>2. [pending[txn[t].row] EXCEPT !.acked = TRUE] \in PendingRow
    <3>1. pending[txn[t].row] \in PendingRow
      BY <2>1
    <3>2. QED
      BY <3>1 DEF PendingRow
  <2>3. pending' \in Seq(PendingRow)
    BY <1>13, <2>1, <2>2 DEF CommitAck
  <2>4. acks' \subseteq Ack
    BY <1>13, <2>1 DEF CommitAck, Ack, Txn
  <2>5. QED
    BY <1>13, <2>3, <2>4 DEF CommitAck, Release, IdleTxn, Txn, Kinds
<1>14. ASSUME NEW t \in Txns, Abort(t)
       PROVE  TypeOK'
  BY <1>14 DEF Abort, IdleTxn, Txn, Kinds, tables
<1>15. CASE Tick
  BY <1>15 DEF Tick, tables
<1>16. CASE UNCHANGED vars
  BY <1>16 DEF vars, tables
<1>17. QED
  BY <1>1, <1>2, <1>3, <1>4, <1>5, <1>6, <1>7, <1>8, <1>9, <1>10, <1>11,
     <1>12, <1>13, <1>14, <1>15, <1>16
     DEF Next, OperatorStep, ExpirerStep, AckerStep, Commit

LEMMA DecisionsInit == Init => DecisionsHold
BY SentinelsDiffer DEF Init, DecisionsHold, IdleTxn, Txns

LEMMA DecisionsStep ==
  ASSUME TypeOK, DecisionsHold, [Next]_vars
  PROVE  DecisionsHold'
<1> USE DEF TypeOK
<1>1. ASSUME NEW t \in Txns, NEW new \in Txn, Begin(t, new),
             new.kind = "start" => new.minutes \in Timeouts,
             new.kind = "ack" => new.device \in Devices
      PROVE  DecisionsHold'
  <2> DEFINE b == [new EXCEPT !.phase = "begun", !.began = clock]
  <2>1. /\ b.phase = "begun" /\ b.began = clock
        /\ b.kind = new.kind /\ b.minutes = new.minutes
        /\ b.device = new.device
    BY DEF Txn
  <2>2. txn' = [txn EXCEPT ![t] = b] /\ lock # t
    BY <1>1 DEF Begin, DecisionsHold
  <2> HIDE DEF b
  <2>3. /\ txn'[t] = b /\ lock' # t
        /\ \A s \in Txns \ {t} : txn'[s] = txn[s]
    BY <1>1, <2>2 DEF Begin
  <2>4. UNCHANGED <<clock, config, timeout, pending, lock>>
    BY <1>1 DEF Begin, tables
  <2>5. QED
    BY <1>1, <2>1, <2>3, <2>4 DEF DecisionsHold, AckMatches, IsLatestPending
<1>2. ASSUME NEW t \in Txns, Abort(t)
      PROVE  DecisionsHold'
  BY <1>2, SentinelsDiffer
     DEF Abort, DecisionsHold, tables, AckMatches, IsLatestPending, IdleTxn, Txn
<1>3. CASE Tick
  BY <1>3 DEF Tick, DecisionsHold, tables, AckMatches, IsLatestPending, Txn
<1>4. ASSUME NEW t \in Txns, EndWithoutCommand(t)
      PROVE  DecisionsHold'
  BY <1>4, SentinelsDiffer
     DEF EndWithoutCommand, DecisionsHold, AckMatches, IsLatestPending, IdleTxn, Txn
<1>5. ASSUME NEW t \in Txns, LockForWrite(t)
      PROVE  DecisionsHold'
  BY <1>5, SentinelsDiffer
     DEF LockForWrite, Acquire, DecisionsHold, tables, AckMatches,
         IsLatestPending, Txn
<1>6. ASSUME NEW t \in Txns, LockForExpire(t)
      PROVE  DecisionsHold'
  BY <1>6, SentinelsDiffer
     DEF LockForExpire, Acquire, Overdue, DecisionsHold, tables, AckMatches,
         IsLatestPending, Txn
<1>7. ASSUME NEW t \in Txns, NEW i \in DOMAIN pending, LockForAck(t, i)
      PROVE  DecisionsHold'
  BY <1>7, SentinelsDiffer
     DEF LockForAck, Acquire, DecisionsHold, tables, AckMatches,
         IsLatestPending, Txn
<1>8. ASSUME NEW t \in Txns, Release(t), UNCHANGED clock
      PROVE  DecisionsHold'
  BY <1>8, SentinelsDiffer DEF Release, DecisionsHold, IdleTxn, Txn
<1>9. CASE UNCHANGED vars
  BY <1>9 DEF vars, tables, DecisionsHold, AckMatches, IsLatestPending
<1>10. ASSUME NEW t \in Operators, OperatorStep(t)
       PROVE  DecisionsHold'
  BY <1>1, <1>5, <1>10, TimeoutsPositive
     DEF OperatorStep, BeginStart, BeginReset, IdleTxn, Txn, Kinds, Txns
<1>11. ASSUME NEW t \in Expirers, ExpirerStep(t)
       PROVE  DecisionsHold'
  BY <1>1, <1>4, <1>6, <1>11
     DEF ExpirerStep, BeginExpire, ExpireNothing, IdleTxn, Txn, Kinds, Txns
<1>12. ASSUME NEW t \in Ackers, AckerStep(t)
       PROVE  DecisionsHold'
  BY <1>1, <1>4, <1>7, <1>12
     DEF AckerStep, BeginAck, RejectAck, IdleTxn, Txn, Kinds, Txns
<1>13. ASSUME NEW t \in Txns, Commit(t)
       PROVE  DecisionsHold'
  BY <1>8, <1>13 DEF Commit, CommitStart, CommitReset, CommitExpire, CommitAck
<1>14. QED
  BY <1>2, <1>3, <1>9, <1>10, <1>11, <1>12, <1>13 DEF Next

(* Every variable keeps its type, and a decision taken under the TriggerStart *)
(* row lock still holds at COMMIT ("the trigger row lock serializes with      *)
(* START/RESET/ACK", blast_timeout_reconciler.py).                            *)
THEOREM TypeCorrect == Spec => []TypeOK
<1>1. Init => TypeOK /\ DecisionsHold
  BY TypeInit, DecisionsInit
<1>2. TypeOK /\ DecisionsHold /\ [Next]_vars => (TypeOK /\ DecisionsHold)'
  BY TypeStep, DecisionsStep
<1>3. QED
  BY <1>1, <1>2, PTL DEF Spec

THEOREM DecisionsCorrect == Spec => []DecisionsHold
<1>1. Init => TypeOK /\ DecisionsHold
  BY TypeInit, DecisionsInit
<1>2. TypeOK /\ DecisionsHold /\ [Next]_vars => (TypeOK /\ DecisionsHold)'
  BY TypeStep, DecisionsStep
<1>3. QED
  BY <1>1, <1>2, PTL DEF Spec

(***************************************************************************)
(* The queue and the audit.  Only a COMMIT changes the command, the queue, *)
(* the events or the ACKs, so that each proof has one case per COMMIT.     *)
(***************************************************************************)
LEMMA OnlyCommitsAreVisible ==
  ASSUME TypeOK, [Next]_vars
  PROVE  \/ \E t \in Txns : Commit(t) /\ clock' = clock
         \/ /\ UNCHANGED <<config, timeout, pending, events, acks>>
            /\ clock' >= clock
<1> DEFINE Invisible ==
             UNCHANGED <<clock, config, timeout, pending, events, acks>>
<1>1. ASSUME NEW t \in Operators, OperatorStep(t)
      PROVE  Invisible
  BY <1>1 DEF OperatorStep, BeginStart, BeginReset, Begin, LockForWrite, Acquire,
              tables
<1>2. ASSUME NEW t \in Expirers, ExpirerStep(t)
      PROVE  Invisible
  BY <1>2 DEF ExpirerStep, BeginExpire, Begin, LockForExpire, Acquire,
              ExpireNothing, EndWithoutCommand, tables
<1>3. ASSUME NEW t \in Ackers, AckerStep(t)
      PROVE  Invisible
  BY <1>3 DEF AckerStep, BeginAck, Begin, LockForAck, Acquire, RejectAck,
              EndWithoutCommand, tables
<1>4. ASSUME NEW t \in Txns, Commit(t)
      PROVE  clock' = clock
  BY <1>4 DEF Commit, CommitStart, CommitReset, CommitExpire, CommitAck
<1>5. ASSUME NEW t \in Txns, Abort(t)
      PROVE  Invisible
  BY <1>5 DEF Abort, tables
<1>6. Tick => /\ UNCHANGED <<config, timeout, pending, events, acks>>
              /\ clock' >= clock
  BY DEF Tick, tables, TypeOK
<1>7. UNCHANGED vars => Invisible
  BY DEF vars, tables
<1>8. Invisible => /\ UNCHANGED <<config, timeout, pending, events, acks>>
                   /\ clock' >= clock
  BY DEF TypeOK
<1> HIDE DEF Invisible
<1>9. QED
  BY <1>1, <1>2, <1>3, <1>4, <1>5, <1>6, <1>7, <1>8 DEF Next

(* set_site_trigger_on_conn adds the row that carries the new command.     *)
Grown(v, b, m, by) ==
  /\ config' = [value |-> v, updated_at |-> b, updated_by |-> by]
  /\ config'.value = v /\ config'.updated_at = b /\ config'.updated_by = by
  /\ timeout' = m
  /\ Len(pending) \in Nat
  /\ Len(pending') = Len(pending) + 1
  /\ DOMAIN pending' = 1 .. Len(pending')
  /\ DOMAIN pending = 1 .. Len(pending)
  /\ \A i \in DOMAIN pending : pending'[i] = pending[i]
  /\ pending'[Len(pending')] = [value |-> v, created_at |-> b, acked |-> FALSE,
                               minutes |-> m, by |-> by]

LEMMA Queued ==
  ASSUME TypeOK, NEW v \in {0, 1}, NEW b \in Nat, NEW m \in Nat,
         NEW by \in {"operator", "TIMEOUT_EXPIRED"},
         set_site_trigger(v, b, m, by)
  PROVE  Grown(v, b, m, by)
<1>1. [value |-> v, created_at |-> b, acked |-> FALSE, minutes |-> m,
       by |-> by] \in PendingRow
  BY DEF PendingRow
<1>2. QED
  BY <1>1, AppendProperties DEF set_site_trigger, TypeOK, Grown

(* INSERT ... ON CONFLICT DO NOTHING: afterwards there is an event for the *)
(* START, and at most that one is new.                                     *)
LEMMA Recorded ==
  ASSUME NEW b, NEW n, RecordTimeout(b, n)
  PROVE  /\ events \subseteq events'
         /\ \E e \in events' : e.started_at = b
         /\ \A e \in events' \ events : e.started_at = b /\ e.expired_at = n
         /\ \A e \in events' \ events, other \in events' :
              other.started_at = b => other = e
<1> DEFINE new == [started_at |-> b, expired_at |-> n]
<1>1. new.started_at = b /\ new.expired_at = n
  OBVIOUS
<1>2. \/ (\E e \in events : e.started_at = b) /\ events' = events
      \/ (~\E e \in events : e.started_at = b) /\ events' = events \cup {new}
  BY DEF RecordTimeout
<1> HIDE DEF new
<1>3. QED
  BY <1>1, <1>2

(* An accepted ACK changes no more than the acked flag of its row.         *)
LEMMA Marked ==
  ASSUME TypeOK, DecisionsHold, NEW t \in Txns, CommitAck(t)
  PROVE  /\ txn[t].row \in DOMAIN pending
         /\ txn[t].device \in Devices \ Strangers
         /\ AckMatches(txn[t].row, txn[t].value)
         /\ Len(pending') = Len(pending)
         /\ DOMAIN pending' = DOMAIN pending
         /\ \A i \in DOMAIN pending :
              /\ pending'[i].value = pending[i].value
              /\ pending'[i].created_at = pending[i].created_at
              /\ pending'[i].minutes = pending[i].minutes
              /\ pending'[i].by = pending[i].by
              /\ pending'[i].acked <=>
                   pending[i].acked \/ (txn[t].device = Base /\ i = txn[t].row)
<1>1. /\ txn[t].row \in DOMAIN pending
      /\ txn[t].device \in Devices \ Strangers
      /\ AckMatches(txn[t].row, txn[t].value)
  BY DEF CommitAck, Release, DecisionsHold, AckMatches, IsLatestPending
<1>2. \A i \in DOMAIN pending : pending[i] \in PendingRow
  BY DEF TypeOK
<1>3. CASE txn[t].device = Base
  <2> DEFINE marked == [pending[txn[t].row] EXCEPT !.acked = TRUE]
  <2>1. pending' = [pending EXCEPT ![txn[t].row] = marked]
    BY <1>3 DEF CommitAck
  <2>2. marked \in PendingRow
    BY <1>1, <1>2 DEF PendingRow
  <2>3. /\ marked.value = pending[txn[t].row].value
        /\ marked.created_at = pending[txn[t].row].created_at
        /\ marked.minutes = pending[txn[t].row].minutes
        /\ marked.by = pending[txn[t].row].by
        /\ marked.acked = TRUE
    BY <1>1, <1>2 DEF PendingRow
  <2> HIDE DEF marked
  <2>4. /\ Len(pending') = Len(pending)
        /\ DOMAIN pending' = DOMAIN pending
        /\ \A i \in DOMAIN pending :
             pending'[i] = IF i = txn[t].row THEN marked ELSE pending[i]
    BY <1>1, <2>1, <2>2 DEF TypeOK
  <2>5. QED
    BY <1>1, <1>3, <2>3, <2>4
<1>4. CASE txn[t].device # Base
  BY <1>1, <1>4 DEF CommitAck
<1>5. QED
  BY <1>3, <1>4

(* The inductive invariant: each part leans on the first one, since the    *)
(* row an expiry or an ACK follows is the row of the command in force.     *)
QueueInv ==
  /\ PendingMirrorsConfig
  /\ StartsHaveTimeouts
  /\ AcksNameTheirCommand
  /\ DeliveredByBase
  /\ TimeoutsAreDue
  /\ EventsAreJustified

LEMMA QueueInit == Init => QueueInv
BY DEF Init, QueueInv, PendingMirrorsConfig, StartsHaveTimeouts,
       AcksNameTheirCommand, DeliveredByBase, TimeoutsAreDue,
       EventsAreJustified, NoRow

(* The parts about the configuration and the ACKs survive any write of a   *)
(* new command; only the parts about timeouts depend on who wrote it.      *)
LEMMA QueuedKeepsMirror ==
  ASSUME TypeOK, QueueInv, NEW v \in {0, 1}, NEW b \in Nat, NEW m \in Nat,
         NEW by \in {"operator", "TIMEOUT_EXPIRED"},
         Grown(v, b, m, by), UNCHANGED acks
  PROVE  /\ PendingMirrorsConfig'
         /\ AcksNameTheirCommand'
         /\ DeliveredByBase'
<1> USE DEF Grown
<1>1. PendingMirrorsConfig'
  BY DEF PendingMirrorsConfig, NoRow
<1>2. AcksNameTheirCommand'
  BY DEF QueueInv, AcksNameTheirCommand
<1>3. DeliveredByBase'
  <2> SUFFICES ASSUME NEW i \in DOMAIN pending'
               PROVE  pending'[i].acked <=>
                        \E a \in acks : a.device = Base /\ a.row = i
    BY DEF DeliveredByBase
  <2>1. CASE i \in DOMAIN pending
    BY <2>1 DEF QueueInv, DeliveredByBase
  <2>2. CASE i \notin DOMAIN pending
    <3>1. i = Len(pending')
      BY <2>2
    <3>2. QED
      BY <2>2, <3>1 DEF QueueInv, AcksNameTheirCommand
  <2>3. QED
    BY <2>1, <2>2
<1>4. QED
  BY <1>1, <1>2, <1>3

LEMMA QueueStep ==
  ASSUME TypeOK, DecisionsHold, QueueInv, [Next]_vars
  PROVE  QueueInv'
<1>1. ASSUME NEW t \in Txns, CommitStart(t)
      PROVE  QueueInv'
  <2> DEFINE a == txn[t]
  <2>1. /\ a.began \in Nat /\ a.minutes \in Timeouts /\ a.minutes \in Nat
        /\ set_site_trigger(1, a.began, a.minutes, "operator")
        /\ UNCHANGED <<clock, acks, events>>
    BY <1>1, TimeoutsPositive DEF CommitStart, DecisionsHold, TypeOK, Txn
  <2> HIDE DEF a
  <2>0. Grown(1, a.began, a.minutes, "operator")
    BY <2>1, Queued
  <2>2. PendingMirrorsConfig' /\ AcksNameTheirCommand' /\ DeliveredByBase'
    BY <2>1, <2>0, QueuedKeepsMirror
  <2>3. StartsHaveTimeouts'
    BY <2>1, <2>0 DEF Grown, StartsHaveTimeouts
  <2>4. TimeoutsAreDue'
    BY <2>1, <2>0 DEF Grown, QueueInv, TimeoutsAreDue, TypeOK
  <2>5. EventsAreJustified'
    BY <2>1, <2>0 DEF Grown, QueueInv, EventsAreJustified, TypeOK
  <2>6. QED
    BY <2>2, <2>3, <2>4, <2>5 DEF QueueInv
<1>2. ASSUME NEW t \in Txns, CommitReset(t)
      PROVE  QueueInv'
  <2> DEFINE b == txn[t].began
  <2>1. /\ b \in Nat /\ timeout \in Nat
        /\ set_site_trigger(0, b, timeout, "operator")
        /\ UNCHANGED <<clock, acks, events>>
    BY <1>2 DEF CommitReset, TypeOK, Txn
  <2> HIDE DEF b
  <2>0. Grown(0, b, timeout, "operator")
    BY <2>1, Queued
  <2>2. PendingMirrorsConfig' /\ AcksNameTheirCommand' /\ DeliveredByBase'
    BY <2>1, <2>0, QueuedKeepsMirror
  <2>3. StartsHaveTimeouts'
    BY <2>1, <2>0 DEF Grown, StartsHaveTimeouts
  <2>4. TimeoutsAreDue'
    BY <2>1, <2>0 DEF Grown, QueueInv, TimeoutsAreDue, TypeOK
  <2>5. EventsAreJustified'
    BY <2>1, <2>0 DEF Grown, QueueInv, EventsAreJustified, TypeOK
  <2>6. QED
    BY <2>2, <2>3, <2>4, <2>5 DEF QueueInv
<1>3. ASSUME NEW t \in Txns, CommitExpire(t)
      PROVE  QueueInv'
  <2> DEFINE b == txn[t].began
             last == pending[Len(pending)]
  <2>1. /\ b \in Nat /\ timeout \in Nat
        /\ set_site_trigger(0, b, timeout, "TIMEOUT_EXPIRED")
        /\ UNCHANGED <<clock, acks>>
        /\ RecordTimeout(config.updated_at, txn[t].now)
    BY <1>3 DEF CommitExpire, TypeOK, Txn
  <2>2. /\ config.value = 1
        /\ Expired(config.updated_at, timeout, txn[t].now)
        /\ txn[t].now <= clock
    BY <1>3 DEF CommitExpire, Release, DecisionsHold
  <2>3. /\ Len(pending) \in DOMAIN pending
        /\ last.value = 1
        /\ last.created_at = config.updated_at
        /\ last.minutes = timeout
    BY <2>2 DEF QueueInv, PendingMirrorsConfig, NoRow, TypeOK
  <2> HIDE DEF b, last
  <2>0. Grown(0, b, timeout, "TIMEOUT_EXPIRED")
    BY <2>1, Queued
  <2>4. PendingMirrorsConfig' /\ AcksNameTheirCommand' /\ DeliveredByBase'
    BY <2>1, <2>0, QueuedKeepsMirror
  <2>5. StartsHaveTimeouts'
    BY <2>1, <2>0 DEF Grown, StartsHaveTimeouts
  <2>6. /\ events \subseteq events'
        /\ \E e \in events' : e.started_at = config.updated_at
        /\ \A e \in events' \ events : /\ e.started_at = config.updated_at
                                      /\ e.expired_at = txn[t].now
        /\ \A e \in events' \ events, other \in events' :
             other.started_at = config.updated_at => other = e
    BY <2>1, Recorded
  <2>7. timeout > 0
    <3>1. timeout \in Timeouts
      BY <2>2 DEF QueueInv, StartsHaveTimeouts
    <3>2. QED
      BY <3>1, TimeoutsPositive
  <2>8. TimeoutsAreDue'
    <3> SUFFICES ASSUME NEW i \in DOMAIN pending',
                        pending'[i].by = "TIMEOUT_EXPIRED"
                 PROVE  /\ i > 1
                        /\ pending'[i - 1].value = 1
                        /\ pending'[i - 1].created_at + pending'[i - 1].minutes
                             <= clock'
                        /\ \E e \in events' :
                             e.started_at = pending'[i - 1].created_at
                        /\ pending'[i].minutes = pending'[i - 1].minutes
      BY DEF TimeoutsAreDue
    <3>1. CASE i \in DOMAIN pending
      BY <2>1, <2>6, <3>1, <2>0 DEF Grown, QueueInv, TimeoutsAreDue, TypeOK
    <3>2. CASE i \notin DOMAIN pending
      <4>1. i = Len(pending) + 1 /\ i - 1 = Len(pending) /\ i > 1
        BY <2>1, <2>3, <3>2, <2>0 DEF Grown, TypeOK
      <4>2. pending'[i - 1] = last
        BY <2>1, <2>3, <4>1, <2>0 DEF Grown, last
      <4>3. pending'[i].minutes = timeout
        BY <4>1, <2>0 DEF Grown
      <4>4. config.updated_at + timeout <= clock'
        <5>1. last \in PendingRow
          BY <2>3 DEF TypeOK, last
        <5>2. /\ config.updated_at \in Nat /\ txn[t].now \in Nat
              /\ clock \in Nat /\ timeout \in Nat
          BY <2>3, <5>1 DEF TypeOK, Txn, PendingRow
        <5>3. config.updated_at + timeout <= txn[t].now
          BY <2>2, <2>7, <5>2 DEF Expired
        <5>4. QED
          BY <2>1, <2>2, <5>2, <5>3
      <4>5. QED
        BY <2>3, <2>6, <4>1, <4>2, <4>3, <4>4
    <3>3. QED
      BY <3>1, <3>2
  <2>9. EventsAreJustified'
    <3> SUFFICES ASSUME NEW e \in events'
                 PROVE  /\ e.expired_at <= clock
                        /\ \A other \in events' :
                             other.started_at = e.started_at => other = e
                        /\ \E i \in DOMAIN pending' :
                             /\ pending'[i].value = 1
                             /\ pending'[i].created_at = e.started_at
                             /\ e.expired_at >= e.started_at + pending'[i].minutes
      BY <2>1 DEF EventsAreJustified
    <3>1. CASE e \in events
      <4>1. PICK i \in DOMAIN pending :
              /\ pending[i].value = 1
              /\ pending[i].created_at = e.started_at
              /\ e.expired_at >= e.started_at + pending[i].minutes
        BY <3>1 DEF QueueInv, EventsAreJustified
      <4>2. i \in DOMAIN pending' /\ pending'[i] = pending[i]
        BY <2>0 DEF Grown
      <4>3. e.expired_at <= clock
        BY <3>1 DEF QueueInv, EventsAreJustified
      <4>4. ASSUME NEW other \in events', other.started_at = e.started_at
            PROVE  other = e
        <5>1. CASE other \in events
          BY <3>1, <4>4, <5>1 DEF QueueInv, EventsAreJustified
        <5>2. CASE other \notin events
          BY <2>6, <3>1, <4>4, <5>2
        <5>3. QED
          BY <5>1, <5>2
      <4>5. QED
        BY <4>1, <4>2, <4>3, <4>4
    <3>2. CASE e \notin events
      <4>1. e.expired_at >= e.started_at + last.minutes
        BY <2>2, <2>3, <2>6, <2>7, <3>2 DEF Expired, TypeOK
      <4>2. Len(pending) \in DOMAIN pending' /\ pending'[Len(pending)] = last
        BY <2>1, <2>3, <2>0 DEF Grown, TypeOK, last
      <4>3. QED
        BY <2>2, <2>3, <2>6, <3>2, <4>1, <4>2
    <3>3. QED
      BY <3>1, <3>2
  <2>10. QED
    BY <2>4, <2>5, <2>8, <2>9 DEF QueueInv
<1>4. ASSUME NEW t \in Txns, CommitAck(t)
      PROVE  QueueInv'
  <2> DEFINE new == [device |-> txn[t].device, row |-> txn[t].row,
                     value |-> txn[t].value]
  <2>1. acks' = acks \cup {new} /\ UNCHANGED <<clock, config, timeout, events>>
    BY <1>4 DEF CommitAck
  <2>2. new.device = txn[t].device /\ new.row = txn[t].row
        /\ new.value = txn[t].value
    OBVIOUS
  <2> HIDE DEF new
  <2>3. PendingMirrorsConfig'
    BY <1>4, <2>1, Marked DEF QueueInv, PendingMirrorsConfig, TypeOK
  <2>4. StartsHaveTimeouts'
    BY <2>1 DEF QueueInv, StartsHaveTimeouts
  <2>5. AcksNameTheirCommand'
    BY <1>4, <2>1, <2>2, Marked DEF QueueInv, AcksNameTheirCommand, AckMatches
  <2>6. DeliveredByBase'
    BY <1>4, <2>1, <2>2, Marked DEF QueueInv, DeliveredByBase
  <2>7. TimeoutsAreDue'
    BY <1>4, <2>1, Marked DEF QueueInv, TimeoutsAreDue, TypeOK
  <2>8. EventsAreJustified'
    BY <1>4, <2>1, Marked DEF QueueInv, EventsAreJustified
  <2>9. QED
    BY <2>3, <2>4, <2>5, <2>6, <2>7, <2>8 DEF QueueInv
<1>5. ASSUME UNCHANGED <<config, timeout, pending, events, acks>>, clock' >= clock
      PROVE  QueueInv'
  <2>1. clock \in Nat /\ clock' \in Nat
    BY TypeStep DEF TypeOK
  <2>2. EventsAreJustified'
    <3>1. ASSUME NEW e \in events
          PROVE  e.expired_at <= clock'
      <4>1. e.expired_at \in Nat /\ e.expired_at <= clock
        BY DEF TypeOK, Event, QueueInv, EventsAreJustified
      <4>2. QED
        BY <1>5, <2>1, <4>1
    <3>2. QED
      BY <1>5, <3>1 DEF QueueInv, EventsAreJustified
  <2>3. TimeoutsAreDue'
    <3> SUFFICES ASSUME NEW i \in DOMAIN pending,
                        pending[i].by = "TIMEOUT_EXPIRED"
                 PROVE  pending[i - 1].created_at + pending[i - 1].minutes <= clock'
      BY <1>5 DEF QueueInv, TimeoutsAreDue
    <3>1. /\ i > 1
          /\ pending[i - 1].created_at + pending[i - 1].minutes <= clock
      BY DEF QueueInv, TimeoutsAreDue
    <3>2. pending[i - 1].created_at \in Nat /\ pending[i - 1].minutes \in Nat
      <4>1. i - 1 \in DOMAIN pending
        BY <3>1 DEF TypeOK
      <4>2. pending[i - 1] \in PendingRow
        BY <4>1 DEF TypeOK
      <4>3. QED
        BY <4>2 DEF PendingRow
    <3>3. QED
      BY <1>5, <2>1, <3>1, <3>2
  <2>4. QED
    BY <1>5, <2>2, <2>3 DEF QueueInv, PendingMirrorsConfig,
                StartsHaveTimeouts, AcksNameTheirCommand, DeliveredByBase
<1>6. QED
  BY <1>1, <1>2, <1>3, <1>4, <1>5, OnlyCommitsAreVisible DEF Commit

LEMMA QueueCorrect == Spec => []QueueInv
<1>1. Init => QueueInv
  BY QueueInit
<1>2. TypeOK /\ DecisionsHold /\ QueueInv /\ [Next]_vars => QueueInv'
  BY QueueStep
<1>3. QED
  BY <1>1, <1>2, TypeCorrect, DecisionsCorrect, PTL DEF Spec

(* The queue's last row is the configuration in force, for every           *)
(* interleaving and rollback (set_site_trigger_on_conn, one transaction).  *)
THEOREM MirrorCorrect == Spec => []PendingMirrorsConfig
<1>1. QueueInv => PendingMirrorsConfig
  BY DEF QueueInv
<1>2. QED
  BY <1>1, QueueCorrect, PTL

(* An automatic RESET directly follows the START it ends, is not visible   *)
(* before that START's own deadline, and is audited: the row lock makes    *)
(* the expiry transaction decide on the row it overwrites.                 *)
THEOREM TimeoutsCorrect == Spec => []TimeoutsAreDue
<1>1. QueueInv => TimeoutsAreDue
  BY DEF QueueInv
<1>2. QED
  BY <1>1, QueueCorrect, PTL

(* A timeout event is the only one for its START's timestamp and exists    *)
(* only where that START's own timeout had run out (ON CONFLICT DO         *)
(* NOTHING, and expired_at read under the row lock).                       *)
THEOREM EventsCorrect == Spec => []EventsAreJustified
<1>1. QueueInv => EventsAreJustified
  BY DEF QueueInv
<1>2. QED
  BY <1>1, QueueCorrect, PTL

(* A pending row is marked delivered exactly when the BASE acknowledged it.*)
THEOREM DeliveryCorrect == Spec => []DeliveredByBase
<1>1. QueueInv => DeliveredByBase
  BY DEF QueueInv
<1>2. QED
  BY <1>1, QueueCorrect, PTL

(* Every accepted ACK names a row of the queue that carries the value it   *)
(* acknowledges, whatever was queued or written while it was matched.      *)
THEOREM AcksNamed == Spec => []AcksNameTheirCommand
<1>1. QueueInv => AcksNameTheirCommand
  BY DEF QueueInv
<1>2. QED
  BY <1>1, QueueCorrect, PTL

(* The STALE_PENDING answer of the ACK service is unreachable: the newest  *)
(* queue row is never older than the configuration row.                    *)
THEOREM StaleIsUnreachable == Spec => []NeverStale
<1>1. Init => NeverStale
  BY DEF Init, NeverStale
<1>2. TypeOK /\ QueueInv /\ NeverStale /\ [Next]_vars => NeverStale'
  <2> SUFFICES ASSUME TypeOK, QueueInv, NeverStale, [Next]_vars
               PROVE  NeverStale'
    OBVIOUS
  <2>1. ASSUME NEW t \in Ackers, NEW reason \in Reasons, RejectAck(t, reason)
        PROVE  NeverStale'
    <3>1. CASE reason = "STALE_PENDING"
      <4>1. PICK i \in DOMAIN pending :
              /\ IsLatestPending(i)
              /\ pending[i].created_at < config.updated_at
        BY <2>1, <3>1 DEF RejectAck, AckRefused
      <4>2. /\ Len(pending) \in DOMAIN pending
            /\ pending[Len(pending)].created_at = config.updated_at
        BY <4>1 DEF QueueInv, PendingMirrorsConfig, TypeOK
      <4>3. /\ pending[i].created_at \in Nat
            /\ pending[Len(pending)].created_at \in Nat
        <5>1. pending[i] \in PendingRow /\ pending[Len(pending)] \in PendingRow
          BY <4>1, <4>2 DEF TypeOK
        <5>2. QED
          BY <5>1 DEF PendingRow
      <4>4. QED
        BY <4>1, <4>2, <4>3 DEF IsLatestPending
    <3>2. CASE reason # "STALE_PENDING"
      BY <2>1, <3>2 DEF RejectAck, NeverStale
    <3>3. QED
      BY <3>1, <3>2
  <2>2. CASE UNCHANGED rejections
    BY <2>2 DEF NeverStale
  <2>3. ASSUME NEW t \in Operators, OperatorStep(t)
        PROVE  UNCHANGED rejections
    BY <2>3 DEF OperatorStep, BeginStart, BeginReset, Begin, LockForWrite,
                Acquire, tables
  <2>4. ASSUME NEW t \in Expirers, ExpirerStep(t)
        PROVE  UNCHANGED rejections
    BY <2>4 DEF ExpirerStep, BeginExpire, Begin, LockForExpire, Acquire,
                ExpireNothing, EndWithoutCommand, tables
  <2>5. ASSUME NEW t \in Ackers, AckerStep(t)
        PROVE  NeverStale'
    BY <2>1, <2>2, <2>5 DEF AckerStep, BeginAck, Begin, LockForAck, Acquire,
                            tables
  <2>6. ASSUME NEW t \in Txns, Commit(t) \/ Abort(t)
        PROVE  UNCHANGED rejections
    BY <2>6 DEF Commit, CommitStart, CommitReset, CommitExpire, CommitAck,
                Abort, tables
  <2>7. Tick \/ UNCHANGED vars => UNCHANGED rejections
    BY DEF Tick, vars, tables
  <2>8. QED
    BY <2>2, <2>3, <2>4, <2>5, <2>6, <2>7 DEF Next
<1>3. QED
  BY <1>1, <1>2, TypeCorrect, QueueCorrect, PTL DEF Spec

(* An ACK becomes visible only while the value it acknowledges is served   *)
(* and its row is still the newest one: the lock covers match and insert.  *)
THEOREM AcksCorrect == Spec => AcksAreCurrent
<1>1. TypeOK /\ DecisionsHold /\ [Next]_vars =>
        [\A a \in acks' \ acks : AckMatches(a.row, a.value)]_vars
  <2> SUFFICES ASSUME TypeOK, DecisionsHold, [Next]_vars, NEW a \in acks' \ acks
               PROVE  AckMatches(a.row, a.value)
    OBVIOUS
  <2>1. PICK t \in Txns : Commit(t)
    BY OnlyCommitsAreVisible
  <2>2. CommitAck(t)
    BY <2>1 DEF Commit, CommitStart, CommitReset, CommitExpire
  <2>3. AckMatches(txn[t].row, txn[t].value)
    BY <2>2, Marked
  <2>4. a = [device |-> txn[t].device, row |-> txn[t].row,
             value |-> txn[t].value]
    BY <2>2 DEF CommitAck
  <2>5. a.row = txn[t].row /\ a.value = txn[t].value
    BY <2>4
  <2>6. QED
    BY <2>3, <2>5
<1>2. QED
  BY <1>1, TypeCorrect, DecisionsCorrect, PTL DEF Spec, AcksAreCurrent

(* A command the expiry path turns off leaves its audit event in the same  *)
(* commit ("audited in the same transaction as config + pending").         *)
THEOREM AutoResetCorrect == Spec => AutoResetIsAudited
<1>1. TypeOK /\ DecisionsHold /\ QueueInv /\ [Next]_vars =>
        [(config.value = 1 /\ config'.updated_by = "TIMEOUT_EXPIRED") =>
           \E e \in events' : /\ e.started_at = config.updated_at
                              /\ e.expired_at <= clock]_vars
  <2> SUFFICES ASSUME TypeOK, DecisionsHold, QueueInv, [Next]_vars,
                      config.value = 1, config'.updated_by = "TIMEOUT_EXPIRED"
               PROVE  \E e \in events' : /\ e.started_at = config.updated_at
                                         /\ e.expired_at <= clock
    OBVIOUS
  <2>1. config' # config
    BY DEF QueueInv, StartsHaveTimeouts
  <2>2. PICK t \in Txns : Commit(t)
    BY <2>1, OnlyCommitsAreVisible
  <2>3. CommitExpire(t)
    BY <2>1, <2>2 DEF Commit, CommitStart, CommitReset, CommitAck,
                      set_site_trigger
  <2>4. txn[t].now <= clock
    BY <2>3 DEF CommitExpire, Release, DecisionsHold
  <2>5. CASE \E e \in events : e.started_at = config.updated_at
    BY <2>3, <2>5 DEF CommitExpire, RecordTimeout, QueueInv, EventsAreJustified
  <2>6. CASE ~ \E e \in events : e.started_at = config.updated_at
    <3> DEFINE new == [started_at |-> config.updated_at,
                       expired_at |-> txn[t].now]
    <3>1. new \in events'
      BY <2>3, <2>6 DEF CommitExpire, RecordTimeout
    <3>2. QED
      BY <2>4, <3>1
  <2>7. QED
    BY <2>5, <2>6
<1>2. QED
  BY <1>1, TypeCorrect, DecisionsCorrect, QueueCorrect, PTL
     DEF Spec, AutoResetIsAudited

(* Every transaction of blast control is, at its COMMIT, one step of the   *)
(* command register an operator is promised, and no step at any other time.*)
THEOREM RegisterImplemented == Spec => ImplementsRegister
<1> USE DEF Register!regVars
<1>1. Init => Register!Init
  BY DEF Init, Register!Init, NoRow
<1>2. TypeOK /\ DecisionsHold /\ QueueInv /\ [Next]_vars =>
        [Register!Next]_(Register!regVars)
  <2> SUFFICES ASSUME TypeOK, DecisionsHold, QueueInv, [Next]_vars
               PROVE  [Register!Next]_(Register!regVars)
    OBVIOUS
  <2>1. ASSUME NEW t \in Txns
        PROVE  txn[t].began \in 0 .. clock
    BY DEF TypeOK, Txn, DecisionsHold
  <2>2. ASSUME NEW t \in Txns, CommitStart(t)
        PROVE  Register!Next
    <3>1. txn[t].minutes \in Timeouts
      BY <2>2 DEF CommitStart, DecisionsHold
    <3>2. Register!TurnOn(txn[t].began, txn[t].minutes)
      BY <2>1, <2>2 DEF CommitStart, set_site_trigger, Register!TurnOn, TypeOK
    <3>3. QED
      BY <2>1, <3>1, <3>2 DEF Register!Next
  <2>3. ASSUME NEW t \in Txns, CommitReset(t)
        PROVE  Register!Next
    <3>1. Register!TurnOff(txn[t].began)
      BY <2>1, <2>3 DEF CommitReset, set_site_trigger, Register!TurnOff, TypeOK
    <3>2. QED
      BY <2>1, <3>1 DEF Register!Next
  <2>4. ASSUME NEW t \in Txns, CommitExpire(t)
        PROVE  Register!Next
    <3>1. /\ config.value = 1
          /\ Expired(config.updated_at, timeout, txn[t].now)
          /\ txn[t].now <= clock
      BY <2>4 DEF CommitExpire, Release, DecisionsHold
    <3>2. timeout \in Timeouts
      BY <3>1 DEF QueueInv, StartsHaveTimeouts
    <3>3. timeout > 0
      BY <3>2, TimeoutsPositive
    <3>4. config.updated_at \in Nat /\ txn[t].now \in Nat
      BY <3>1 DEF TypeOK, ConfigRow, NoRow, Txn
    <3>5. clock >= config.updated_at + timeout
      BY <3>1, <3>3, <3>4 DEF Expired, TypeOK
    <3>6. {e.started_at : e \in events'} =
            {e.started_at : e \in events} \cup {config.updated_at}
      <4>1. RecordTimeout(config.updated_at, txn[t].now)
        BY <2>4 DEF CommitExpire
      <4>2. QED
        BY <4>1, Recorded
    <3>7. /\ config'.value = 0
          /\ config'.updated_at = txn[t].began
          /\ timeout' = timeout
          /\ clock' = clock
      BY <2>4 DEF CommitExpire, set_site_trigger
    <3>8. \E r \in 0 .. clock : Register!TimeOut(r)
      <4>1. txn[t].began \in 0 .. clock /\ txn[t].began <= clock
        BY <2>1
      <4>2. QED
        BY <3>1, <3>5, <3>6, <3>7, <4>1 DEF Register!TimeOut
    <3>9. QED
      BY <3>8 DEF Register!Next
  <2>5. ASSUME NEW t \in Txns, CommitAck(t)
        PROVE  UNCHANGED Register!regVars
    BY <2>5 DEF CommitAck
  <2>6. CASE Tick
    <3>1. Register!Advance
      BY <2>6 DEF Tick, tables, Register!Advance
    <3>2. QED
      BY <3>1 DEF Register!Next
  <2>7. CASE UNCHANGED <<clock, config, timeout, events>>
    BY <2>7
  <2>8. ASSUME NEW t \in Operators, OperatorStep(t)
        PROVE  UNCHANGED <<clock, config, timeout, events>>
    BY <2>8 DEF OperatorStep, BeginStart, BeginReset, Begin, LockForWrite,
                Acquire, tables
  <2>9. ASSUME NEW t \in Expirers, ExpirerStep(t)
        PROVE  UNCHANGED <<clock, config, timeout, events>>
    BY <2>9 DEF ExpirerStep, BeginExpire, Begin, LockForExpire, Acquire,
                ExpireNothing, EndWithoutCommand, tables
  <2>10. ASSUME NEW t \in Ackers, AckerStep(t)
         PROVE  UNCHANGED <<clock, config, timeout, events>>
    BY <2>10 DEF AckerStep, BeginAck, Begin, LockForAck, Acquire, RejectAck,
                 EndWithoutCommand, tables
  <2>11. ASSUME NEW t \in Txns, Abort(t)
         PROVE  UNCHANGED <<clock, config, timeout, events>>
    BY <2>11 DEF Abort, tables
  <2>12. UNCHANGED vars => UNCHANGED <<clock, config, timeout, events>>
    BY DEF vars, tables
  <2>13. QED
    BY <2>2, <2>3, <2>4, <2>5, <2>6, <2>7, <2>8, <2>9, <2>10, <2>11, <2>12
       DEF Next, Commit
<1>3. QED
  BY <1>1, <1>2, TypeCorrect, DecisionsCorrect, QueueCorrect, PTL
     DEF Spec, ImplementsRegister, Register!Safety
=============================================================================
