------------------------- MODULE TriggerStatusProofs -------------------------
(***************************************************************************)
(* The read model reports no delivery that never was, for every set of     *)
(* connections and devices, every timeout and every bound.                 *)
(***************************************************************************)
EXTENDS TriggerStatus, BlastControlProofs

(* A row that the request may yet report, or has read, as current.         *)
Reportable(i) ==
  /\ i \in DOMAIN pending
  /\ pending[i].value = read.config.value
  /\ pending[i].created_at >= read.config.updated_at

Delivery(i, acked) ==
  [value |-> read.config.value, row |-> i, acked |-> acked]

(* Until the ACK is read, the delivery of the row read, or of the row that *)
(* is about to be, is in the history as it is now; afterwards as it was.   *)
ReadInv ==
  /\ ReadTypeOK
  /\ read.phase \in {"idle", "config"} => read.row = 0
  /\ read.row \in DOMAIN pending \cup {0}
  /\ read.phase \in {"config", "pending"} =>
       \A i \in DOMAIN pending :
         (Reportable(i) /\ (IsLatestPending(i) \/ i = read.row)) =>
           Delivery(i, Acked(i)) \in truths
  /\ (read.phase \in {"ack", "done"} /\ Reportable(read.row)) =>
       Delivery(read.row, read.acked) \in truths

StatusInv == TypeOK /\ DecisionsHold /\ QueueInv /\ ReadInv

(* What is visible of a step of the database: nothing, a new row that      *)
(* carries the new command, or an ACK that names the latest row.           *)
LEMMA VisibleSteps ==
  ASSUME TypeOK, DecisionsHold, QueueInv, Next
  PROVE  \/ UNCHANGED <<config, pending, acks>>
         \/ \E v \in {0, 1}, b \in Nat, m \in Nat,
               by \in {"operator", "TIMEOUT_EXPIRED"} :
              Grown(v, b, m, by) /\ UNCHANGED acks
         \/ \E t \in Txns : CommitAck(t)
<1>1. ASSUME NEW t \in Txns, CommitStart(t)
      PROVE  \E v \in {0, 1}, b \in Nat, m \in Nat,
               by \in {"operator", "TIMEOUT_EXPIRED"} :
                 Grown(v, b, m, by) /\ UNCHANGED acks
  <2>1. /\ txn[t].began \in Nat /\ txn[t].minutes \in Nat
        /\ set_site_trigger(1, txn[t].began, txn[t].minutes, "operator")
        /\ UNCHANGED acks
    BY <1>1 DEF CommitStart, TypeOK, Txn
  <2>2. Grown(1, txn[t].began, txn[t].minutes, "operator")
    BY <2>1, Queued
  <2>3. QED
    BY <2>1, <2>2
<1>2. ASSUME NEW t \in Txns, CommitReset(t)
      PROVE  \E v \in {0, 1}, b \in Nat, m \in Nat,
               by \in {"operator", "TIMEOUT_EXPIRED"} :
                 Grown(v, b, m, by) /\ UNCHANGED acks
  <2>1. /\ txn[t].began \in Nat /\ timeout \in Nat
        /\ set_site_trigger(0, txn[t].began, timeout, "operator")
        /\ UNCHANGED acks
    BY <1>2 DEF CommitReset, TypeOK, Txn
  <2>2. Grown(0, txn[t].began, timeout, "operator")
    BY <2>1, Queued
  <2>3. QED
    BY <2>1, <2>2
<1>3. ASSUME NEW t \in Txns, CommitExpire(t)
      PROVE  \E v \in {0, 1}, b \in Nat, m \in Nat,
               by \in {"operator", "TIMEOUT_EXPIRED"} :
                 Grown(v, b, m, by) /\ UNCHANGED acks
  <2>1. /\ txn[t].began \in Nat /\ timeout \in Nat
        /\ set_site_trigger(0, txn[t].began, timeout, "TIMEOUT_EXPIRED")
        /\ UNCHANGED acks
    BY <1>3 DEF CommitExpire, TypeOK, Txn
  <2>2. Grown(0, txn[t].began, timeout, "TIMEOUT_EXPIRED")
    BY <2>1, Queued
  <2>3. QED
    BY <2>1, <2>2
<1>4. QED
  BY <1>1, <1>2, <1>3, OnlyCommitsAreVisible DEF Commit

(* The history grows by what is true now, of a well-typed database.        *)
LEMMA DeliveryTyped ==
  ASSUME TypeOK, NEW i \in DOMAIN pending
  PROVE  [value |-> config.value, row |-> i, acked |-> Acked(i)]
           \in [value : {-1, 0, 1}, row : Nat, acked : BOOLEAN]
<1>1. /\ config.value \in {-1, 0, 1}
      /\ i \in Nat
  BY DEF TypeOK, ConfigRow, NoRow
<1>2. Acked(i) \in BOOLEAN
  BY DEF Acked
<1>3. QED
  BY <1>1, <1>2

LEMMA DeliveriesTyped ==
  ASSUME TypeOK
  PROVE  Deliveries \subseteq [value : {-1, 0, 1}, row : Nat, acked : BOOLEAN]
BY DeliveryTyped, Zenon DEF Deliveries

LEMMA StatusInitInv == StatusInit => StatusInv
<1>1. StatusInit => ReadTypeOK
  BY DEF StatusInit, Unread, ReadTypeOK
<1>2. QED
  BY <1>1, TypeInit, DecisionsInit, QueueInit
     DEF StatusInit, StatusInv, ReadInv, Unread

LEMMA RequestKeepsInv ==
  ASSUME StatusInv, ReadStep
  PROVE  StatusInv'
<1>1. UNCHANGED vars
  BY DEF ReadStep, ReadConfig, ReadPending, ReadAck, ReadTimeout
<1>2. TypeOK' /\ DecisionsHold' /\ QueueInv'
  BY <1>1, TypeStep, DecisionsStep, QueueStep DEF StatusInv
<1>3. /\ UNCHANGED <<config, pending, acks, events>>
      /\ \A i : Acked(i)' <=> Acked(i)
      /\ \A i : IsLatestPending(i)' <=> IsLatestPending(i)
  BY <1>1 DEF vars, tables, Acked, IsLatestPending
<1>4. CASE ReadConfig
  <2>1. /\ read' = [read EXCEPT !.phase = "config", !.config = config]
        /\ truths' = Deliveries
        /\ read.row = 0
    BY <1>4 DEF ReadConfig, StatusInv, ReadInv
  <2>2. ReadTypeOK'
    BY <2>1, DeliveriesTyped DEF StatusInv, ReadInv, ReadTypeOK, TypeOK
  <2>3. /\ read'.phase = "config" /\ read'.config = config /\ read'.row = 0
    BY <2>1 DEF StatusInv, ReadInv, ReadTypeOK
  <2>4. ASSUME NEW i \in DOMAIN pending', Reportable(i)',
               IsLatestPending(i)' \/ i = read'.row
        PROVE  Delivery(i, Acked(i))' \in truths'
    <3>1. IsLatestPending(i)
      BY <1>3, <2>3, <2>4 DEF StatusInv, TypeOK
    <3>2. [value |-> config.value, row |-> i, acked |-> Acked(i)] \in Deliveries
      BY <1>3, <2>4, <3>1, Zenon DEF Deliveries, IsLatestPending
    <3>3. Acked(i)' = Acked(i)
      BY <1>3 DEF Acked
    <3>4. QED
      BY <2>1, <2>3, <3>2, <3>3 DEF Delivery
  <2>5. ReadInv'
    BY <1>3, <2>2, <2>3, <2>4 DEF ReadInv
  <2>6. QED
    BY <1>2, <2>5 DEF StatusInv
<1>5. CASE ReadPending
  <2>1. /\ read.phase = "config" /\ truths' = truths
        /\ \/ pending = <<>> /\ read' = [read EXCEPT !.phase = "pending"]
           \/ \E i \in DOMAIN pending :
                /\ IsLatestPending(i)
                /\ read' = [read EXCEPT !.phase = "pending", !.row = i]
    BY <1>5 DEF ReadPending
  <2>2. DOMAIN pending \subseteq Nat
    BY DEF StatusInv, TypeOK
  <2>3. ReadTypeOK'
    BY <2>1, <2>2 DEF StatusInv, ReadInv, ReadTypeOK
  <2>4. /\ read'.phase = "pending" /\ read'.config = read.config
        /\ read'.row \in DOMAIN pending \cup {0}
        /\ read'.row \in DOMAIN pending => IsLatestPending(read'.row)
    <3>1. read.row = 0
      BY <2>1 DEF StatusInv, ReadInv
    <3>2. 0 \notin DOMAIN pending
      BY DEF StatusInv, TypeOK
    <3>3. QED
      BY <2>1, <3>1, <3>2 DEF StatusInv, ReadInv, ReadTypeOK
  <2>5. ReadInv'
    <3>1. ASSUME NEW i \in DOMAIN pending', Reportable(i)',
                 IsLatestPending(i)' \/ i = read'.row
          PROVE  Delivery(i, Acked(i))' \in truths'
      <4>1. IsLatestPending(i) /\ Reportable(i)
        BY <1>3, <2>4, <3>1 DEF Reportable
      <4>2. Delivery(i, Acked(i)) \in truths
        BY <2>1, <4>1 DEF StatusInv, ReadInv, Reportable
      <4>3. Acked(i)' = Acked(i)
        BY <1>3 DEF Acked
      <4>4. QED
        BY <2>1, <2>4, <4>2, <4>3 DEF Delivery
    <3>2. QED
      BY <1>3, <2>3, <2>4, <3>1 DEF ReadInv
  <2>6. QED
    BY <1>2, <2>5 DEF StatusInv
<1>6. CASE ReadAck
  <2> DEFINE hit == \E a \in acks : /\ a.device = Base
                                    /\ a.row = read.row
                                    /\ a.value = read.config.value
  <2>1. /\ read.phase = "pending" /\ truths' = truths
        /\ read' = [read EXCEPT !.phase = "ack", !.acked = hit]
    BY <1>6 DEF ReadAck
  <2>2. Reportable(read.row) => (hit <=> Acked(read.row))
    BY DEF Reportable, Acked, StatusInv, QueueInv, AcksNameTheirCommand
  <2>3. hit \in BOOLEAN
    OBVIOUS
  <2> HIDE DEF hit
  <2>4. ReadTypeOK'
    BY <2>1, <2>3 DEF StatusInv, ReadInv, ReadTypeOK
  <2>5. /\ read'.phase = "ack" /\ read'.config = read.config
        /\ read'.row = read.row /\ read'.acked = hit
    BY <2>1 DEF StatusInv, ReadInv, ReadTypeOK
  <2>6. Reportable(read.row) => Delivery(read.row, Acked(read.row)) \in truths
    BY <2>1 DEF StatusInv, ReadInv, Reportable
  <2>7. Reportable(read.row) => Delivery(read.row, hit) \in truths
    BY <2>2, <2>3, <2>6 DEF Delivery, Acked
  <2>8. ReadInv'
    BY <1>3, <2>1, <2>4, <2>5, <2>7
       DEF StatusInv, ReadInv, Reportable, Delivery
  <2>9. QED
    BY <1>2, <2>8 DEF StatusInv
<1>7. CASE ReadTimeout
  <2>1. /\ read.phase = "ack" /\ truths' = truths
        /\ read'.phase = "done" /\ read'.config = read.config
        /\ read'.row = read.row /\ read'.acked = read.acked
        /\ ReadTypeOK'
    BY <1>7 DEF ReadTimeout, StatusInv, ReadInv, ReadTypeOK, TypeOK, Event
  <2>2. ReadInv'
    BY <1>3, <2>1 DEF StatusInv, ReadInv, Reportable, Delivery
  <2>3. QED
    BY <1>2, <2>2 DEF StatusInv
<1>8. QED
  BY <1>4, <1>5, <1>6, <1>7 DEF ReadStep

LEMMA DatabaseKeepsInv ==
  ASSUME StatusInv, DatabaseStep
  PROVE  StatusInv'
<1>1. TypeOK' /\ DecisionsHold' /\ QueueInv'
  BY TypeStep, DecisionsStep, QueueStep DEF StatusInv, DatabaseStep
<1>2. /\ read' = read
      /\ truths \subseteq truths'
      /\ read.phase \in {"config", "pending"} => Deliveries' \subseteq truths'
      /\ read.phase \notin {"config", "pending"} => truths' = truths
  BY DEF DatabaseStep
<1>3. ReadTypeOK'
  <2>1. truths' \subseteq truths \cup Deliveries'
    BY DEF DatabaseStep
  <2>2. Deliveries' \subseteq [value : {-1, 0, 1}, row : Nat, acked : BOOLEAN]
    <3>1. config'.value \in {-1, 0, 1} /\ DOMAIN pending' \subseteq Nat
      BY <1>1 DEF TypeOK, ConfigRow, NoRow
    <3>2. \A i : Acked(i)' \in BOOLEAN
      BY DEF Acked
    <3>3. ASSUME NEW i \in DOMAIN pending'
          PROVE  [value |-> config'.value, row |-> i, acked |-> Acked(i)']
                   \in [value : {-1, 0, 1}, row : Nat, acked : BOOLEAN]
      BY <3>1, <3>2, <3>3
    <3>4. QED
      BY <3>3, Zenon DEF Deliveries
  <2>3. QED
    BY <1>2, <2>1, <2>2 DEF StatusInv, ReadInv, ReadTypeOK
(* Rows are only added and keep what they say.                             *)
<1>4. /\ DOMAIN pending \subseteq DOMAIN pending'
      /\ 0 \notin DOMAIN pending'
      /\ \A i \in DOMAIN pending : /\ pending'[i].value = pending[i].value
                                   /\ pending'[i].created_at =
                                        pending[i].created_at
  <2>1. ASSUME NEW t \in Txns, CommitAck(t)
        PROVE  /\ DOMAIN pending \subseteq DOMAIN pending'
               /\ \A i \in DOMAIN pending :
                    /\ pending'[i].value = pending[i].value
                    /\ pending'[i].created_at = pending[i].created_at
    BY <2>1, Marked DEF StatusInv
  <2>2. 0 \notin DOMAIN pending'
    BY <1>1 DEF TypeOK
  <2>3. ASSUME NEW v \in {0, 1}, NEW b \in Nat, NEW m \in Nat,
               NEW by \in {"operator", "TIMEOUT_EXPIRED"}, Grown(v, b, m, by)
        PROVE  /\ DOMAIN pending \subseteq DOMAIN pending'
               /\ \A i \in DOMAIN pending :
                    /\ pending'[i].value = pending[i].value
                    /\ pending'[i].created_at = pending[i].created_at
    BY <2>3 DEF Grown
  <2>4. TypeOK /\ DecisionsHold /\ QueueInv /\ Next
    BY DEF StatusInv, DatabaseStep
  <2>5. QED
    BY <2>1, <2>2, <2>3, <2>4, VisibleSteps
<1>5. read.row \in DOMAIN pending' \cup {0}
  BY <1>4 DEF StatusInv, ReadInv
(* A row that is reportable and latest now was so before, or is in the     *)
(* history because it has become so in this step.                          *)
<1>6. ASSUME read.phase \in {"config", "pending"},
             NEW i \in DOMAIN pending', Reportable(i)',
             IsLatestPending(i)' \/ i = read.row
      PROVE  Delivery(i, Acked(i))' \in truths'
  <2>1. CASE IsLatestPending(i)' /\ config'.value = read.config.value
    <3>1. [value |-> config'.value, row |-> i, acked |-> Acked(i)'] \in Deliveries'
      BY <2>1, Zenon DEF Deliveries
    <3>2. QED
      BY <1>2, <1>6, <2>1, <3>1 DEF Delivery
  <2>2. CASE i \in DOMAIN pending /\ (Acked(i)' <=> Acked(i))
             /\ (IsLatestPending(i) \/ i = read.row)
    <3>1. Reportable(i)
      BY <1>2, <1>4, <1>6, <2>2 DEF Reportable
    <3>2. Delivery(i, Acked(i)) \in truths
      BY <1>6, <2>2, <3>1 DEF StatusInv, ReadInv
    <3>3. Delivery(i, Acked(i))' = Delivery(i, Acked(i))
      BY <1>2, <2>2 DEF Delivery, Acked
    <3>4. QED
      BY <1>2, <3>2, <3>3
  <2>3. CASE UNCHANGED <<config, pending, acks>>
    <3>1. /\ i \in DOMAIN pending
          /\ Acked(i)' <=> Acked(i)
          /\ IsLatestPending(i)' <=> IsLatestPending(i)
      BY <2>3 DEF Acked, IsLatestPending
    <3>2. QED
      BY <1>6, <2>2, <3>1
  <2>4. ASSUME NEW v \in {0, 1}, NEW b \in Nat, NEW m \in Nat,
               NEW by \in {"operator", "TIMEOUT_EXPIRED"},
               Grown(v, b, m, by), UNCHANGED acks
        PROVE  Delivery(i, Acked(i))' \in truths'
    <3>1. CASE i \in DOMAIN pending
      <4>1. Acked(i)' <=> Acked(i)
        BY <2>4 DEF Acked
      <4>2. IsLatestPending(i)' => IsLatestPending(i)
        BY <2>4, <3>1 DEF Grown, IsLatestPending
      <4>3. QED
        BY <1>6, <2>2, <3>1, <4>1, <4>2
    <3>2. CASE i \notin DOMAIN pending
      <4>1. i = Len(pending') /\ i # read.row
        BY <1>4, <1>6, <2>4, <3>2 DEF Grown, StatusInv, ReadInv
      <4>2. config'.value = read.config.value
        BY <1>2, <1>6, <2>4, <4>1 DEF Grown, Reportable
      <4>3. QED
        BY <1>6, <2>1, <4>1, <4>2
    <3>3. QED
      BY <3>1, <3>2
  <2>5. ASSUME NEW t \in Txns, CommitAck(t)
        PROVE  Delivery(i, Acked(i))' \in truths'
    <3> DEFINE r == txn[t].row
               new == [device |-> txn[t].device, row |-> txn[t].row,
                       value |-> txn[t].value]
    <3>1. /\ AckMatches(r, txn[t].value)
          /\ r \in DOMAIN pending
          /\ DOMAIN pending' = DOMAIN pending
          /\ \A j \in DOMAIN pending :
               /\ pending'[j].value = pending[j].value
               /\ pending'[j].created_at = pending[j].created_at
      BY <2>5, Marked DEF StatusInv
    <3>2. config' = config /\ acks' = acks \cup {new}
      BY <2>5 DEF CommitAck
    <3>3. new.row = r
      OBVIOUS
    <3> HIDE DEF new, r
    <3>4. IsLatestPending(i)' <=> IsLatestPending(i)
      BY <3>1 DEF IsLatestPending
    <3>5. CASE i = r
      <4>1. IsLatestPending(i)' /\ config'.value = pending'[i].value
        BY <3>1, <3>2, <3>4, <3>5 DEF AckMatches
      <4>2. config'.value = read.config.value
        BY <1>2, <1>6, <4>1 DEF Reportable
      <4>3. QED
        BY <2>1, <4>1, <4>2
    <3>6. CASE i # r
      <4>1. Acked(i)' <=> Acked(i)
        BY <3>2, <3>3, <3>6 DEF Acked
      <4>2. QED
        BY <1>6, <2>2, <3>1, <3>4, <4>1
    <3>7. QED
      BY <3>5, <3>6
  <2>6. QED
    BY <2>3, <2>4, <2>5, VisibleSteps DEF StatusInv, DatabaseStep
<1>7. (read.phase \in {"ack", "done"} /\ Reportable(read.row)') =>
        Delivery(read.row, read.acked) \in truths'
  BY <1>2, <1>4, <1>5 DEF StatusInv, ReadInv, Reportable
<1>8. ReadInv'
  BY <1>2, <1>3, <1>5, <1>6, <1>7 DEF StatusInv, ReadInv, Delivery, Reportable
<1>9. QED
  BY <1>1, <1>8 DEF StatusInv

(* Every delivery reported by trigger_status was true at one instant of    *)
(* the request, although its SELECTs read four different instants.         *)
THEOREM DeliveryCorrectlyReported == StatusSpec => []DeliveryWasTrue
<1>1. StatusInit => StatusInv
  BY StatusInitInv
<1>2. StatusInv /\ [StatusNext]_statusVars => StatusInv'
  <2>1. StatusInv /\ UNCHANGED statusVars => StatusInv'
    <3> SUFFICES ASSUME StatusInv, UNCHANGED statusVars
                 PROVE  StatusInv'
      OBVIOUS
    <3>1. TypeOK' /\ DecisionsHold' /\ QueueInv'
      BY TypeStep, DecisionsStep, QueueStep DEF StatusInv, statusVars
    <3>2. ReadInv'
      BY DEF StatusInv, ReadInv, ReadTypeOK, Reportable, Delivery, Acked,
             IsLatestPending, statusVars, vars, tables
    <3>3. QED
      BY <3>1, <3>2 DEF StatusInv
  <2>2. QED
    BY <2>1, RequestKeepsInv, DatabaseKeepsInv DEF StatusNext
<1>3. StatusInv => DeliveryWasTrue
  BY DEF StatusInv, ReadInv, DeliveryWasTrue, current_pending, Reportable, Delivery
<1>4. QED
  BY <1>1, <1>2, <1>3, PTL DEF StatusSpec
==============================================================================
