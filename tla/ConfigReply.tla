----------------------------- MODULE ConfigReply -----------------------------
(***************************************************************************)
(* What a device is told when it asks for its configuration: write_value,  *)
(* get_contract_config and compose_contract_config of                      *)
(* config_repository.py with the routes of device_config.py, while         *)
(* operators push values, trigger and reset, and triggers run out.         *)
(*                                                                         *)
(* A reply is composed of rows read by statements of their own: the        *)
(* requested device's, those of the station of its site, the calibration.  *)
(* A value is the number of the write it came from, 0 a default.  The      *)
(* transactions of trigger, reset and expiry are steps here; BlastControl  *)
(* takes them apart.                                                       *)
(***************************************************************************)
EXTENDS Naturals, Sequences

CONSTANTS
  FleetOrder,  \* the device_ids, in their order
  FleetType,   \* lower(device_type) of each
  FleetSite,   \* site_id of each
  Calibrated,  \* _CONTRACT_BATTERY_DEVICE_IDS
  Polls,       \* requests in flight at once
  MaxWrites    \* bound on the writes of operators

Fleet == {FleetOrder[i] : i \in DOMAIN FleetOrder}

ASSUME FleetAssumption ==
  /\ FleetOrder \in Seq(STRING) /\ Fleet # {}
  /\ Calibrated \subseteq Fleet /\ MaxWrites \in Nat
  /\ DOMAIN FleetType = Fleet /\ DOMAIN FleetSite = Fleet

VARIABLES
  settings,     \* device_config
  calibration,  \* device_battery_cal
  queue,        \* device_config_pending
  armed,        \* writes of TriggerStart = 1
  lapsed,       \* those whose time is over
  writes,       \* writes so far
  poll          \* requests being served, and replies given

replyVars == <<settings, calibration, queue, armed, lapsed, writes, poll>>

\* _GLOBAL_KEYS, and one key for the others of _CONTRACT_KEYS.
GlobalKeys == {"TriggerStart", "TimeOutTrigger"}
Keys == GlobalKeys \cup {"periodic_upload_s"}
Columns == {"battery_cal_m", "battery_cal_c"}

NoSettings == [k \in Keys |-> 0]
NoCalibration == [c \in Columns |-> 0]
IdlePoll == [pc |-> "idle", device |-> FleetOrder[1], late |-> {}, own |-> NoSettings,
             station |-> NoSettings, cal |-> [d \in Fleet |-> NoCalibration]]

ReplyInit ==
  /\ settings = [d \in Fleet |-> NoSettings]
  /\ calibration = [d \in Fleet |-> NoCalibration]
  /\ queue = {} /\ armed = {} /\ lapsed = {} /\ writes = 0
  /\ poll = [q \in Polls |-> IdlePoll]

\* The station a device is served from: BASE-01, else the first base of its
\* site, else itself.
StationsOf(d) == {i \in DOMAIN FleetOrder : /\ FleetSite[FleetOrder[i]] = FleetSite[d]
                                       /\ \/ FleetOrder[i] = "BASE-01"
                                          \/ FleetType[FleetOrder[i]] = "base"}
Station(d) ==
  IF StationsOf(d) = {} THEN d
  ELSE IF \E i \in StationsOf(d) : FleetOrder[i] = "BASE-01" THEN "BASE-01"
  ELSE FleetOrder[CHOOSE i \in StationsOf(d) : \A j \in StationsOf(d) : i <= j]

-----------------------------------------------------------------------------
\* One transaction: the row in force and a pending row per key.
Puts(d, keys) ==
  /\ writes' = writes + 1
  /\ settings' = [settings EXCEPT ![d] = [k \in Keys |-> IF k \in keys THEN writes' ELSE @[k]]]
  /\ queue' = queue \cup {[device |-> d, key |-> k, value |-> writes'] : k \in keys}

\* Global keys are refused here (400), other names are no keys at all.
push_device_config(d) ==
  /\ writes < MaxWrites
  /\ Puts(d, Keys \ GlobalKeys)
  /\ UNCHANGED <<calibration, armed, lapsed, poll>>

_write_battery_value(d, column) ==
  /\ writes < MaxWrites
  /\ writes' = writes + 1
  /\ calibration' = [calibration EXCEPT ![d][column] = writes']
  /\ queue' = queue \cup {[device |-> d, key |-> column, value |-> writes']}
  /\ UNCHANGED <<settings, armed, lapsed, poll>>

\* Any device that exists will do, station or not.
trigger_blast(d) ==
  /\ writes < MaxWrites
  /\ Puts(d, GlobalKeys)
  /\ armed' = armed \cup {writes'}
  /\ UNCHANGED <<calibration, lapsed, poll>>

reset_blast(d) ==
  /\ writes < MaxWrites
  /\ Puts(d, {"TriggerStart"})
  /\ UNCHANGED <<calibration, armed, lapsed, poll>>

\* TimeOutTrigger minutes have passed since the write.
Lapses(n) ==
  /\ n \in armed \ lapsed
  /\ lapsed' = lapsed \cup {n}
  /\ UNCHANGED <<settings, calibration, queue, armed, writes, poll>>

Overrun(d) == settings[d]["TriggerStart"] \in armed \cap lapsed

expire_one_on_conn(d) ==
  IF Overrun(d) THEN Puts(d, {"TriggerStart"}) ELSE UNCHANGED <<settings, queue, writes>>

\* The reconciler looks at every device that has the row.
Reconciles(d) ==
  /\ Overrun(d)
  /\ expire_one_on_conn(d)
  /\ UNCHANGED <<calibration, armed, lapsed, poll>>

-----------------------------------------------------------------------------
(* get_contract_config.  late is no state of the program: the triggers     *)
(* whose time was over when the request came.                              *)

Asks(q, d) ==
  /\ poll[q].pc \in {"idle", "replied"}
  /\ poll' = [poll EXCEPT ![q] = [IdlePoll EXCEPT !.pc = "expire", !.device = d, !.late = lapsed]]
  /\ UNCHANGED <<settings, calibration, queue, armed, lapsed, writes>>

\* Mutant: the requested device is looked at, not its station.
ExpiresOwn(q) ==
  /\ poll[q].pc = "expire"
  /\ expire_one_on_conn(poll[q].device)
  /\ poll' = [poll EXCEPT ![q].pc = "own"]
  /\ UNCHANGED <<calibration, armed, lapsed>>

\* What was read before the expiry is read again after it.
ExpiresOnRead(q) ==
  /\ poll[q].pc = "expire"
  /\ expire_one_on_conn(Station(poll[q].device))
  /\ poll' = [poll EXCEPT ![q].pc = "own"]
  /\ UNCHANGED <<calibration, armed, lapsed>>

\* A station's own rows are not read twice.
ReadsOwn(q) ==
  /\ poll[q].pc = "own"
  /\ poll' = [poll EXCEPT ![q].own = settings[poll[q].device],
                          ![q].station = settings[poll[q].device],
                          ![q].pc = IF Station(poll[q].device) = poll[q].device
                                      THEN "battery" ELSE "station"]
  /\ UNCHANGED <<settings, calibration, queue, armed, lapsed, writes>>

ReadsStation(q) ==
  /\ poll[q].pc = "station"
  /\ poll' = [poll EXCEPT ![q].station = settings[Station(poll[q].device)], ![q].pc = "battery"]
  /\ UNCHANGED <<settings, calibration, queue, armed, lapsed, writes>>

\* Devices of the site; the reply has an entry for every one of the contract.
ReadsBattery(q) ==
  /\ poll[q].pc = "battery"
  /\ poll' = [poll EXCEPT ![q].pc = "replied",
       ![q].cal = [d \in Fleet |-> IF d \in Calibrated /\ FleetSite[d] = FleetSite[poll[q].device]
                                     THEN calibration[d] ELSE NoCalibration]]
  /\ UNCHANGED <<settings, calibration, queue, armed, lapsed, writes>>

\* compose_contract_config: defaults, the station's rows over them, the
\* device's own over these unless the key is one of the site.
Served(q, k) ==
  LET p == poll[q]
      overrides == Station(p.device) = p.device \/ k \notin GlobalKeys
  IN IF overrides /\ p.own[k] # 0 THEN p.own[k] ELSE p.station[k]

ReplyNext ==
  \/ \E d \in Fleet :
       \/ push_device_config(d) \/ trigger_blast(d) \/ reset_blast(d) \/ Reconciles(d)
       \/ \E column \in Columns : _write_battery_value(d, column)
  \/ \E n \in armed : Lapses(n)
  \/ \E q \in Polls :
       \/ \E d \in Fleet : Asks(q, d)
       \/ ExpiresOnRead(q) \/ ReadsOwn(q) \/ ReadsStation(q) \/ ReadsBattery(q)

ReplySpec == ReplyInit /\ [][ReplyNext]_replyVars

-----------------------------------------------------------------------------
(* Properties *)

\* "do not serve an obsolete trigger" (config_repository.py:150): a reply
\* with TriggerStart = 1 carries a trigger whose time was not over when the
\* device asked, with the TimeOutTrigger of the same command.
ServesLiveTrigger(q) ==
  Served(q, "TriggerStart") \in armed =>
    /\ Served(q, "TriggerStart") \notin poll[q].late
    /\ Served(q, "TimeOutTrigger") = Served(q, "TriggerStart")

\* Whatever is no default has been queued for the device or its station, and
\* the site's keys for the station.
ServesQueuedValues(q) ==
  /\ \A k \in Keys : Served(q, k) # 0 =>
       \E row \in queue : /\ row.key = k /\ row.value = Served(q, k)
                          /\ \/ row.device = Station(poll[q].device)
                             \/ row.device = poll[q].device /\ k \notin GlobalKeys
  /\ \A d \in Fleet, c \in Columns : poll[q].cal[d][c] # 0 =>
       [device |-> d, key |-> c, value |-> poll[q].cal[d][c]] \in queue

\* A reply is of the site's live command and of written values, however the
\* reads fall between writes (get_contract_config).
RepliesAreCurrent ==
  \A q \in Polls : poll[q].pc = "replied" => ServesLiveTrigger(q) /\ ServesQueuedValues(q)
=============================================================================
