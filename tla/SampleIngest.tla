---------------------------- MODULE SampleIngest ----------------------------
(***************************************************************************)
(* The uploads that are no satellite observations: LoRa positions of base  *)
(* and rovers, and accelerometer windows.  apps/api/routers/v1/ingest.py   *)
(* validates a file (csv_validator.py), parses it by its route             *)
(* (protocol_router.py, lora_parser.py, g4_parser.py) and hands its rows   *)
(* to handle_position_rows and handle_accel_rows of                        *)
(* canonicalization_service.py, which write the tables one statement after *)
(* the other.  Any statement may fail: the file is failed then, what it    *)
(* has stored stays, and the device sends it again.  Several files are     *)
(* served at once.  Satellite observations, the claim of a file and the    *)
(* death of the server are UploadIngest's.                                 *)
(*                                                                         *)
(* A row of a file is a record of what the code tells apart: values are    *)
(* left out, their checks are the booleans wellFormed, located and         *)
(* precise.                                                                *)
(***************************************************************************)
EXTENDS Naturals, Sequences, FiniteSets, SequencesExt, Ranking

CONSTANTS
  Uploads,     \* the files sent, as records; a name may have two contents
  Stations,    \* devices, as a record from name to site
  Baselined,   \* rovers with an approved, ellipsoidal baseline
  MinSamples   \* min_samples of analyze_accel_window

ASSUME SampleAssumption ==
  /\ Baselined \subseteq DOMAIN Stations /\ MinSamples \in Nat
  /\ \A u \in Uploads : u.device \in DOMAIN Stations /\ u.rows \in Seq(ToSet(u.rows))

FileNames == {u.name : u \in Uploads}

VARIABLES
  status,        \* file_uploads.processing_status
  retained,      \* file_upload_payloads: the content kept, as a set
  todo,          \* statements the handler of a file has still to execute
  accel,         \* accel_raw_samples: <<device, time, sample_index>>
  observations,  \* gnss_raw_samples of accelerometer files: <<device, time>>
  map,           \* device_position_records: <<device, time>>
  events,        \* blast_event_records, by source_file
  readings       \* measurements: key <<device, quantity, time>> and file

sampleVars ==
  <<status, retained, todo, accel, observations, map, events, readings>>

SampleInit ==
  /\ status = [f \in FileNames |-> "none"] /\ todo = [f \in FileNames |-> <<>>]
  /\ retained = [f \in FileNames |-> {}]
  /\ accel = {} /\ observations = {} /\ map = {}
  /\ events = [f \in FileNames |-> "none"] /\ readings = {}

-----------------------------------------------------------------------------
(* Validation and parsing *)

Route(u) == <<u.mode, u.type, u.role>>

validate_upload_combination(u) ==
  Route(u) \in {<<"4g", "gnss", "base">>, <<"4g", "gnss", "rover">>,
                <<"4g", "accel", "rover">>, <<"lora", "gnss", "base">>,
                <<"lora", "accel", "rover">>}

\* The name carries the type and the uploader; the header, the number of rows.
validate_headers(u) ==
  /\ validate_upload_combination(u)
  /\ u.name[1] = u.type /\ u.name[2] = u.device
  /\ u.count = Len(u.rows)

\* The last row of a LoRa window is index 0 without acceleration; of a 4G
\* window it is the only one with a payload.  marked says either.
LastRow(u) == u.rows[Len(u.rows)]

parse_combined_gnss_csv(u) ==
  u.rows # <<>> /\ \A i \in DOMAIN u.rows : u.rows[i].wellFormed

parse_lora_accel_csv(u) ==
  /\ Len(u.rows) >= 2 /\ LastRow(u).marked
  /\ \A i \in DOMAIN u.rows : u.rows[i].wellFormed

parse_accel_csv_single_auxiliary_rawx(u) ==
  /\ \A i \in DOMAIN u.rows : u.rows[i].wellFormed
  /\ \E i \in DOMAIN u.rows : ~u.rows[i].marked
  /\ {i \in DOMAIN u.rows : u.rows[i].marked} = {Len(u.rows)}

route_and_parse(u) ==
  \/ Route(u) = <<"lora", "gnss", "base">> /\ parse_combined_gnss_csv(u)
  \/ Route(u) = <<"lora", "accel", "rover">> /\ parse_lora_accel_csv(u)
  \/ Route(u) = <<"4g", "accel", "rover">> /\ parse_accel_csv_single_auxiliary_rawx(u)

AccelRows(u) == IF u.type = "accel" THEN SubSeq(u.rows, 1, Len(u.rows) - 1) ELSE <<>>

\* Positions of a file: all rows, or the last one of a LoRa window if it has
\* a fix and a place.
Positions(u) ==
  IF u.type = "gnss" THEN u.rows
  ELSE IF u.mode = "lora" /\ LastRow(u).fix > 0 /\ LastRow(u).located
    THEN <<LastRow(u)>> ELSE <<>>

\* analyze_accel_window; rate and gaps degrade a window too, as few samples do.
analyze_accel_window(s) ==
  IF \E i \in 2 .. Len(s) : \/ s[i].index <= s[i - 1].index
                            \/ s[i].time <= s[i - 1].time
    THEN "rejected"
  ELSE IF Len(s) < MinSamples THEN "degraded" ELSE "accepted"

-----------------------------------------------------------------------------
(* The statements of a handler, in their order *)

Reading(quantity, device, time) ==
  [do |-> "reading", quantity |-> quantity, device |-> device, time |-> time]
Raising == [do |-> "raise"]

\* A displacement needs a fix, a precise one, of a rover with a baseline; the
\* rows of the uploading base itself are positions of the base.
Displaces(u, row) ==
  /\ row.device # u.device \/ u.role = "rover"
  /\ row.device \in Baselined /\ row.fix > 0 /\ row.precise

\* Nothing is stored before every device is known to be at the uploader's site.
handle_position_rows(u) ==
  LET rows == Positions(u)
      OneSite == \A i \in DOMAIN rows : rows[i].device \in DOMAIN Stations
                   /\ Stations[rows[i].device] = Stations[u.device]
      battery == [i \in DOMAIN rows |-> Reading("battery", rows[i].device, rows[i].time)]
      fixes == Picked(rows, {i \in DOMAIN rows : rows[i].fix > 0 /\ rows[i].located})
      places == [i \in DOMAIN fixes |->
                   [do |-> "map", device |-> fixes[i].device, time |-> fixes[i].time]]
      moved == Picked(rows, {i \in DOMAIN rows : Displaces(u, rows[i])})
      displacements == [i \in DOMAIN moved |->
                          Reading("displacement", moved[i].device, moved[i].time)]
  IN IF ~OneSite THEN <<Raising>>
     ELSE (IF u.type = "gnss" THEN battery ELSE <<>>) \o places \o displacements

\* The event is recorded in any case, its measurements only if the quality
\* gate lets them; the table refuses an event that ends before it starts.
handle_accel_rows(u) ==
  LET s == AccelRows(u)
      gate == analyze_accel_window(s)
      start == s[1].time
  IN IF s = <<>> THEN <<>>
     ELSE IF \E i \in DOMAIN s : s[i].device # u.device THEN <<Raising>>
     ELSE <<[do |-> "accel"]>>
          \o (IF s[Len(s)].time < start THEN <<Raising>>
              ELSE <<[do |-> "event", gate |-> gate]>>)
          \o (IF gate = "rejected" THEN <<>>
              ELSE <<Reading("vibration", u.device, start), Reading("tilt", u.device, start)>>)

\* A 4G window brings one observation, and its header the battery's voltage.
FourG(u) ==
  IF u.mode = "4g"
    THEN <<[do |-> "observation", device |-> LastRow(u).device, time |-> LastRow(u).time]>>
         \o (IF u.battery THEN <<Reading("battery", u.device, u.received)>> ELSE <<>>)
    ELSE <<>>

\* Mutant: the file is processed before its battery telemetry is stored.
PlanProcessedEarly(u) ==
  handle_position_rows(u) \o handle_accel_rows(u) \o <<[do |-> "processed"]>> \o FourG(u)

Plan(u) ==
  handle_position_rows(u) \o handle_accel_rows(u) \o FourG(u) \o <<[do |-> "processed"]>>

-----------------------------------------------------------------------------
(* Uploads *)

\* Validated, parsed and claimed; a content other than the one retained
\* fails the file again.
upload_data(u) ==
  /\ validate_headers(u) /\ route_and_parse(u)
  /\ status[u.name] \in {"none", "failed"}
  /\ IF retained[u.name] \in {{}, {u}}
       THEN /\ status' = [status EXCEPT ![u.name] = "processing"]
            /\ todo' = [todo EXCEPT ![u.name] = Plan(u)]
            /\ retained' = [retained EXCEPT ![u.name] = {u}]
       ELSE /\ status' = [status EXCEPT ![u.name] = "failed"]
            /\ UNCHANGED <<todo, retained>>
  /\ UNCHANGED <<accel, observations, map, events, readings>>

\* INSERT ... ON CONFLICT (device_id, quantity, time) DO NOTHING: of two files
\* with one key, the first is kept.
InsertReading(f, key) ==
  IF \E r \in readings : r.key = key THEN readings
  ELSE readings \cup {[key |-> key, file |-> f]}

\* The next statement of the handler of f, one transaction.
Executes(f) ==
  /\ status[f] \in {"processing", "processed"} /\ todo[f] # <<>>
  /\ LET step == Head(todo[f])
         u == CHOOSE u \in retained[f] : TRUE
     IN
       /\ step.do # "raise"
       /\ todo' = [todo EXCEPT ![f] = Tail(@)]
       /\ status' = IF step.do = "processed" THEN [status EXCEPT ![f] = "processed"] ELSE status
       /\ readings' = IF step.do = "reading"
                        THEN InsertReading(f, <<step.device, step.quantity, step.time>>)
                        ELSE readings
       /\ map' = IF step.do = "map" THEN map \cup {<<step.device, step.time>>} ELSE map
       /\ events' = IF step.do = "event" THEN [events EXCEPT ![f] = step.gate] ELSE events
       /\ accel' = IF step.do = "accel"
                     THEN accel \cup {<<u.device, s.time, s.index>> : s \in ToSet(AccelRows(u))}
                     ELSE accel
       /\ observations' = IF step.do = "observation"
                            THEN observations \cup {<<step.device, step.time>>} ELSE observations
  /\ UNCHANGED retained

\* A statement raises, because it must or because the database fails.
Fails(f) ==
  /\ status[f] = "processing"
  /\ status' = [status EXCEPT ![f] = "failed"]
  /\ todo' = [todo EXCEPT ![f] = <<>>]
  /\ UNCHANGED <<retained, accel, observations, map, events, readings>>

SampleNext ==
  \/ \E u \in Uploads : upload_data(u)
  \/ \E f \in FileNames : Executes(f) \/ Fails(f)

SampleSpec == SampleInit /\ [][SampleNext]_sampleVars

-----------------------------------------------------------------------------
(* Properties *)

Stored(device, quantity, time) ==
  \E r \in readings : r.key = <<device, quantity, time>>

\* A file that reads processed (ingest.py:117), and so is never sent again,
\* has left everything it holds, however often it failed on the way and
\* whatever other files were served meanwhile: a window the gate lets through
\* its vibration and tilt under the time of its event, a 4G window its
\* observation, a usable position its place and displacement, a voltage its
\* battery reading.  A reading or an observation is there under its key; if
\* another file wrote that key first, its value stays (ON CONFLICT DO NOTHING).
ProcessedIsComplete ==
  \A u \in Uploads : status[u.name] = "processed" /\ retained[u.name] = {u} =>
    /\ \A i \in DOMAIN Positions(u) :
         LET row == Positions(u)[i] IN
           /\ u.type = "gnss" => Stored(row.device, "battery", row.time)
           /\ row.fix > 0 /\ row.located => <<row.device, row.time>> \in map
           /\ Displaces(u, row) => Stored(row.device, "displacement", row.time)
    /\ u.mode = "4g" => <<LastRow(u).device, LastRow(u).time>> \in observations
    /\ u.mode = "4g" /\ u.battery => Stored(u.device, "battery", u.received)
    /\ u.type = "accel" =>
         /\ events[u.name] = analyze_accel_window(AccelRows(u))
         /\ \A s \in ToSet(AccelRows(u)) : <<u.device, s.time, s.index>> \in accel
         /\ \A quantity \in {"vibration", "tilt"} :
              events[u.name] # "rejected" => Stored(u.device, quantity, AccelRows(u)[1].time)
=============================================================================
