------------------------------- MODULE Dataset -------------------------------
(***************************************************************************)
(* From persisted measurements to a sample of ml.dataset.v1: the adapter   *)
(* that audits them (ml/pipeline/adapters/measurement_adapter.py), the     *)
(* selection of a window of observed frames and the assembly of a sample   *)
(* (ml/pipeline/windowing/temporal_windowing.py) and the checks of the     *)
(* sample's constructor (ml/domain/dataset_schema.py).                     *)
(*                                                                         *)
(* A value is a name.  Axes are sets instead of parallel tuples: a matrix  *)
(* is a function of device and feature, the mask of a cell is whether it   *)
(* is Missing, the adjacency is left out.  Aligned frames are put together *)
(* by the caller.                                                          *)
(***************************************************************************)
EXTENDS Naturals, Sequences, FiniteSets, Ranking

CONSTANTS
  Site,             \* site_id asked for
  Nodes,            \* node_ids
  ExternalDevice,   \* external_device_id
  Units,            \* unit of every declared quantity
  AcceptedFlags,    \* accepted_quality_flags
  NodeFeatures,     \* feature_definitions of the sample
  SiteFeatures,     \* site_context_definitions of the sample
  Persisted,        \* rows the measurements table may hold
  MaxPersisted,     \* bound on the rows read
  Targets           \* regression targets, with the time of the target

NoFlag == "none"
\* The value None with MISSING_METADATA.
Missing == [value |-> "none", source |-> "missing", validation |-> "missing",
            flag |-> "missing", file |-> FALSE]

Quantities == DOMAIN Units
Times == {r.time : r \in Persisted}

ASSUME DatasetAssumption ==
  /\ ExternalDevice \notin Nodes /\ MaxPersisted \in Nat
  /\ NodeFeatures \subseteq Quantities /\ SiteFeatures \subseteq Quantities
  /\ Times \subseteq Nat /\ \A t \in Targets : t.time \in Nat /\ t.horizon \in Nat

VARIABLES
  measurements,   \* the rows, in the order they are read
  stage,          \* how far the caller is, "refused" after a ValueError
  accepted,       \* indices of the accepted rows
  frames,         \* the aligned frames
  asked,          \* window of the call
  sample          \* the sample

datasetVars == <<measurements, stage, accepted, frames, asked, sample>>

DatasetInit ==
  /\ measurements = <<>>
  /\ stage = "read"
  /\ accepted = {}
  /\ frames = <<>>
  /\ asked = <<>>
  /\ sample = <<>>

-----------------------------------------------------------------------------
(* The adapter *)

ValidExternal(r) ==
  /\ r.device = ExternalDevice
  /\ r.validation = "not_applicable"
  /\ r.file

ValidNode(r) == r.device \in Nodes /\ r.validation # "not_applicable"

\* adapt_measurement returns a candidate instead of raising.
Adapts(r) ==
  /\ r.site = Site
  /\ r.quantity \in Quantities
  /\ r.unit = Units[r.quantity]
  /\ r.source \in {"device", "external", "derived"}
  /\ r.validation \in {"unverified", "provisional", "validated", "not_applicable"}
  /\ IF r.source = "external" THEN ValidExternal(r) ELSE ValidNode(r)
  /\ r.flag \in AcceptedFlags \cup {NoFlag}
  /\ r.value # "nan"

Identity(r) == <<r.site, r.device, r.time, r.quantity>>

AuditLastWins(rs) ==
  {i \in DOMAIN rs :
     /\ Adapts(rs[i])
     /\ ~\E j \in i + 1 .. Len(rs) : Adapts(rs[j]) /\ Identity(rs[j]) = Identity(rs[i])}

\* audit_measurements: a row is rejected when an accepted one has its identity.
Audit(rs) ==
  {i \in DOMAIN rs :
     /\ Adapts(rs[i])
     /\ ~\E j \in 1 .. i - 1 : Adapts(rs[j]) /\ Identity(rs[j]) = Identity(rs[i])}

Cell(r) == [value |-> r.value, source |-> r.source, validation |-> r.validation,
            flag |-> r.flag, file |-> r.file]

-----------------------------------------------------------------------------
(* Frames and windows *)

\* The cell of the one row among the indices I with an identity.
CellOf(I, external, d, t, q) ==
  LET found == {i \in I : /\ Identity(measurements[i]) = <<Site, d, t, q>>
                          /\ (measurements[i].source = "external") = external}
  IN IF found = {} THEN Missing ELSE Cell(measurements[CHOOSE i \in found : TRUE])

\* AlignedFeatureFrame: the rows of one instant.
Frame(I, t) ==
  [time    |-> t,
   values  |-> [d \in Nodes |-> [q \in Quantities |-> CellOf(I, FALSE, d, t, q)]],
   context |-> [q \in Quantities |-> CellOf(I, TRUE, ExternalDevice, t, q)]]

\* select_trailing_frames raises when the window starts before the frames do.
Selectable(end, length) == end <= Len(frames) /\ length <= end
select_trailing_frames(end, length) == SubSeq(frames, end - length + 1, end)

Present(row) == {q \in DOMAIN row : row[q] # Missing}

\* build_temporal_graph_sample: nothing undeclared but the features of a node.
Declared(frame, devices) ==
  /\ Present(frame.context) \subseteq SiteFeatures
  /\ \A d \in Nodes \ devices : Present(frame.values[d]) = {}

\* _validate_site_context: external provenance only.
ValidContext(window) ==
  \A i \in DOMAIN window : \A q \in Present(window[i].context) :
    window[i].context[q].source = "external"

\* TemporalGraphSample.__post_init__: the part a built sample can fail.
ValidSample(window, devices, target) ==
  LET last == window[Len(window)].time
  IN /\ \A i \in 1 .. Len(window) - 1 : window[i].time < window[i + 1].time
     /\ target.device \in devices
     /\ target.time > last
     /\ target.time - last = target.horizon
     /\ ValidContext(window)

build_temporal_graph_sample(window, devices, target) ==
  [times   |-> [i \in DOMAIN window |-> window[i].time],
   values  |-> [i \in DOMAIN window |->
                  [d \in devices |-> [q \in NodeFeatures |-> window[i].values[d][q]]]],
   context |-> [i \in DOMAIN window |-> [q \in SiteFeatures |-> window[i].context[q]]],
   target  |-> target]

-----------------------------------------------------------------------------
(* The steps of a caller *)

Persists ==
  /\ stage = "read" /\ Len(measurements) < MaxPersisted
  /\ \E r \in Persisted : measurements' = Append(measurements, r)
  /\ UNCHANGED <<stage, accepted, frames, asked, sample>>

Audits ==
  /\ stage = "read" /\ stage' = "audited"
  /\ accepted' = Audit(measurements)
  /\ UNCHANGED <<measurements, frames, asked, sample>>

\* adapt_measurements raises at the first row audit_measurements would reject.
AdaptsAll ==
  /\ stage = "read"
  /\ IF Audit(measurements) = DOMAIN measurements
     THEN stage' = "audited" /\ accepted' = Audit(measurements)
     ELSE stage' = "refused" /\ UNCHANGED accepted
  /\ UNCHANGED <<measurements, frames, asked, sample>>

Aligns ==
  /\ stage = "audited" /\ stage' = "aligned"
  /\ LET times == Ascending({measurements[i].time : i \in accepted})
     IN frames' = [k \in DOMAIN times |-> Frame(accepted, times[k])]
  /\ UNCHANGED <<measurements, accepted, asked, sample>>

Samples(end, length, devices, target) ==
  /\ stage = "aligned"
  /\ asked' = [end |-> end, length |-> length]
  /\ LET window == select_trailing_frames(end, length)
     IN IF /\ Selectable(end, length)
           /\ \A i \in DOMAIN window : Declared(window[i], devices)
           /\ ValidSample(window, devices, target)
        THEN /\ sample' = build_temporal_graph_sample(window, devices, target)
             /\ stage' = "sampled"
        ELSE stage' = "refused" /\ UNCHANGED sample
  /\ UNCHANGED <<measurements, accepted, frames>>

DatasetNext ==
  \/ Persists \/ Audits \/ AdaptsAll \/ Aligns
  \/ \E end, length \in 1 .. MaxPersisted, devices \in SUBSET Nodes \ {{}}, target \in Targets :
       Samples(end, length, devices, target)

DatasetSpec == DatasetInit /\ [][DatasetNext]_datasetVars

-----------------------------------------------------------------------------
(***************************************************************************)
(* A sample invents nothing and reorders nothing: it has the instants that *)
(* were asked for, the last at the one before the target and none that was *)
(* observed in between is left out; a cell is the first admissible row of  *)
(* its device, instant and feature, however many rows claim it, and is     *)
(* missing only when there is no such row; external data is never in a     *)
(* node's cell ("without fabricating data", temporal_windowing.py:121;     *)
(* "never silently last-write-wins", measurement_adapter.py:163).  The     *)
(* instants are those of the frames the caller hands over, aligned to what *)
(* was observed; no aligner is part of the repository.                     *)
(***************************************************************************)
FirstAdmissible(external, d, t, q) ==
  LET found == {i \in DOMAIN measurements :
                  /\ Adapts(measurements[i])
                  /\ Identity(measurements[i]) = <<Site, d, t, q>>
                  /\ (measurements[i].source = "external") = external}
  IN IF found = {} THEN Missing
     ELSE Cell(measurements[CHOOSE i \in found : \A j \in found : i <= j])

Observed == {measurements[i].time : i \in {j \in DOMAIN measurements : Adapts(measurements[j])}}

SamplesInventNothing ==
  stage = "sampled" =>
    LET ts == sample.times
        within == {t \in Observed : ts[1] <= t /\ t <= ts[Len(ts)]}
    IN /\ Len(ts) = asked.length /\ within = {ts[i] : i \in DOMAIN ts}
       /\ Cardinality({t \in Observed : t <= ts[Len(ts)]}) = asked.end
       /\ \A t \in within : t < sample.target.time
       /\ \A i \in DOMAIN ts :
            /\ \A d \in DOMAIN sample.values[i], q \in NodeFeatures :
                 sample.values[i][d][q] = FirstAdmissible(FALSE, d, ts[i], q)
            /\ \A q \in SiteFeatures :
                 sample.context[i][q] = FirstAdmissible(TRUE, ExternalDevice, ts[i], q)
=============================================================================
