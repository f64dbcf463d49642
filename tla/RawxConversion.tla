--------------------------- MODULE RawxConversion ---------------------------
(***************************************************************************)
(* The conversion of retained RAWX files by hand (scripts/                 *)
(* convert_rawx_ppk.py): streams are read and their receiver times         *)
(* assessed (ml/pipeline/preprocessing/ppk_time_integrity.py), convbin and *)
(* rnx2rtkp run in an output directory file by file, and a manifest says   *)
(* last what was accepted.  A process may be killed between two files, and *)
(* the tool may be called again, for other inputs, on what it left.        *)
(*                                                                         *)
(* A stream is the sequence of its rows; a file in the directory is known  *)
(* by the call that wrote it.                                              *)
(***************************************************************************)
EXTENDS Integers, Sequences, FiniteSets, SequencesExt, Ranking

CONSTANTS
  Streams,    \* per name: rows of a retained CSV file
  NoStream,   \* no base was given
  Calls,      \* arguments the tool is called with
  Outcomes,   \* epochs of solution.pos rnx2rtkp may write
  MaxCalls    \* bound on calls

RawxRow == [device : STRING, valid : BOOLEAN, epoch : Nat, time : Nat, utc : BOOLEAN]

ASSUME ConversionAssumption ==
  /\ \A s \in DOMAIN Streams : Streams[s] \in Seq(RawxRow)
  /\ NoStream \notin DOMAIN Streams
  /\ Calls \subseteq [rover : DOMAIN Streams, base : DOMAIN Streams \cup {NoStream},
                      coords : {"none", "valid", "invalid"}, nav : {"none", "file", "missing"},
                      config : BOOLEAN, convbin : BOOLEAN, solver : BOOLEAN]
  /\ Outcomes \subseteq Seq(Nat) /\ MaxCalls \in Nat

\* An .obs stands for all that its run of convbin writes.
Files == {"rover.ubx", "base.ubx", "rover.obs", "base.obs", "navigation.rnx", "solution.pos"}
NoManifest == [status |-> "none"]

VARIABLES
  output,    \* the call each file in the directory is from, 0: no file
  manifest,  \* manifest.json, written once
  call,      \* the arguments of the call that runs
  step,      \* files it has written, -1: none runs
  solution,  \* what it parsed of solution.pos
  calls      \* calls so far

conversionVars == <<output, manifest, call, step, solution, calls>>

ConversionInit ==
  /\ output = [f \in Files |-> 0] /\ manifest = NoManifest
  /\ call = CHOOSE c \in Calls : TRUE
  /\ step = -1 /\ solution = <<>> /\ calls = 0

-----------------------------------------------------------------------------
\* rawx_time_info: week 0 or no measurement gives no epoch, here 0.
Measured(s) == {i \in DOMAIN Streams[s] : Streams[s][i].epoch # 0}
Epochs(s) == Picked([i \in DOMAIN Streams[s] |-> Streams[s][i].epoch], Measured(s))

\* read_rawx
Readable(s) ==
  /\ \A i \in DOMAIN Streams[s] : Streams[s][i].valid
  /\ Cardinality({Streams[s][i].device : i \in DOMAIN Streams[s]}) = 1
  /\ Epochs(s) # <<>>

Device(s) == Streams[s][1].device
Earliest(s) == CHOOSE e \in ToSet(Epochs(s)) : \A o \in ToSet(Epochs(s)) : e <= o
Latest(s) == CHOOSE e \in ToSet(Epochs(s)) : \A o \in ToSet(Epochs(s)) : e >= o

\* assess_receiver_epochs looks at neighbours.
Steps(e) == {i \in DOMAIN e : i + 1 \in DOMAIN e}
Duplicates(e) == Cardinality({i \in Steps(e) : e[i + 1] = e[i]})
NonMonotonic(e) == Cardinality({i \in Steps(e) : e[i + 1] < e[i]})

\* assess_receiver_overlap
Overlap(s, t) == (IF Latest(s) <= Latest(t) THEN Latest(s) ELSE Latest(t))
                   >= (IF Earliest(s) >= Earliest(t) THEN Earliest(s) ELSE Earliest(t))

\* assess_clock_deltas: how far the clock that stamped the rows is off, of
\* those whose leap second is known.  The median of an even number of rows
\* is halfway between two: all are doubled.
Deltas(s) ==
  LET known == {i \in Measured(s) : Streams[s][i].utc}
      delta == [i \in known |-> 2 * (Streams[s][i].time - Streams[s][i].epoch)]
      order == SortedBy(known, delta)
  IN [k \in DOMAIN order |-> delta[order[k]]]
Median(d) == (d[(Len(d) + 1) \div 2] + d[Len(d) \div 2 + 1]) \div 2
ClockStatus(s) ==
  LET d == Deltas(s)
  IN IF d = <<>> THEN "NO_RECEIVER_UTC"
     ELSE IF d[Len(d)] - d[1] > 2 * 2 THEN "ANOMALOUS_SOURCE_CLOCK"
     ELSE IF Median(d) \in -2 * 2 .. 2 * 2 THEN "ALIGNED"
     ELSE "SUSPECT_STABLE_OFFSET"

\* The arguments, the streams, the pair, its navigation and coordinates:
\* whatever is wrong ends the call before the directory is touched.
Accepts(c) ==
  /\ (c.base = NoStream) => c.coords = "none" /\ c.nav = "none"
  /\ c.base # NoStream => c.coords # "none" /\ c.nav # "none"
  /\ c.config /\ Readable(c.rover)
  /\ c.base # NoStream =>
       /\ Readable(c.base)
       /\ NonMonotonic(Epochs(c.base)) = 0 /\ NonMonotonic(Epochs(c.rover)) = 0
       /\ Device(c.base) # Device(c.rover)
       /\ Overlap(c.base, c.rover)
       /\ c.nav = "file" /\ c.coords = "valid"

\* The files a call writes, in their order: without convbin only the streams,
\* without rnx2rtkp no solution.
FilesOf(c) ==
  LET paired == c.base # NoStream
  IN <<"rover.ubx">> \o (IF paired THEN <<"base.ubx">> ELSE <<>>)
       \o (IF c.convbin THEN <<"rover.obs">> ELSE <<>>)
       \o (IF c.convbin /\ paired THEN <<"base.obs">> ELSE <<>>)
       \o (IF c.convbin /\ paired /\ c.solver THEN <<"navigation.rnx", "solution.pos">> ELSE <<>>)

\* engine_acceptance.status
Status(c) ==
  IF ~c.convbin THEN "BLOCKED_RUNTIME"
  ELSE IF c.base = NoStream THEN "PARTIAL_CONVBIN_ONLY"
  ELSE IF ~c.solver THEN "BLOCKED_RUNTIME"
  ELSE "PASS"

\* parse_pos_file
Parses(epochs) ==
  /\ epochs # <<>> /\ IsInjective(epochs)
  /\ \A i \in Steps(epochs) : epochs[i] <= epochs[i + 1]

-----------------------------------------------------------------------------
Empty == manifest = NoManifest /\ \A f \in Files : output[f] = 0

\* Mutant: the directory may hold what another call left.
ExecuteAnywhere(c) ==
  /\ step = -1 /\ calls < MaxCalls
  /\ call' = c /\ calls' = calls + 1
  /\ step' = IF Accepts(c) THEN 0 ELSE -1
  /\ solution' = <<>>
  /\ UNCHANGED <<output, manifest>>

\* The tool is called.  Nothing is written by a call that is refused.
Execute(c) ==
  /\ step = -1 /\ calls < MaxCalls
  /\ call' = c /\ calls' = calls + 1
  /\ step' = IF Accepts(c) /\ Empty THEN 0 ELSE -1
  /\ solution' = <<>>
  /\ UNCHANGED <<output, manifest>>

Running == step \in 0 .. Len(FilesOf(call)) - 1
Next_file == FilesOf(call)[step + 1]

WritesFile ==
  /\ Running /\ Next_file # "solution.pos"
  /\ output' = [output EXCEPT ![Next_file] = calls]
  /\ step' = step + 1
  /\ UNCHANGED <<manifest, call, solution, calls>>

\* rnx2rtkp has written its epochs; what does not parse ends the call.
Solves(epochs) ==
  /\ Running /\ Next_file = "solution.pos"
  /\ output' = [output EXCEPT !["solution.pos"] = calls]
  /\ IF Parses(epochs) THEN step' = step + 1 /\ solution' = epochs
                       ELSE step' = -1 /\ solution' = solution
  /\ UNCHANGED <<manifest, call, calls>>

\* A program fails, runs out of time or leaves nothing; or the navigation
\* cannot be normalized; or the process is killed.  The file may be there.
ConversionFails ==
  /\ Running
  /\ \/ UNCHANGED output
     \/ output' = [output EXCEPT ![Next_file] = calls]
  /\ step' = -1
  /\ UNCHANGED <<manifest, call, solution, calls>>

\* Killed with every file written, before the manifest or while it is written:
\* one that breaks off is no manifest.
FailsLate ==
  /\ step = Len(FilesOf(call))
  /\ step' = -1
  /\ UNCHANGED <<output, manifest, call, solution, calls>>

WritesManifest_json ==
  /\ step = Len(FilesOf(call))
  /\ manifest' = [status |-> Status(call), of |-> call, by |-> calls,
                  files |-> ToSet(FilesOf(call)), epochs |-> solution,
                  duplicates |-> Duplicates(Epochs(call.rover)),
                  clock |-> ClockStatus(call.rover)]
  /\ step' = -1
  /\ UNCHANGED <<output, call, solution, calls>>

ConversionNext ==
  \/ \E c \in Calls : Execute(c)
  \/ WritesFile \/ ConversionFails \/ FailsLate \/ WritesManifest_json
  \/ \E epochs \in Outcomes : Solves(epochs)

ConversionSpec == ConversionInit /\ [][ConversionNext]_conversionVars

-----------------------------------------------------------------------------
(* Properties *)

Sorted(e) == \A i, j \in DOMAIN e : i <= j => e[i] <= e[j]

\* What the neighbours were asked holds of the whole stream: no epoch is
\* before an earlier one, and every repeated epoch was counted.
PairIsSound(m) ==
  /\ Device(m.of.rover) # Device(m.of.base)
  /\ \A s \in {m.of.rover, m.of.base} : Sorted(Epochs(s))
  /\ m.duplicates = Len(Epochs(m.of.rover)) - Cardinality(ToSet(Epochs(m.of.rover)))
  /\ \E e \in 0 .. Latest(m.of.rover) : /\ Earliest(m.of.rover) <= e
                                      /\ e \in Earliest(m.of.base) .. Latest(m.of.base)
  /\ m.epochs # <<>> /\ Sorted(m.epochs) /\ IsInjective(m.epochs)

\* A manifest describes its directory: the files it names, all written by
\* its own call and none left by another, whatever was killed or failed
\* before ("Output directory must be empty; overwrite forbidden",
\* convert_rawx_ppk.py:305); one that passes is of a sound pair, and a clock
\* it calls aligned is nowhere off by more than the two limits together.
ManifestsDescribe ==
  manifest # NoManifest =>
    /\ manifest.by > 0
    /\ \A f \in Files : output[f] = IF f \in manifest.files THEN manifest.by ELSE 0
    /\ manifest.status = "PASS" => PairIsSound(manifest)
    /\ manifest.clock = "ALIGNED" =>
         \A i \in DOMAIN Deltas(manifest.of.rover) : Deltas(manifest.of.rover)[i] \in -8 .. 8
=============================================================================
