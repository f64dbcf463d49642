---------------------------- MODULE UploadIngest ----------------------------
(***************************************************************************)
(* Uploads of raw GNSS files and what the server derives from them:        *)
(* upload_data of apps/api/routers/v1/ingest.py, with the ledger of        *)
(* file_upload_repository.py, handle_gnss_rows of                          *)
(* canonicalization_service.py and the solution records of                 *)
(* ppk_solution_repository.py.                                             *)
(*                                                                         *)
(* Every statement is a transaction of its own, so the requests of a       *)
(* device that retries, of its rival with the same name and of the other   *)
(* device of the pair interleave at each of them.  A statement may fail,   *)
(* and a request may die: its worker is killed, its task cancelled.        *)
(*                                                                         *)
(* All files lie in one PPK window, each with epochs of its own; one epoch *)
(* of the solution stands for all of a run's.                              *)
(***************************************************************************)
EXTENDS Integers, FiniteSets

CONSTANTS
  Requests,   (* handlers that may be running at once                       *)
  Files,      (* X-File-Name                                                *)
  Rovers,     (* rovers of the site with an approved baseline               *)
  Base,       (* its base station, with a surveyed position                 *)
  Sender,     (* device_id of each file                                     *)
  Payloads,   (* bytes                                                      *)
  Legacy,     (* files of before the ledger: processed, nothing retained    *)
  NoFile, NoPayload, NoRover,
  MaxFaults,  (* bound: statements that raise                               *)
  MaxDeaths   (* bound: requests that die                                   *)

ASSUME BaseIsNoRover == Base \notin Rovers /\ NoRover \notin Rovers
ASSUME SendersKnown == Sender \in [Files -> Rovers \cup {Base}]
ASSUME NothingsAreNone == NoFile \notin Files /\ NoPayload \notin Payloads
ASSUME LegacyAreFiles == Legacy \subseteq Files
ASSUME BoundsAreNat == {MaxFaults, MaxDeaths} \subseteq Nat

VARIABLES
  upload,     (* file_uploads.processing_status                             *)
  payload,    (* file_upload_payloads                                       *)
  samples,    (* gnss_raw_samples, by the file and bytes they come from     *)
  cached,     (* the navigation file of the day is in the cache             *)
  solution,   (* ppk_solution_records: the run each rover's row comes from  *)
  measured,   (* measurements: the run each displacement comes from         *)
  request,
  answered,   (* history: uploads a device was told are stored (200)        *)
  unsolved,   (* history: rovers for which a run solved or accepted nothing *)
  faults, deaths

vars == <<upload, payload, samples, cached, solution, measured, request,
          answered, unsolved, faults, deaths>>

database == <<upload, payload, samples, cached, solution, measured>>

Rows == [file : Files, bytes : Payloads]

(* What one run of RTKLIB was given; it is kept with the solution.         *)
Runs == [base : SUBSET Rows, rover : SUBSET Rows, cache_hit : BOOLEAN]

NoRun == [base |-> {}, rover |-> {}, cache_hit |-> FALSE]

Idle == [phase |-> "idle", file |-> NoFile, bytes |-> NoPayload,
         todo |-> {}, rover |-> NoRover, run |-> NoRun]

(* Phases inside the try block of upload_data.                             *)
Processing == {"claimed", "retained", "staged", "paired", "solving",
               "solved", "stored"}

Holding == Processing \cup {"failing"}

Phases == {"idle", "new", "exists", "held", "duplicate"} \cup Holding

TypeOK ==
  /\ upload \in [Files -> {"none", "processing", "processed", "failed"}]
  /\ payload \in [Files -> Payloads \cup {NoPayload}]
  /\ samples \subseteq Rows
  /\ cached \in BOOLEAN
  /\ solution \in [Rovers -> Runs]
  /\ measured \in [Rovers -> Runs]
  /\ request \in [Requests -> [phase : Phases, file : Files \cup {NoFile},
                     bytes : Payloads \cup {NoPayload}, todo : SUBSET Rovers,
                     rover : Rovers \cup {NoRover}, run : Runs]]
  /\ \A q \in Requests : request[q].phase # "idle" =>
       request[q].file \in Files /\ request[q].bytes \in Payloads
  /\ \A q \in Requests :
       request[q].phase \in {"paired", "solving", "solved", "stored"} =>
         request[q].rover \in Rovers
  /\ answered \subseteq Rows
  /\ unsolved \subseteq Rovers
  /\ faults \in Nat /\ deaths \in Nat

Init ==
  /\ upload = [f \in Files |-> IF f \in Legacy THEN "processed" ELSE "none"]
  /\ payload = [f \in Files |-> NoPayload]
  /\ samples = {}
  /\ cached \in BOOLEAN
  /\ solution = [r \in Rovers |-> NoRun]
  /\ measured = [r \in Rovers |-> NoRun]
  /\ request = [q \in Requests |-> Idle]
  /\ answered = {}
  /\ unsolved = {}
  /\ faults = 0 /\ deaths = 0

---------------------------------------------------------------------------
At(q, phase) == request[q].phase = phase

Row(q) == [file |-> request[q].file, bytes |-> request[q].bytes]

Become(q, r) == request' = [request EXCEPT ![q] = r]

Goto(q, phase) == Become(q, [request[q] EXCEPT !.phase = phase])

Leave(q) == Become(q, Idle)

History == <<answered, unsolved, faults, deaths>>

Receive(q, f, b) ==
  /\ At(q, "idle")
  /\ Become(q, [Idle EXCEPT !.phase = "new", !.file = f, !.bytes = b])
  /\ UNCHANGED <<database, History>>

---------------------------------------------------------------------------
(* claim_for_processing                                                    *)

(* Mutant: a claimed upload is recorded as only received.                  *)
ClaimAsReceived(q) ==
  /\ At(q, "new")
  /\ IF upload[request[q].file] = "none"
     THEN /\ upload' = [upload EXCEPT ![request[q].file] = "received"]
          /\ Goto(q, "claimed")
     ELSE UNCHANGED upload /\ Goto(q, "exists")
  /\ UNCHANGED <<payload, samples, cached, solution, measured, History>>

(* INSERT ... ON CONFLICT DO NOTHING                                       *)
ClaimNew(q) ==
  /\ At(q, "new")
  /\ IF upload[request[q].file] = "none"
     THEN /\ upload' = [upload EXCEPT ![request[q].file] = "processing"]
          /\ Goto(q, "claimed")
     ELSE UNCHANGED upload /\ Goto(q, "exists")
  /\ UNCHANGED <<payload, samples, cached, solution, measured, History>>

(* Mutant: any upload that is not finished can be taken over.              *)
ClaimUnfinished(q) ==
  /\ At(q, "exists")
  /\ IF upload[request[q].file] \in {"failed", "processing"}
     THEN /\ upload' = [upload EXCEPT ![request[q].file] = "processing"]
          /\ Goto(q, "claimed")
     ELSE UNCHANGED upload /\ Goto(q, "held")
  /\ UNCHANGED <<payload, samples, cached, solution, measured, History>>

(* UPDATE ... WHERE processing_status = 'failed'                           *)
ClaimFailed(q) ==
  /\ At(q, "exists")
  /\ IF upload[request[q].file] = "failed"
     THEN /\ upload' = [upload EXCEPT ![request[q].file] = "processing"]
          /\ Goto(q, "claimed")
     ELSE UNCHANGED upload /\ Goto(q, "held")
  /\ UNCHANGED <<payload, samples, cached, solution, measured, History>>

(* Anything but "processed" is answered 409, "retry later".                *)
LookAtClaim(q) ==
  /\ At(q, "held")
  /\ IF upload[request[q].file] = "processed"
     THEN Goto(q, "duplicate") ELSE Leave(q)
  /\ UNCHANGED <<database, History>>

(* Mutant: nothing retained counts as no difference.                       *)
AnswerUnlessDifferent(q) ==
  /\ At(q, "duplicate")
  /\ answered' = IF payload[request[q].file] \in {request[q].bytes, NoPayload}
                 THEN answered \cup {Row(q)} ELSE answered
  /\ Leave(q)
  /\ UNCHANGED <<database, unsolved, faults, deaths>>

(* 200 only for the retained bytes, 409 otherwise.                         *)
AnswerDuplicate(q) ==
  /\ At(q, "duplicate")
  /\ answered' = IF payload[request[q].file] = request[q].bytes
                 THEN answered \cup {Row(q)} ELSE answered
  /\ Leave(q)
  /\ UNCHANGED <<database, unsolved, faults, deaths>>

---------------------------------------------------------------------------
(* Processing                                                              *)

(* Mutant: other bytes under a known name are let through.                 *)
RetainFirst(q) ==
  /\ At(q, "claimed")
  /\ payload' = IF payload[request[q].file] = NoPayload
                THEN [payload EXCEPT ![request[q].file] = request[q].bytes]
                ELSE payload
  /\ Goto(q, "retained")
  /\ UNCHANGED <<upload, samples, cached, solution, measured, History>>

(* retain_original_payload: the first bytes stay, others raise.            *)
RetainPayload(q) ==
  /\ At(q, "claimed")
  /\ payload' = IF payload[request[q].file] = NoPayload
                THEN [payload EXCEPT ![request[q].file] = request[q].bytes]
                ELSE payload
  /\ Goto(q, IF payload'[request[q].file] = request[q].bytes
             THEN "retained" ELSE "failing")
  /\ UNCHANGED <<upload, samples, cached, solution, measured, History>>

(* Mutant: a file of the base station solves no window.                    *)
OwnRover(f) == {Sender[f]} \ {Base}

(* A rover's file solves its own window, one of the base every rover's.    *)
RoversOf(f) == IF Sender[f] = Base THEN Rovers ELSE {Sender[f]}

(* insert_gnss_raw_batch: an epoch already there stays as it is.           *)
StageRows(q) ==
  /\ At(q, "retained")
  /\ samples' = IF \E s \in samples : s.file = request[q].file
                THEN samples ELSE samples \cup {Row(q)}
  /\ Become(q, [request[q] EXCEPT !.phase = "staged",
                                  !.todo = RoversOf(request[q].file)])
  /\ UNCHANGED <<upload, payload, cached, solution, measured, History>>

RowsOf(d) == {s \in samples : Sender[s.file] = d}

SelectBaseRows(q) ==
  /\ At(q, "staged")
  /\ \E r \in request[q].todo :
       Become(q, [request[q] EXCEPT !.phase = "paired", !.rover = r,
                    !.run = [NoRun EXCEPT !.base = RowsOf(Base)]])
  /\ UNCHANGED <<database, History>>

(* The window is done with, solved or pending.                             *)
NextRover(q) ==
  Become(q, [request[q] EXCEPT !.phase = "staged", !.run = NoRun,
               !.rover = NoRover, !.todo = @ \ {request[q].rover}])

(* Too few epochs of one side: the window stays pending.  Otherwise the    *)
(* navigation file is looked up.                                           *)
SelectRoverRows(q) ==
  /\ At(q, "paired")
  /\ LET rows == RowsOf(request[q].rover) IN
     IF request[q].run.base = {} \/ rows = {}
     THEN NextRover(q)
     ELSE Become(q, [request[q] EXCEPT !.phase = "solving",
            !.run = [@ EXCEPT !.rover = rows, !.cache_hit = cached]])
  /\ UNCHANGED <<database, History>>

(* A file not in the cache is downloaded to it.                            *)
Solve(q) ==
  /\ At(q, "solving")
  /\ cached' = TRUE
  /\ Goto(q, "solved")
  /\ UNCHANGED <<upload, payload, samples, solution, measured, History>>

(* PPKSolveError or a solution of too poor a quality: the upload goes on.  *)
SolveNothing(q) ==
  /\ At(q, "solving")
  /\ cached' \in {cached, TRUE}
  /\ unsolved' = unsolved \cup {request[q].rover}
  /\ NextRover(q)
  /\ UNCHANGED <<upload, payload, samples, solution, measured, answered,
                 faults, deaths>>

(* Mutant: a conflicting row is taken for this run's own.                  *)
StoreOrKeep(q) ==
  /\ At(q, "solved")
  /\ solution' = IF solution[request[q].rover] = NoRun
                 THEN [solution EXCEPT ![request[q].rover] = request[q].run]
                 ELSE solution
  /\ Goto(q, "stored")
  /\ UNCHANGED <<upload, payload, samples, cached, measured, History>>

(* write_accepted: the row of another run raises.                          *)
StoreSolution(q) ==
  /\ At(q, "solved")
  /\ solution' = IF solution[request[q].rover] = NoRun
                 THEN [solution EXCEPT ![request[q].rover] = request[q].run]
                 ELSE solution
  /\ Goto(q, IF solution'[request[q].rover] = request[q].run
             THEN "stored" ELSE "failing")
  /\ UNCHANGED <<upload, payload, samples, cached, measured, History>>

(* write_displacement: ON CONFLICT DO NOTHING                              *)
Measure(q) ==
  /\ At(q, "stored")
  /\ measured' = IF measured[request[q].rover] = NoRun
                 THEN [measured EXCEPT ![request[q].rover] = request[q].run]
                 ELSE measured
  /\ NextRover(q)
  /\ UNCHANGED <<upload, payload, samples, cached, solution, History>>

MarkProcessed(q) ==
  /\ At(q, "staged") /\ request[q].todo = {}
  /\ upload' = [upload EXCEPT ![request[q].file] = "processed"]
  /\ answered' = answered \cup {Row(q)}
  /\ Leave(q)
  /\ UNCHANGED <<payload, samples, cached, solution, measured, unsolved,
                 faults, deaths>>

MarkFailed(q) ==
  /\ At(q, "failing")
  /\ upload' = [upload EXCEPT ![request[q].file] = "failed"]
  /\ Leave(q)
  /\ UNCHANGED <<payload, samples, cached, solution, measured, History>>

---------------------------------------------------------------------------
(* Failures                                                                *)

(* A statement raises: 500 before the claim, mark_failed after it.  The    *)
(* UPDATE of mark_processed may have been committed all the same.          *)
Fault(q) ==
  /\ faults < MaxFaults
  /\ faults' = faults + 1
  /\ \/ request[q].phase \in {"new", "exists", "held", "duplicate"}
        /\ Leave(q) /\ UNCHANGED upload
     \/ request[q].phase \in Processing
        /\ Goto(q, "failing") /\ UNCHANGED upload
     \/ At(q, "staged") /\ request[q].todo = {}
        /\ Goto(q, "failing")
        /\ upload' = [upload EXCEPT ![request[q].file] = "processed"]
  /\ UNCHANGED <<payload, samples, cached, solution, measured, answered,
                 unsolved, deaths>>

(* CancelledError is no Exception, and a killed worker runs no handler.    *)
(* The same is left behind when mark_failed itself raises.                 *)
Die(q) ==
  /\ ~At(q, "idle")
  /\ deaths < MaxDeaths
  /\ deaths' = deaths + 1
  /\ Leave(q)
  /\ UNCHANGED <<database, answered, unsolved, faults>>

HandlerStep(q) ==
  \/ ClaimNew(q) \/ ClaimFailed(q) \/ LookAtClaim(q) \/ AnswerDuplicate(q)
  \/ RetainPayload(q) \/ StageRows(q) \/ SelectBaseRows(q)
  \/ SelectRoverRows(q) \/ Solve(q) \/ SolveNothing(q) \/ StoreSolution(q)
  \/ Measure(q) \/ MarkProcessed(q) \/ MarkFailed(q)

Next ==
  \E q \in Requests :
    \/ \E f \in Files, b \in Payloads : Receive(q, f, b)
    \/ HandlerStep(q)
    \/ Fault(q)
    \/ Die(q)

Spec == Init /\ [][Next]_vars

(* The server runs every handler, and accepts the request of a device that *)
(* sends its file again and again.                                         *)
FairSpec ==
  /\ Spec
  /\ \A q \in Requests : WF_vars(HandlerStep(q))
  /\ \A f \in Files, b \in Payloads :
       SF_vars(\E q \in Requests : Receive(q, f, b))

---------------------------------------------------------------------------
(* No two requests process one file, and a file in the hands of one cannot *)
(* be claimed by another, whatever fails and whoever retries: INSERT, then *)
(* conditional UPDATE, are three statements without a transaction.         *)
OneProcessor ==
  \A p, q \in Requests :
    (/\ request[p].phase \in Holding /\ request[q].phase \in Holding
     /\ request[p].file = request[q].file) => p = q

(* Every row derived from an upload comes from the very bytes retained for *)
(* it, also after retries with other bytes under the same name.            *)
RowsAreRetained == \A s \in samples : payload[s.file] = s.bytes

(* A device that was answered 200, and may delete its file, finds these    *)
(* bytes retained and their rows stored.                                   *)
AnsweredIsStored ==
  \A a \in answered : payload[a.file] = a.bytes /\ a \in samples

(* README_v2.md, "A base upload also attempts reconciliation": when the    *)
(* files of base and rover are both processed, in whatever order and       *)
(* however concurrently, their window has been solved, or a run tried to.  *)
PairsAreSolved ==
  \A f, g \in Files :
    (/\ upload[f] = "processed" /\ upload[g] = "processed"
     /\ {f, g} \cap Legacy = {}
     /\ Sender[f] = Base /\ Sender[g] # Base) =>
      measured[Sender[g]] # NoRun \/ Sender[g] \in unsolved

(* A displacement comes from the run whose provenance is on record.        *)
MeasuredAsRecorded ==
  \A r \in Rovers : measured[r] # NoRun => measured[r] = solution[r]

(* Migration 016, "failed is retryable": a failed upload that its device   *)
(* keeps sending is processed in the end.                                  *)
FailedIsRetryable == \A f \in Files : upload[f] = "failed" ~> upload[f] = "processed"
=============================================================================
