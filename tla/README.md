# Slope monitoring: specifications, model checking and proofs

These TLA+ modules model the parts of the slope-monitoring server that keep state over several steps:
operators, devices, a daemon, retrying uploads, scheduled jobs and administrators, each with
transactions, files or requests of its own. Everything is translated from the code; `PROJECT.json`
names the lines behind every definition, the hazards of the code at their lines, and for each property
a plausible bug of the code that it would catch.

## 1. The system

Sites carry one base station, several rovers (GNSS, tilt, acceleration) and a blast siren that devices
read from their configuration. Devices upload files over HTTP and poll for configuration; operators
use a web client. The server is FastAPI on asyncio with one PostgreSQL database, a reconciler daemon
in a process of its own, and on one host a containerised PPK quality job run by two timers.

| Component | State | Operations | What is hard | Module |
|---|---|---|---|---|
| Blast commands, expiry, ACKs (`blast_service.py`, `blast_expiry.py`, `trigger_ack_service.py`) | TriggerStart and TimeOutTrigger, queue, acks, audit | START, RESET, expire, acknowledge | interleaved transactions, time stamps of BEGIN, stale ACKs | `BlastControl`, `TriggerRegister` |
| Timeout reconciler (`blast_timeout_reconciler.py`) | a cursor | paged scan every 10 s, a transaction per candidate | rows that move while it pages, failures, starvation | `TriggerReconciler` |
| Blast API reads (`routers/v1/blast.py`) | none | trigger-status, trigger-history | a reply joined from four instants | `TriggerStatus` |
| Device configuration (`config_repository.py`) | `device_config`, calibration, queue | pushes, calibration, reply with expiry on read | replies joined from several rows; two rules for the base of a site | `ConfigReply` |
| Upload endpoint and ledger (`ingest.py`, `file_upload_repository.py`, `raw_staging_repository.py`) | `file_uploads`, payloads, raw samples | claim, retain, stage, answer | autocommitted statements, retries, rivals, deaths | `UploadIngest`, `SampleIngest` |
| Parsing, routing, position and acceleration rows (`csv_validator.py`, `protocol_router.py`, `canonicalization_service.py`) | raw samples, map, events, measurements | route by header, execute handlers | one statement of many fails | `SampleIngest` |
| GNSS windows (`canonicalization_service.py`, `ppk_solution_repository.py`) | solutions, measurements | solve the window of a rover | both sides at once, re-solving | `UploadIngest` |
| RAWX conversion and time checks (`convert_rawx_ppk.py`, `ppk_time_integrity.py`) | output directory, manifest | convert, solve, accept | crash between files, reuse of a directory, numeric edges | `RawxConversion` |
| RINEX cache and providers (`rinex_service/`) | files by digest, manifests | acquire, store, import | crash between two files, writers without lock | `RinexCache` |
| PPK QA runner, backlog, scheduler, worker | JSON state file, job ledger, stored epochs | discover, prepare navigation, run, retry | lost updates, killed workers, slots | `PPKQA` |
| Resumable navigation download (`ppk_qa_scheduler.py`) | partial file and metadata | resume, promote, discard | a file that is replaced while it is fetched | `NavTransfer` |
| Model registry | models in memory, `model_versions` | register, activate, rollback | memory first, table later, restarts | `ModelRegistry` |
| Users and sessions | users, claims of tokens | login, refresh, change role, disable | last administrator, stale roles | `Accounts` |
| Sites, devices, base references | rows, measurements | create, move, delete, submit | requests beside ingestion, numbering | `Directory` |
| Dataset and evaluation (`ml/`) | rows, frames, samples, folds | adapt, window, split, train, test | leakage from the future | `Dataset`, `Evaluation` |

Uploads call canonicalization, which calls the PPK engine and the cache and writes measurements;
every upload is answered with the configuration reply, which may expire a trigger; the daemon expires
triggers beside it. The registry reads the model pipeline, the QA job reads samples and writes its
own tables. The rest (weather, dashboards, application shell, frontend) is listed under `components`
with the reason it is not modelled, and in section 6.

## 2. Modules

`X.tla` is a component, `MCX.tla` its instance for TLC with the `.cfg` files, `XProofs.tla` the theorems
about it; the theorems about the parts of `MCPlatform` are in `AcquisitionProofs`, `OperationsProofs` and
`PipelineProofs`. No module uses RECURSIVE.

### TriggerRegister and BlastControl
`TriggerRegister` is the promise: one command ON with a deadline, or OFF, without transactions.
`BlastControl` implements it. `config` and `timeout` are the TriggerStart and TimeOutTrigger rows, `pending`
the queue in the order of `id`, `txn` what each open transaction knows, `lock` the holder of the row lock.
A transaction is three actions: `Begin*` (which fixes `now()`, hence `began`), `LockFor*` (waits for the row
lock and decides under it) and `Commit*`, with all writes of the handler, since nothing is visible
before. `Abort` rolls back at any point. `pending[i].minutes` and `.by` are columns of configuration
rows the same call writes, kept with the queue for the properties. Senders are the base, its rovers and
strangers: all devices the ACK service refuses before it looks at a command. Acknowledgements are a set:
retries of one ACK count once.

### TriggerStatus
EXTENDS `BlastControl` by one `trigger-status` request. `ReadConfig`, `ReadPending`, `ReadAck` and `ReadTimeout` are its
SELECTs; the lists of recent events only feed the history panel. `truths` is a history variable: the
deliveries that held at some instant of the request.

### TriggerReconciler
One scan of the daemon over all stations; a START, RESET or expiry is one step, which `BlastControl`
justifies. `page` holds the rows fetched, `cursor` the key of the last one, `Visit` decides on the row as it
is now. A START may carry a time stamp up to `Lag` in the past, as it is the time of BEGIN. `visited` and
`steady` are history: rows handled by this scan, and rows ON and untouched since before it.

### ConfigReply
A reply is the reads of one request (`ExpiresOwn`, `ExpiresOnRead`, `ReadsOwn`, `ReadsStation`,
`ReadsBattery`), between which values and calibration are pushed, triggers started and reset, and
deadlines pass (`Lapses`). A value is the number of the write it came from, so that a mixture is seen.
`Station` is the rule of `config_repository.py:130` for the station of a site.

### UploadIngest
Each action is one autocommitted statement of the request, or one call without any: `ClaimNew`,
`ClaimFailed`, `LookAtClaim` are the three statements of `claim_for_processing`; `Receive` opens a request.
`Fault` is a statement that raises (and runs `mark_failed` after a claim; a `mark_processed` whose reply is lost
is one of its cases), `Die` a request whose handler never finishes. Within the window `SelectBaseRows` and
`SelectRoverRows` are two reads; the code takes rovers by `device_id`, the model in any order. A run is
identified by the rows and the cache state it was given, which is what the persisted provenance tells
apart. `answered` and `unsolved` are history. Assumed: all files lie in one window, each with its own epochs.

### SampleIngest
The other files: `validate_headers` and `route_and_parse` say which file is accepted and what it holds, `Plan` lists
the statements of its handlers in their order, `Executes` runs the first one left and `Fails` ends the file
as failed with what it stored. A row keeps what the code tells apart: whether it is well formed, located
and precise, its fix, its time and index.

### PPKQA
Hourly run (`Hourly*`), navigation retry (`Retry*`, `retry_nav_only`), workers (`Worker*`), and the world:
hours close, samples arrive late, the daily file grows. `disk` is the state file; `hourly.state` and
`retry.state` are the copies both read at start and write back whole. `RetryFails` is the except branch of the
retry, `retry_nav_only` an attempt that ends without an exception. `owed` is history: the windows whose last
job of the hourly run left them in the queue. The ledger has a row per window and
fingerprint of its samples; a fingerprint is the revision of the samples. Time is abstracted: cooldowns,
retry times and leases are compared with a clock when read, so the reader chooses which have passed;
what holds then holds for all lengths of the intervals. The lease of a RUNNING row
may have passed or not (`WorkerDeclines` and `WorkerClaims` are both possible on it).

### NavTransfer
Attempts of several processes on `name.part` and `name.part.json`. Content is a sequence of chunks
with the version each comes from; `attached` says whether the open file is still the one its name refers
to, because `nav_for` unlinks without the lock. A mirror may serve an older version; any attempt may fail.

### RinexCache
Per digest the files beside the manifest; writers create a temporary file, rename it, and write the
manifest the same way (`WritesArtifact` ... `RenamesManifest`). `Killed` leaves the temporary file behind.

### RawxConversion
A call has its arguments (streams, coordinates, navigation, programs installed) and writes the files of
the directory one by one, the manifest last; a file is known by the call that wrote it. The assessments of
receiver time are computed over the rows.

### Accounts, ModelRegistry, Directory
Requests statement by statement. `raced`, `disturbed` and `stale` are no state of the program: they record that
another request intervened, a statement failed or the process restarted, so that a property can say
exactly when its promise is not kept.

### Dataset and Evaluation
Sequential algorithms over arbitrary small inputs, stage by stage: adaptation, frames, window, sample
with its refusals; folds with purge and embargo, batches, tests. `SamplesInventNothing` compares a sample with
a reference selection over the rows (`FirstAdmissible`, `Observed`). The alignment of frames is the caller's
(`temporal_windowing.py:121`), and no caller in the repository has one: the model takes the instants of the accepted rows.

### Ranking
Python's `sorted` and lists filled under a condition, for `Evaluation`, `RawxConversion`, `Dataset` and `SampleIngest`.
The place of a member is the count of what is sorted before it, which is also how a stable sort treats
equal keys; `SortedBy` takes the members by their place. Unlike `SelectSeq` and `SortSeq` this is a definition the
prover can expand.

### MCPlatform
Ten components that share no variable are checked by one run: `subject` is chosen at the start and only that
component moves. Its invariants are those of the parts; a part's behaviours are exactly its own.

## 3. Runs

| Run | Instance | Shows |
|---|---|---|
| `blast_commands` | 2 operators, 2 expirers, timeouts 1 and 2, 2 commands beside expiries, 1 rollback | queue, audit and configuration agree; the register is implemented |
| `blast_acks` | operator, reconciler, one ACK at a time from base, rover or a stranger, 2 commands, one status request | decisions hold until COMMIT; delivery is what the base said; no stranger is accepted; `STALE_PENDING` is dead code; a reported delivery was true, as a whole, at one instant |
| `blast_liveness` | fair daemon, 1 failing transaction | no START stays for ever |
| `blast_overtaking` | as `blast_commands` | violated: newest `created_at` is not the command in force |
| `auto_timeout_reason` | one expiry, one status request | violated: the reply loses the AUTO_TIMEOUT reason |
| `reconciler_scan` | 3 stations, pages of 1, 3 commands, 1 failed scan | no trigger missed, visited twice or starved |
| `upload_ingest` | 2 requests, base file, rover file, one from before the ledger, 2 contents, 1 fault, 1 death | exclusion, promises, pairs, provenance |
| `upload_retry` | 1 request, 1 fault | violated: a failed upload never succeeds again |
| `ppk_qa` | 2 windows of one day, 2 workers, 2 revisions, 1 fault | ledger, stored epochs and navigation agree; the hourly run loses no window it queued, the retry only one queued after it read the file |
| `ppk_qa_revisit` | as `ppk_qa` | violated: a killed window is never discovered again |
| `user_disable` | 2 users, 2 requests | violated: nobody is ever disabled |
| `platform` | ten components, below | one or two promises of each |

`blast_acks` looks only where `InScope` (a state constraint) holds: the status request is over with its reply, and
while it reads the clock is at most 1 and no ACK was refused, which are rows it does not read. The commands,
expiries and ACKs before the request are not restricted.

Bounds. Two commands are needed for one to overtake or replace another and for a stale ACK; the clock
reaches a little beyond the longest deadline. Three stations with pages of one give two page borders
and a row that moves over each. Two requests suffice for every pair of statements to interleave; one fault
and one death leave each kind of half-done work. In `ppk_qa` two windows compete for one slot and share the
daily file that covers the earlier one first; two workers make the loser of the lock, two usable revisions
make a stored window whose samples change; one fault is a kill, a crash or a timeout of any process.

`platform`: two download attempts over two versions of two chunks, so a resumed part can mix them; two
writers, a valid and a refused digest, two names and a kill; two users and two overlapping role changes;
two model versions, two operators, restarts; a base on two sites with two editors; six files of which
two share a name with other contents; up to three measurements out of a set that has one of each
kind the audit refuses; six events in overlapping windows, two splits, with and without embargo; four
devices on two sites, of which one station is no BASE-01, with two writes and one reply at a time;
three calls of the conversion over streams with turned, repeated, torn and foreign rows.

`CHECK_DEADLOCK` is off in `platform` and `user_disable`, whose parts end when their bounds are used up (an
evaluation, a sample, a fixed number of writes or calls). It is on in all others: an idle actor can always begin something.

Fairness. `BlastControl`: the clock runs; a transaction that holds the lock ends; the daemon opens a
transaction for an active trigger (`_main` loops for ever and outlives exceptions); strong fairness on
its lock, because PostgreSQL's lock queue is first come first served. Nothing is assumed of operators
and devices. `TriggerReconciler`: the daemon's steps and the clock. `UploadIngest` (only for
`upload_retry`): every handler runs, and a device that sends its file again and again is received some time.
No other module states fairness: their code promises nothing that must eventually happen.

Findings (the violation runs).
1. `blast_overtaking`: `now()` is the time of BEGIN, commands take effect in the order of the row lock. A
   command begun first and committed last has an older pending row than the one it replaced; its ACK
   is refused or, with equal values, booked on the other command.
2. `auto_timeout_reason`: `updated_at` (`now()`) is compared with `expired_at` (`clock_timestamp()` read later).
3. `upload_retry`: the retry of an upload that failed after storing its solution finds the navigation file cached,
   differs in `navigation_cache_hit` from its own row, and conflicts each time.
4. `ppk_qa_revisit`: a worker killed at its time limit leaves a RUNNING row; discovery skips its window for
   ever, although the lease would allow another worker to take it.
5. `user_disable`: the audit row of DELETE carries a user id where a trigger of migration 021 asks for an
   e-mail address; the INSERT raises and the user is never disabled.

## 4. Proofs

For every value of the constants, from the named assumptions of each module (disjoint senders and
kinds of connections, positive bounds, markers outside their sets):

* `BlastControlProofs`: type correctness; `DecisionsHold`, inductive on its own, as no write to the command happens without
  the lock; `QueueInv`, the conjunction of `PendingMirrorsConfig`, `StartsHaveTimeouts`, `TimeoutsAreDue`,
  `EventsAreJustified`, `DeliveredByBase` and `AcksNameTheirCommand`, inductive relative to it (each has a
  theorem of its own): an event is justified only if the START served has a timeout, and a RESET by timeout directly follows its START
  only because queue and configuration mirror each other, and never before its deadline because the row it
  overwrites is the one it was decided on. From them `NeverStale`, the action properties
  `AcksAreCurrent` and `AutoResetIsAudited`, and `ImplementsRegister` (initial states and each step).
* `TriggerStatusProofs`: `DeliveryWasTrue`. `ReadInv` says at each phase which deliveries are already among
  `truths`; the lemma `VisibleSteps` reduces all transactions to three visible effects.
* `TriggerReconcilerProofs`: type correctness and `ScanMissesNothing`. `ScanInv`: an untouched trigger not yet visited lies
  behind the cursor or in the page, and in the page if it is the last one. `NoRevisit` rests on `CursorInv`: what
  was visited and not touched since is not after the cursor, so no later page has it.
* `UploadIngestProofs`: `OneProcessor` with the ledger status of each phase (`ClaimInv`); `RowsAreRetained` and
  `AnsweredIsStored` with where each phase's bytes are (`DataInv`); `MeasuredAsRecorded` (`RunInv`);
  `PairsAreSolved`. The last rests on `PairInv`: of a base and a rover file that are both staged, one has not
  finished with the window or the window is done, and a rover's request that saw no base rows leaves an
  unfinished base request behind it. Each action has an `...Effect` lemma that the step proofs use in place of
  its definition.
* `PPKQAProofs`: all properties of `ppk_qa`. Types need `RunsInv`: who is waited for exists, and who works has a
  window. `LedgerInv` adds to `CompletedIsStored` that who solves holds the lock and a RUNNING row, and that a
  RUNNING row nobody solves was left by a fault; the steps of the two runs leave it alone
  (`LedgerAlone`), the workers change one row under the lock. `StoredIsFinal` and `RunningHasOneWorker` follow.
  `ReadyMeansNavigation` is inductive although both runs overwrite the state file with stale copies: records never
  make a window ready, and a fetch only fills a day that had no file, where nothing was covered
  (`FetchCovers`). `QueueLosesNothing` needs `QueueInv`: of the windows the hourly run owes, what is queued on disk
  is queued in its own copy, and what the retry's copy still queues is queued on disk. Hence the hourly run
  never writes a copy that lacks one, however much the retry wrote, and the retry only lacks what was
  queued after it read the file (section 5).
* `AcquisitionProofs`: `PartIsOneVersion`. `HolderInv`: only the holder of the lock asks and receives, and what it
  appends to is of the version the metadata names, unless somebody unlinked both meanwhile; `nav_for`,
  which unlinks without the lock, only ever takes the names away. And `EntriesSurvive`: a process about to
  write a manifest has its artifact in place (`ArtifactInPlace`), refused content never gets one, and a
  temporary file is that of a process writing it (`TempInv`); `SaverMoves` and `SaverWrites` treat all steps
  that leave and that change the directories.
* `OperationsProofs`: four parts that requests of operators interleave in.
  `QuietTableAgrees` needs `RegistryInv`: while only one request is in flight and nothing was disturbed, the
  statements it has left are what the table still lacks of the registry. `LockoutNeedsRace` needs
  `AccountsInv`: a request about to take away its caller's own admin role, which nobody overlapped, saw
  another administrator, who still is one. `HistoryKeepsItsSite` needs `SiteIsKnown`: who is about to write a
  measurement has the site its device is at, unless the row was changed since it was read.
  `SubmissionsGetNumbers` needs `NumbersInv`: the positions of a base at a site are numbered from 1 without a
  gap, and at most one request holds a number for them, the next one. `RepliesAreCurrent` needs `ReplyInv`: what a
  row holds beyond the defaults was queued for its device and a trigger in force came with its timeout
  trigger (`RowsInv`); once a poll has looked at the station's trigger, neither that row nor what the
  poll has read of it holds a trigger that was over before (`PollHolds`).
* `PipelineProofs`: four parts that carry data. It begins with what sorting gives: `SortedByOrders` (every member
  once, in the order of the keys) and `AscendingOrders`, from the lemma that distinct members have distinct
  places and, by counting, every place is taken.
  `EvaluationNeverLeaks` needs `EvaluationInv` (a result is of its own fold's events) and `FoldIsPurged`: the first
  event of a test has the least start of the test, because ranks follow starts.
  `ManifestsDescribe` needs `RunInv` (a call that runs found the directory empty, so each file there is its own)
  and `ManifestInv`; that neighbours say all of a stream is `NeighboursSort`, `NoneBackward` and
  `RepeatsAreCounted`, and `AlignedIsNear` bounds every row's clock by the spread and the median.
  `SamplesInventNothing` needs `DatasetInv` (each stage holds what the rows give it). `AuditKeepsTheFirst` and `CellsAreFirst`
  reduce a cell to the first admissible row, `InstantsOrder` and `InstantsCount` the frames to the observed
  instants, `WindowsShift` the window to consecutive ones.
  `ProcessedIsComplete` needs `SampleInv`: a file that is served or processed keeps one content, has executed a
  prefix of its `Plan`, and everything in that prefix is stored (`Done`), which no step of another file takes
  back (`DoneStays`). `PositionsPlanned`, `AccelPlanned` and `FourGPlanned` say what a plan contains, `PlanEnds` that `processed` is its
  last statement; a plan with a statement that must raise never gets there.

Inductive invariants were put to TLC on the instances of section 3 before they were proved, those with a
history of strengthening (`ReplyInv`, `ManifestInv`, `SampleInv`) in full.

Every invariant and action property that a run checks is a theorem. Only model-checked: liveness (`EveryStartEnds`, `OverdueEnds`) and the
refinement of the register with its fairness (`ImplementsProgress`), since the prover handles neither
fairness nor `ENABLED`; the violation runs, which are counterexamples. `MCPlatform` itself has no theorem: each
theorem is about the specification of a part, of which the run's behaviours are instances with the other parts at rest.

## 5. Observed while modelling

What the models do because the code does, and no document of the repository contradicts:

* An upload whose handler dies stays `processing` and is refused for ever (`Die`).
* A second file with an epoch already stored keeps the first file's row (`raw_staging_repository.py:19`).
* A solve that fails for lack of navigation is logged and its upload processed: nothing solves the window
  again (`canonicalization_service.py:118`).
* A refused archive raises `RINEXNormalizationError`, which is no `RINEXParseError`, so one provider's corrupt
  answer ends `ensure` before the next provider is asked (`acquisition.py:65`).
* A kill between creation and rename leaves a temporary file, after which the entry is invalid for ever.
* A cached daily navigation file is never fetched again: evening windows of a day cached in the morning
  wait. Ready windows that always fail keep their slots (RECENT_JOBS).
* The navigation retry of the PPK QA runner discards windows: it reads the state file when it starts
  (runner:435) and writes that whole copy back after every attempt, failed ones included (runner:450). A window the
  hourly run queues in between is not in the copy and is gone from the queue with the next write;
  unless discovery selects it again it is not tried any more. `QueueLosesNothing` allows this loss and no other, and TLC
  finds it when its last disjunct is left out. The comment at runner:443 ("Never discard the job") is about
  the job of the failed attempt, which does stay. The runner takes no lock; the only unit in the
  repository that uses `flock` (`magris-ppk-qa.service:11`) starts the scheduler, not this runner. Where a
  deployment keeps the two timers apart by other means, neither this nor the next point happens.
* The stale copies also undo each other without a loss: a retry brings back a window
  the hourly run finished meanwhile (its next job finds it completed), and the hourly run writes
  back `waiting` over a window the retry made ready.
* A reading counts as stored when its key is: if another file wrote the same device, quantity and time first,
  the later file is processed and its value is not kept.
* `ack_pending` is called by nobody; slope and offset of a calibration are two requests, and a reply between them
  serves a mixed pair; a station that is no `BASE-01` may not be the one its rovers are served from
  (`config_repository.py:130`), while their ACKs are judged by another rule (`trigger_ack_service.py:50`).
  `POST /blast/trigger` accepts any device, of which only a station's own row is ever served.
* A reconciler candidate whose transaction always raises ends every scan before later ones.
* `gcn_slope_v1` can never be activated (10 features of 15); `GCNBaseline.load_weights` never raises, though a
  comment says activation relies on it.
* Measurements of a device deleted by force are inherited by the next of its name; the audit row of a
  delete is written even if no row is deleted.
* LoRa and PPK displacement share a measurement key; a window of decreasing times violates a CHECK on every retry.
* `assemble_graph_batch` takes MIC without history: with four devices or more the adjacency is zero;
  events after the last fold are never tested.
* Enrolling a second factor again leaves `mfa_enabled` set, where a comment (`auth.py:67`) says it resets.

## 6. Not modelled

* Legacy trigger service: unreachable, a module takes its package's name.
* Weather collectors, dashboards, sensor reads, histories and lists: single idempotent inserts or reads.
* Application shell, frontend: wiring and presentation.
* Text formats, RINEX parsing, RTKLIB, vibration, displacement and network arithmetic: floating point and
  text, in which a model checker reaches nothing a unit test does not; what they decide is modelled.
* Second factor and passwords; paged history; `ack_pending`; padding of a window and its count of epochs;
  DDL of the migrations, of which keys, defaults and triggers are part of the actions.

## 7. Plan

Left: abstract specifications of the upload ledger and of the PPK queue with refinement proofs, as
`TriggerRegister` is for the commands; larger instances of the parts of `platform` in runs of their own.
