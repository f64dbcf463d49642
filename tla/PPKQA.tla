------------------------------- MODULE PPKQA -------------------------------
(***************************************************************************)
(* The experimental PPK QA chain: the hourly runner and its navigation     *)
(* retry (deploy/biznet/magris-ppk-qa-runner-b19), which share one state   *)
(* file without a lock; the discovery of windows (scripts/                 *)
(* ppk_qa_backlog.py); the scheduler that starts one worker for a window   *)
(* and kills it at a time limit (scripts/ppk_qa_scheduler.py); and the     *)
(* worker with its ledger, session lock and lease (scripts/                *)
(* ppk_qa_worker.py).                                                      *)
(*                                                                         *)
(* A window is a rover and an hour, numbered in the order (since, rover)   *)
(* both programs sort by.  Time is abstracted: the program compares stored *)
(* instants (cooldowns, retry_at, ready_retry_after, the lease) with its   *)
(* clock when it reads them, so the reader chooses which of them have      *)
(* passed.  Whatever is shown holds for every length of the intervals.     *)
(***************************************************************************)
EXTENDS Naturals, FiniteSets

CONSTANTS
  MaxWindow,          \* windows are 1..MaxWindow
  HoursPerDay,        \* windows of one daily navigation file
  Lookback,           \* RECENT_LOOKBACK_HOURS, in windows
  RecentJobs,         \* RECENT_JOBS
  MaxJobs,            \* MAX_JOBS
  MaxFailedAttempts,  \* max_failed_attempts of select_windows
  MaxRevision,        \* bound on the revisions of a window's samples
  Workers,            \* worker processes that may be alive at once
  NoWorker,           \* nobody: a free lock, a runner that waits for none
  MaxFaults           \* bound on kills, crashes and timeouts

ASSUME BoundsAssumption ==
  /\ {MaxWindow, HoursPerDay, Lookback, RecentJobs, MaxJobs,
      MaxFailedAttempts, MaxRevision} \subseteq Nat \ {0}
  /\ MaxFaults \in Nat
ASSUME WorkerAssumption == NoWorker \notin Workers

Windows == 1 .. MaxWindow
Days == 0 .. MaxWindow
Day(w) == (w - 1) \div HoursPerDay

\* Samples of a window: none, some without measurements, then usable ones
\* whose content (and so the fingerprint) changes with each late upload.
NoSamples == 0
Unusable == 1
Revisions == 2 .. MaxRevision
Unsolved == 0

VARIABLES
  newest,     \* the newest closed window
  inputs,     \* revision of the samples of each window
  published,  \* the provider's daily file covers the windows up to this one
  cached,     \* the newest window covered by the cached file of a day, 0: none
  disk,       \* the state file
  owed,       \* history: windows their last hourly job left in the queue
  hourly,     \* the hourly run: where it is, its copy of the state, its jobs
  retry,      \* the navigation retry: the same
  ledger,     \* ppk_qa_jobs: a row per window and fingerprint
  solutions,  \* ppk_qa_experimental_solutions: the revision solved, per window
  lock,       \* holder of the session advisory lock
  worker,     \* the worker processes
  faults      \* faults so far

qaVars == <<newest, inputs, published, cached, disk, owed, hourly, retry,
            ledger, solutions, lock, worker, faults>>
environment == <<newest, inputs, published>>
database == <<ledger, solutions, lock>>

-----------------------------------------------------------------------------
(* Types *)

\* nav_pending of a window: not queued, waiting for NAV, or validated.
Pending == {"none", "waiting", "ready"}
StateFile == [cooldowns : SUBSET Windows,
              nav_pending : [Windows -> Pending],
              ready_retry_after : SUBSET Windows]
EmptyState == [cooldowns |-> {},
               nav_pending |-> [w \in Windows |-> "none"],
               ready_retry_after |-> {}]

Outcomes == {"WAITING_NAV", "WAITING_INPUT", "PROCESSED_OR_IDEMPOTENT", "FAILED"}
Run == [pc : {"idle", "ready", "recent", "await"},
        state : StateFile, todo : SUBSET Windows, job : Windows \cup {0},
        nav_ready : BOOLEAN, completed_keys : SUBSET Windows, child : Workers \cup {NoWorker}]
IdleRun == [pc |-> "idle", state |-> EmptyState, todo |-> {}, job |-> 0,
            nav_ready |-> FALSE, completed_keys |-> {}, child |-> NoWorker]

Row == [status : {"absent", "RUNNING", "COMPLETED", "FAILED"}, attempts : Nat]
NoRow == [status |-> "absent", attempts |-> 0]
Process == [pc : {"idle", "read", "lock", "solve", "done"},
            window : Windows \cup {0}, key : Revisions \cup {Unsolved}, result : Outcomes]
IdleProcess == [pc |-> "idle", window |-> 0, key |-> Unsolved, result |-> "FAILED"]

TypeOK ==
  /\ newest \in 0 .. MaxWindow /\ published \in 0 .. MaxWindow
  /\ inputs \in [Windows -> 0 .. MaxRevision]
  /\ cached \in [Days -> 0 .. MaxWindow]
  /\ disk \in StateFile
  /\ owed \in SUBSET Windows
  /\ hourly \in Run
  /\ retry \in Run
  /\ ledger \in [Windows \X Revisions -> Row]
  /\ solutions \in [Windows -> Revisions \cup {Unsolved}]
  /\ lock \in Workers \cup {NoWorker}
  /\ worker \in [Workers -> Process]
  /\ faults \in 0 .. MaxFaults

Init ==
  /\ newest = 0 /\ published = 0
  /\ inputs = [w \in Windows |-> NoSamples]
  /\ cached = [d \in Days |-> 0]
  /\ disk = EmptyState /\ owed = {} /\ hourly = IdleRun /\ retry = IdleRun
  /\ ledger = [k \in Windows \X Revisions |-> NoRow]
  /\ solutions = [w \in Windows |-> Unsolved]
  /\ lock = NoWorker /\ worker = [k \in Workers |-> IdleProcess]
  /\ faults = 0

-----------------------------------------------------------------------------
(* The world: hours close, samples arrive late, the daily file grows. *)

HourCloses ==
  /\ newest < MaxWindow
  /\ newest' = newest + 1
  /\ UNCHANGED <<inputs, published, cached, disk, owed, hourly, retry, database, worker, faults>>

SamplesArrive(w) ==
  /\ w <= newest /\ inputs[w] < MaxRevision
  /\ inputs' = [inputs EXCEPT ![w] = @ + 1]
  /\ UNCHANGED <<newest, published, cached, disk, owed, hourly, retry, database, worker, faults>>

Publish ==
  /\ published < newest
  /\ published' = newest
  /\ UNCHANGED <<newest, inputs, cached, disk, owed, hourly, retry, database, worker, faults>>

Fault == faults < MaxFaults /\ faults' = faults + 1

-----------------------------------------------------------------------------
(* Navigation files.  nav_for serves a cached file first and never fetches *)
(* it again: a file cached for a morning window does not cover an evening  *)
(* one, which then waits until a day without file is asked for.            *)

Covered(w) == w <= cached[Day(w)]

\* nav_for with download: the file of the day is promoted to the cache only
\* when it validates for the window that asked.
FetchNav(w) ==
  IF cached[Day(w)] = 0 /\ w <= published
    THEN cached' = [cached EXCEPT ![Day(w)] = published]
    ELSE UNCHANGED cached

NavReady(w) == Covered(w) \/ (cached[Day(w)] = 0 /\ w <= published)

\* prepare_nav prints NAV_WAITING when the file is missing, does not cover
\* the window, or the network fails.
NavWaiting(w) == ~Covered(w)

-----------------------------------------------------------------------------
(* Selections.  Both programs take the newest first. *)

Newest(S, n) == {w \in S : Cardinality({v \in S : v > w}) < n}
First(S) == CHOOSE w \in S : \A v \in S : v <= w

due_nav_jobs(state, passed) ==
  Newest({w \in passed : state.nav_pending[w] = "waiting"}, MaxJobs)
ready_nav_jobs(state) ==
  Newest({w \in Windows : state.nav_pending[w] = "ready"}, MaxJobs)

\* The rows discovery reads: completed or running under any fingerprint
\* blocks the window, too many failed attempts exclude it.
Blocked(w) == \E r \in Revisions : ledger[<<w, r>>].status \in {"COMPLETED", "RUNNING"}
GivenUp(w) == \E r \in Revisions : /\ ledger[<<w, r>>].status = "FAILED"
                                   /\ ledger[<<w, r>>].attempts >= MaxFailedAttempts
Candidates == {w \in Windows : /\ newest < w + Lookback /\ w <= newest
                               /\ inputs[w] # NoSamples}

select_windows(cooling, limit) ==
  Newest({w \in Candidates : /\ ~Blocked(w) /\ ~GivenUp(w)
                             /\ solutions[w] = Unsolved
                             /\ w \notin cooling}, limit)


-----------------------------------------------------------------------------
(* What a run writes into its copy of the state.  Entries whose instant    *)
(* has passed have no effect; pruning them is not modelled.                *)

record_cooldown(state, w, outcome) ==
  IF outcome = "WAITING_NAV"
    THEN [state EXCEPT !.cooldowns = @ \cup {w}, !.nav_pending[w] = "waiting"]
    ELSE [state EXCEPT !.cooldowns = IF outcome = "WAITING_INPUT" THEN @ \cup {w}
                                                                 ELSE @ \ {w},
                       !.nav_pending[w] = "none"]

\* Mutant: a failed window is forgotten.
record_failure_and_drop(state, w, nav_ready) ==
  [state EXCEPT !.cooldowns = @ \cup {w}, !.nav_pending[w] = "none"]

\* The except branch of process_one.
record_failure(state, w, nav_ready) ==
  [state EXCEPT !.cooldowns = @ \cup {w},
                !.ready_retry_after = IF nav_ready THEN @ \cup {w} ELSE @]

record_result(state, w, outcome, nav_ready) ==
  IF outcome = "FAILED" THEN record_failure(state, w, nav_ready)
  ELSE record_cooldown([state EXCEPT !.ready_retry_after =
                                       IF nav_ready THEN @ \ {w} ELSE @], w, outcome)

-----------------------------------------------------------------------------
(* The hourly run. *)

HourlyStarts ==
  /\ hourly.pc = "idle"
  /\ \E held \in SUBSET disk.ready_retry_after :
       hourly' = [IdleRun EXCEPT !.pc = "ready", !.state = disk,
                                 !.todo = Newest(ready_nav_jobs(disk) \ held, RecentJobs)]
  /\ UNCHANGED <<environment, cached, disk, owed, retry, database, worker, faults>>

\* process_one ends for w with this state, which is written at once.
HourlyWrites(w, state) ==
  /\ disk' = state
  /\ owed' = IF state.nav_pending[w] # "none" THEN owed \cup {w} ELSE owed \ {w}
  /\ hourly' = [hourly EXCEPT !.pc = IF hourly.pc = "ready" \/ hourly.nav_ready
                                       THEN "ready" ELSE "recent",
                              !.state = state, !.todo = @ \ {w},
                              !.completed_keys = @ \cup {w},
                              !.job = 0, !.nav_ready = FALSE, !.child = NoWorker]

\* run_scheduler for a window whose navigation is in the cache.
HourlyLaunches(w, nav_ready) ==
  \E k \in Workers :
    /\ worker[k].pc = "idle"
    /\ worker' = [worker EXCEPT ![k] = [IdleProcess EXCEPT !.pc = "read", !.window = w]]
    /\ hourly' = [hourly EXCEPT !.pc = "await", !.job = w, !.nav_ready = nav_ready,
                                !.child = k]
    /\ UNCHANGED <<disk, owed>>

\* A ready window: no download, the scheduler waits when the cache has none.
HourlyTakesReady ==
  /\ hourly.pc = "ready" /\ hourly.todo # {}
  /\ LET w == First(hourly.todo) IN
       IF Covered(w) THEN HourlyLaunches(w, TRUE)
       ELSE /\ HourlyWrites(w, record_result(hourly.state, w, "WAITING_NAV", TRUE))
            /\ UNCHANGED worker
  /\ UNCHANGED <<environment, cached, retry, database, faults>>

\* Discovery sees the cooldowns of this run's copy and its own clock.
HourlyDiscovers ==
  /\ hourly.pc = "ready" /\ hourly.todo = {} /\ newest > 0
  /\ LET remaining == RecentJobs - Cardinality(hourly.completed_keys) IN
       /\ remaining > 0
       /\ \E cooling \in SUBSET hourly.state.cooldowns :
            hourly' = [hourly EXCEPT !.pc = "recent",
                         !.todo = select_windows(cooling, remaining)
                                    \ hourly.completed_keys]
  /\ UNCHANGED <<environment, cached, disk, owed, retry, database, worker, faults>>

\* handle_job for a discovered window: prepare_nav, then the scheduler.
HourlyTakesRecent ==
  /\ hourly.pc = "recent" /\ hourly.todo # {}
  /\ LET w == First(hourly.todo) IN
       \/ /\ NavReady(w) /\ FetchNav(w)
          /\ HourlyLaunches(w, FALSE)
       \/ /\ NavWaiting(w)
          /\ HourlyWrites(w, record_cooldown(hourly.state, w, "WAITING_NAV"))
          /\ UNCHANGED <<cached, worker>>
       \/ /\ HourlyWrites(w, record_failure(hourly.state, w, FALSE))
          /\ UNCHANGED <<cached, worker>>
  /\ UNCHANGED <<environment, retry, database, faults>>

HourlyCollects ==
  /\ hourly.pc = "await" /\ worker[hourly.child].pc = "done"
  /\ HourlyWrites(hourly.job, record_result(hourly.state, hourly.job,
                                  worker[hourly.child].result, hourly.nav_ready))
  /\ worker' = [worker EXCEPT ![hourly.child] = IdleProcess]
  /\ UNCHANGED <<environment, cached, retry, database, faults>>

\* subprocess.run gives up on the container, whose worker goes on.
HourlyGivesUp ==
  /\ hourly.pc = "await" /\ worker[hourly.child].pc # "done" /\ Fault
  /\ HourlyWrites(hourly.job, record_failure(hourly.state, hourly.job, hourly.nav_ready))
  /\ UNCHANGED <<environment, cached, retry, database, worker>>

\* No slot or no window is left, or the discovery raises.
HourlyEnds ==
  /\ hourly.pc \in {"ready", "recent"} /\ hourly.todo = {}
  /\ hourly' = IdleRun
  /\ UNCHANGED <<environment, cached, disk, owed, retry, database, worker, faults>>

Abandon(k) == IF hourly.pc = "await" /\ worker[k].pc = "done" /\ hourly.child = k
                THEN IdleProcess ELSE worker[k]

\* The runner is killed; a container it started goes on.
HourlyDies ==
  /\ hourly.pc # "idle" /\ Fault
  /\ hourly' = IdleRun
  /\ worker' = [k \in Workers |-> Abandon(k)]
  /\ UNCHANGED <<environment, cached, disk, owed, retry, database>>

-----------------------------------------------------------------------------
(* The navigation retry: no database, no worker. *)

RetryStarts ==
  /\ retry.pc = "idle"
  /\ \E passed \in SUBSET Windows :
       /\ due_nav_jobs(disk, passed) # {}
       /\ retry' = [IdleRun EXCEPT !.pc = "recent", !.state = disk,
                                   !.todo = due_nav_jobs(disk, passed)]
  /\ UNCHANGED <<environment, cached, disk, owed, hourly, database, worker, faults>>

RetryWrites(w, state) ==
  /\ disk' = state
  /\ retry' = IF retry.todo = {w} THEN IdleRun
              ELSE [retry EXCEPT !.state = state, !.todo = @ \ {w}]

\* Mutant: a failed attempt leaves the window marked ready.
RetryFailsTrusting ==
  /\ retry.pc = "recent"
  /\ RetryWrites(First(retry.todo),
                 [retry.state EXCEPT !.nav_pending[First(retry.todo)] = "ready"])
  /\ UNCHANGED <<environment, cached, owed, hourly, database, worker, faults>>

\* The except branch of the retry: the window waits for its next attempt.
RetryFails ==
  /\ retry.pc = "recent"
  /\ RetryWrites(First(retry.todo),
                 [retry.state EXCEPT !.nav_pending[First(retry.todo)] = "waiting"])
  /\ UNCHANGED <<environment, cached, owed, hourly, database, worker, faults>>

retry_nav_only ==
  /\ retry.pc = "recent"
  /\ LET w == First(retry.todo) IN
       \/ /\ NavReady(w) /\ FetchNav(w)
          /\ RetryWrites(w, [retry.state EXCEPT !.nav_pending[w] = "ready",
                                                !.cooldowns = @ \cup {w}])
       \/ /\ NavWaiting(w)
          /\ RetryWrites(w, record_cooldown(retry.state, w, "WAITING_NAV"))
          /\ UNCHANGED cached
  /\ UNCHANGED <<environment, owed, hourly, database, worker, faults>>

RetryDies ==
  /\ retry.pc # "idle" /\ Fault
  /\ retry' = IdleRun
  /\ UNCHANGED <<environment, cached, disk, owed, hourly, database, worker>>

-----------------------------------------------------------------------------
(* The worker.  Its session lock is freed when it ends, however it ends.   *)

\* The process ends; the scheduler reports its result to a runner that is
\* still waiting for it.
Exits(k, result) ==
  /\ worker' = [worker EXCEPT ![k] =
       IF hourly.child = k THEN [@ EXCEPT !.pc = "done", !.result = result]
                           ELSE IdleProcess]
  /\ lock' = IF lock = k THEN NoWorker ELSE lock

\* Mutant: epochs without measurements are counted as samples.
WorkerReadsAll(k) ==
  /\ worker[k].pc = "read"
  /\ worker' = [worker EXCEPT ![k].pc = "lock", ![k].key = inputs[worker[k].window]]
  /\ UNCHANGED <<environment, cached, disk, owed, hourly, retry, database, faults>>

WorkerReads(k) ==
  /\ worker[k].pc = "read"
  /\ LET rev == inputs[worker[k].window] IN
       IF rev \in Revisions
         THEN /\ worker' = [worker EXCEPT ![k].pc = "lock", ![k].key = rev]
              /\ UNCHANGED lock
         ELSE Exits(k, "WAITING_INPUT")
  /\ UNCHANGED <<environment, cached, disk, owed, hourly, retry, ledger, solutions, faults>>

RowOf(k) == <<worker[k].window, worker[k].key>>

\* Counting stops at MaxFailedAttempts, the last number that is compared.
OneMore(attempts) == IF attempts < MaxFailedAttempts THEN attempts + 1 ELSE attempts

\* pg_try_advisory_lock: the loser raises before it touches the ledger.
WorkerRefused(k) ==
  /\ worker[k].pc = "lock" /\ lock # NoWorker
  /\ Exits(k, "FAILED")
  /\ UNCHANGED <<environment, cached, disk, owed, hourly, retry, ledger, solutions, faults>>

\* Under the lock, a COMPLETED row leaves nothing to do, and a RUNNING one
\* makes the worker raise rather than steal, unless its lease has passed.
WorkerDeclines(k) ==
  /\ worker[k].pc = "lock" /\ lock = NoWorker
  /\ \/ /\ ledger[RowOf(k)].status = "COMPLETED"
        /\ Exits(k, "PROCESSED_OR_IDEMPOTENT")
     \/ ledger[RowOf(k)].status = "RUNNING" /\ Exits(k, "FAILED")
  /\ UNCHANGED <<environment, cached, disk, owed, hourly, retry, ledger, solutions, faults>>

\* Mutant: the result of pg_try_advisory_lock is not looked at.
WorkerClaimsAnyway(k) ==
  /\ worker[k].pc = "lock" /\ ledger[RowOf(k)].status # "COMPLETED"
  /\ lock' = k
  /\ ledger' = [ledger EXCEPT ![RowOf(k)] =
                  [status |-> "RUNNING", attempts |-> OneMore(@.attempts)]]
  /\ worker' = [worker EXCEPT ![k].pc = "solve"]
  /\ UNCHANGED <<environment, cached, disk, owed, hourly, retry, solutions, faults>>

\* Status check and upsert are two statements, which only the holder of the
\* lock executes: they are one step here.
WorkerClaims(k) ==
  /\ worker[k].pc = "lock" /\ lock = NoWorker
  /\ ledger[RowOf(k)].status # "COMPLETED"
  /\ lock' = k
  /\ ledger' = [ledger EXCEPT ![RowOf(k)] =
                  [status |-> "RUNNING", attempts |-> OneMore(@.attempts)]]
  /\ worker' = [worker EXCEPT ![k].pc = "solve"]
  /\ UNCHANGED <<environment, cached, disk, owed, hourly, retry, solutions, faults>>

\* Mutant: stored epochs are skipped without comparing their content.
WorkerCommitsSkipping(k) ==
  /\ worker[k].pc = "solve"
  /\ solutions' = [solutions EXCEPT ![worker[k].window] =
                     IF @ = Unsolved THEN worker[k].key ELSE @]
  /\ ledger' = [ledger EXCEPT ![RowOf(k)].status = "COMPLETED"]
  /\ Exits(k, "PROCESSED_OR_IDEMPOTENT")
  /\ UNCHANGED <<environment, cached, disk, owed, hourly, retry, faults>>

\* One transaction: no stored epoch differs, the new ones are inserted, the
\* row is COMPLETED.  All epochs carry the digest of their solution file, so
\* another revision of the window collides.
WorkerCommits(k) ==
  /\ worker[k].pc = "solve"
  /\ solutions[worker[k].window] \in {Unsolved, worker[k].key}
  /\ solutions' = [solutions EXCEPT ![worker[k].window] = worker[k].key]
  /\ ledger' = [ledger EXCEPT ![RowOf(k)].status = "COMPLETED"]
  /\ Exits(k, "PROCESSED_OR_IDEMPOTENT")
  /\ UNCHANGED <<environment, cached, disk, owed, hourly, retry, faults>>

\* Mutant: a failed solve leaves its row as it is.
WorkerFailsSilently(k) ==
  /\ worker[k].pc = "solve"
  /\ Exits(k, "FAILED")
  /\ UNCHANGED <<environment, cached, disk, owed, hourly, retry, ledger, solutions, faults>>

\* RTKLIB yields nothing, or the epochs collide with stored ones.
WorkerFails(k) ==
  /\ worker[k].pc = "solve"
  /\ ledger' = [ledger EXCEPT ![RowOf(k)].status = "FAILED"]
  /\ Exits(k, "FAILED")
  /\ UNCHANGED <<environment, cached, disk, owed, hourly, retry, solutions, faults>>

\* The scheduler's time limit, or the end of its container.
WorkerKilled(k) ==
  /\ worker[k].pc \notin {"idle", "done"} /\ Fault
  /\ Exits(k, "FAILED")
  /\ UNCHANGED <<environment, cached, disk, owed, hourly, retry, ledger, solutions>>

-----------------------------------------------------------------------------
WorkerSteps(k) ==
  \/ WorkerReads(k) \/ WorkerRefused(k) \/ WorkerDeclines(k) \/ WorkerClaims(k)
  \/ WorkerCommits(k) \/ WorkerFails(k) \/ WorkerKilled(k)

Next ==
  \/ HourCloses \/ Publish
  \/ \E w \in Windows : SamplesArrive(w)
  \/ HourlyStarts \/ HourlyTakesReady \/ HourlyDiscovers \/ HourlyTakesRecent
  \/ HourlyCollects \/ HourlyGivesUp \/ HourlyEnds \/ HourlyDies
  \/ RetryStarts \/ RetryFails \/ retry_nav_only \/ RetryDies
  \/ \E k \in Workers : WorkerSteps(k)

Spec == Init /\ [][Next]_qaVars

-----------------------------------------------------------------------------
(* Properties *)

\* The ledger says COMPLETED of exactly the revision whose epochs are stored,
\* whatever workers are killed, overtaken by their successor, or started
\* again for a window that is done (one transaction, ppk_qa_worker.py:350).
CompletedIsStored ==
  \A w \in Windows, r \in Revisions :
    ledger[<<w, r>>].status = "COMPLETED" <=> solutions[w] = r

\* "Never overwrite existing QA epochs" (ppk_qa_worker.py:351): once a window
\* has epochs they stay as they are, and its row is never reopened.
StoredIsFinal ==
  [][\A w \in Windows : solutions[w] # Unsolved =>
       /\ solutions'[w] = solutions[w]
       /\ ledger'[<<w, solutions[w]>>] = ledger[<<w, solutions[w]>>]]_qaVars

\* A window is marked ready, on disk or in the copy of either run, only if
\* its navigation is in the cache: "never ... mark NAV ready on a failed
\* attempt" (runner:443), although each run writes back what it read earlier.
ReadyMeansNavigation ==
  \A state \in {disk, hourly.state, retry.state} : \A w \in Windows :
    state.nav_pending[w] = "ready" => Covered(w)

\* A window its last hourly job left in the navigation queue leaves the state
\* file in two ways only.  The hourly run takes it out with its result
\* (processed, or its input is missing), never by writing a copy that lacks
\* it, however much the retry wrote meanwhile.  The retry, which promises never
\* to discard its job (runner:443), takes a window out only if it was queued
\* after the retry read the file: that loss does happen, as each of the two
\* writes back all it read when it started (runner:435, 450).
QueueLosesNothing ==
  [][\A w \in owed :
       disk.nav_pending[w] # "none" /\ disk'.nav_pending[w] = "none" =>
         \/ /\ hourly.job = w /\ hourly'.job = 0
            /\ worker[hourly.child].result \in {"PROCESSED_OR_IDEMPOTENT", "WAITING_INPUT"}
         \/ /\ hourly' = hourly /\ retry.pc # "idle"
            /\ retry.state.nav_pending[w] = "none"]_qaVars

\* No two workers are past the claim of a row, and every RUNNING row without
\* a worker is one whose worker was stopped.
RunningHasOneWorker ==
  \A w \in Windows, r \in Revisions :
    LET solving == {k \in Workers : worker[k].pc = "solve" /\ RowOf(k) = <<w, r>>} IN
      /\ Cardinality(solving) <= 1
      /\ solving # {} => ledger[<<w, r>>].status = "RUNNING"
      /\ ledger[<<w, r>>].status = "RUNNING" /\ solving = {} => faults > 0

\* "The cooldown is temporary and revisitable, not a deletion" (runner:485):
\* a recent window that failed and is in nobody's hands can be discovered
\* again once its cooldown has passed.
FailedIsRevisitable ==
  \A w \in Candidates :
    (/\ hourly.pc = "idle" /\ \A k \in Workers : worker[k].window # w
     /\ w \in disk.cooldowns /\ disk.nav_pending[w] = "none"
     /\ solutions[w] = Unsolved /\ ~GivenUp(w))
      => w \in select_windows({}, MaxWindow)
=============================================================================
