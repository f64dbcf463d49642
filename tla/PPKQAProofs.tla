---------------------------- MODULE PPKQAProofs ----------------------------
(***************************************************************************)
(* What PPKQA promises of ledger, stored epochs and the navigation queue,  *)
(* for any number of windows and workers and any number of faults.         *)
(***************************************************************************)
EXTENDS PPKQA, TLAPS, FiniteSetTheorems, WellFoundedInduction

-----------------------------------------------------------------------------
(* Selections *)

\* Where there is a window to take, the newest one is among them.
LEMMA FirstIsThere ==
  ASSUME NEW S \in SUBSET Windows, S # {}
  PROVE  First(S) \in S
<1> DEFINE T == {n \in Nat : MaxWindow - n \in S}
<1>1. MaxWindow \in Nat BY BoundsAssumption
<1>2. T # {}
  <2>1. PICK w \in S : TRUE OBVIOUS
  <2>2. w \in 1 .. MaxWindow BY DEF Windows
  <2>3. MaxWindow - w \in T BY <1>1, <2>2
  <2> QED BY <2>3
<1>3. PICK n \in T : \A m \in T : ~(<<m, n>> \in OpToRel(<, Nat))
  <2> HIDE DEF T
  <2>1. T \subseteq Nat BY DEF T
  <2> QED BY ONLY NatLessThanWellFounded, WFMin, <1>2, <2>1
<1>4. \A m \in T : ~(m < n) BY <1>3 DEF OpToRel
<1>5. \A v \in S : v <= MaxWindow - n
  <2> TAKE v \in S
  <2>1. v \in 1 .. MaxWindow BY DEF Windows
  <2>2. MaxWindow - v \in T BY <1>1, <2>1
  <2> QED BY <1>1, <1>4, <2>1, <2>2
<1> QED BY <1>5 DEF First

LEMMA NewestWindows ==
  ASSUME NEW S \in SUBSET Windows, NEW n
  PROVE  Newest(S, n) \subseteq S
BY DEF Newest

\* The window before the first hour is on no day: every window's is a day.
LEMMA DayOfWindow ==
  ASSUME NEW w \in Windows
  PROVE  Day(w) \in Days
<1>1. MaxWindow \in Nat /\ HoursPerDay \in Nat \ {0} BY BoundsAssumption
<1>2. w \in Nat /\ 1 <= w /\ w <= MaxWindow BY <1>1 DEF Windows
<1> QED BY <1>1, <1>2 DEF Day, Days

-----------------------------------------------------------------------------
(* Types *)

\* Who is waited for exists, a retry that goes on has a window to go on
\* with, and who works has a window and its samples.
RunsInv ==
  /\ retry.pc = "recent" => retry.todo # {}
  /\ hourly.pc = "await" => hourly.child \in Workers /\ hourly.job \in Windows
  /\ \A k \in Workers :
       /\ worker[k].pc \in {"read", "lock", "solve"} => worker[k].window \in Windows
       /\ worker[k].pc \in {"lock", "solve"} => worker[k].key \in Revisions

LEMMA StateTypes ==
  ASSUME NEW state \in StateFile, NEW w \in Windows, NEW outcome \in Outcomes, NEW b \in BOOLEAN
  PROVE  /\ record_cooldown(state, w, outcome) \in StateFile
         /\ record_failure(state, w, b) \in StateFile
         /\ record_result(state, w, outcome, b) \in StateFile
<1>1. \A s \in StateFile : record_cooldown(s, w, outcome) \in StateFile
  BY DEF record_cooldown, StateFile, Pending
<1>2. record_failure(state, w, b) \in StateFile
  BY DEF record_failure, StateFile
<1>3. [state EXCEPT !.ready_retry_after = IF b THEN @ \ {w} ELSE @] \in StateFile
  BY DEF StateFile
<1> QED BY <1>1, <1>2, <1>3 DEF record_result

LEMMA IdleTypes == IdleRun \in Run /\ IdleProcess \in Process /\ EmptyState \in StateFile
BY DEF IdleRun, Run, EmptyState, StateFile, Pending, IdleProcess, Process, Outcomes

LEMMA WritesTypes ==
  ASSUME TypeOK, NEW w \in Windows, NEW state \in StateFile, HourlyWrites(w, state)
  PROVE  /\ disk' \in StateFile /\ hourly' \in Run /\ hourly'.pc # "await"
         /\ owed' \in SUBSET Windows
BY DEF TypeOK, HourlyWrites, Run

LEMMA LaunchTypes ==
  ASSUME TypeOK, RunsInv, NEW w \in Windows, NEW b \in BOOLEAN, HourlyLaunches(w, b),
         UNCHANGED retry
  PROVE  /\ disk' \in StateFile /\ hourly' \in Run /\ owed' \in SUBSET Windows
         /\ worker' \in [Workers -> Process]
         /\ RunsInv'
<1>1. PICK k \in Workers :
        /\ worker' = [worker EXCEPT ![k] = [IdleProcess EXCEPT !.pc = "read", !.window = w]]
        /\ hourly' = [hourly EXCEPT !.pc = "await", !.job = w, !.nav_ready = b, !.child = k]
        /\ UNCHANGED <<disk, owed>>
  BY DEF HourlyLaunches
<1>2. [IdleProcess EXCEPT !.pc = "read", !.window = w] \in Process
  BY IdleTypes DEF Process
<1>3. /\ disk' \in StateFile /\ hourly' \in Run /\ owed' \in SUBSET Windows
      /\ worker' \in [Workers -> Process]
  BY <1>1, <1>2 DEF TypeOK, Run
<1>4. RunsInv'
  BY <1>1, <1>2 DEF TypeOK, RunsInv, Run, Process, IdleProcess
<1> QED BY <1>3, <1>4

LEMMA ExitsTypes ==
  ASSUME TypeOK, RunsInv, NEW k \in Workers, NEW r \in Outcomes, Exits(k, r),
         UNCHANGED <<hourly, retry>>
  PROVE  /\ worker' \in [Workers -> Process] /\ lock' \in Workers \cup {NoWorker}
         /\ RunsInv'
<1>1. worker' \in [Workers -> Process]
  BY IdleTypes DEF TypeOK, Exits, Process
<1>2. lock' \in Workers \cup {NoWorker} BY DEF TypeOK, Exits
<1>3. worker'[k].pc \in {"idle", "done"} BY DEF TypeOK, Exits, Process, IdleProcess
<1>4. \A j \in Workers \ {k} : worker'[j] = worker[j] BY DEF TypeOK, Exits
<1>5. RunsInv' BY <1>3, <1>4 DEF RunsInv
<1> QED BY <1>1, <1>2, <1>5

\* The runs: what they take, they take from windows.
LEMMA HourlyTypes ==
  ASSUME TypeOK, RunsInv,
         HourlyStarts \/ HourlyTakesReady \/ HourlyDiscovers \/ HourlyTakesRecent
           \/ HourlyCollects \/ HourlyGivesUp \/ HourlyEnds \/ HourlyDies
  PROVE  TypeOK' /\ RunsInv'
<1> USE DEF Windows
<1>1. hourly.state \in StateFile /\ hourly.todo \in SUBSET Windows
        /\ hourly.nav_ready \in BOOLEAN
  BY DEF TypeOK, Run
<1>a. ASSUME HourlyStarts PROVE TypeOK' /\ RunsInv'
  <2>1. PICK held \in SUBSET disk.ready_retry_after :
          hourly' = [IdleRun EXCEPT !.pc = "ready", !.state = disk,
                       !.todo = Newest(ready_nav_jobs(disk) \ held, RecentJobs)]
    BY <1>a DEF HourlyStarts
  <2>2. Newest(ready_nav_jobs(disk) \ held, RecentJobs) \subseteq Windows
    BY DEF Newest, ready_nav_jobs
  <2>3. hourly' \in Run /\ hourly'.pc = "ready" BY <2>1, <2>2, IdleTypes DEF TypeOK, Run
  <2> QED BY <1>a, <2>3 DEF HourlyStarts, TypeOK, RunsInv, environment, database
<1>b. ASSUME HourlyTakesReady PROVE TypeOK' /\ RunsInv'
  <2> DEFINE w == First(hourly.todo)
  <2>1. w \in Windows BY <1>b, <1>1, FirstIsThere DEF HourlyTakesReady
  <2>2. record_result(hourly.state, w, "WAITING_NAV", TRUE) \in StateFile
    BY <1>1, <2>1, StateTypes DEF Outcomes
  <2>3. CASE HourlyLaunches(w, TRUE)
    BY <1>b, <2>1, <2>3, LaunchTypes DEF HourlyTakesReady, TypeOK, environment, database
  <2>4. CASE HourlyWrites(w, record_result(hourly.state, w, "WAITING_NAV", TRUE)) /\ UNCHANGED worker
    BY <1>b, <2>1, <2>2, <2>4, WritesTypes DEF HourlyTakesReady, TypeOK, RunsInv, environment, database
  <2> QED BY <1>b, <2>3, <2>4 DEF HourlyTakesReady
<1>c. ASSUME HourlyDiscovers PROVE TypeOK' /\ RunsInv'
  <2>1. PICK cooling \in SUBSET hourly.state.cooldowns :
          hourly' = [hourly EXCEPT !.pc = "recent",
                       !.todo = select_windows(cooling, RecentJobs - Cardinality(hourly.completed_keys))
                                  \ hourly.completed_keys]
    BY <1>c DEF HourlyDiscovers
  <2>2. select_windows(cooling, RecentJobs - Cardinality(hourly.completed_keys)) \subseteq Windows
    BY DEF select_windows, Newest, Candidates
  <2>3. hourly' \in Run /\ hourly'.pc = "recent" BY <2>1, <2>2 DEF TypeOK, Run
  <2> QED BY <1>c, <2>3 DEF HourlyDiscovers, TypeOK, RunsInv, environment, database
<1>d. ASSUME HourlyTakesRecent PROVE TypeOK' /\ RunsInv'
  <2> DEFINE w == First(hourly.todo)
  <2>1. w \in Windows BY <1>d, <1>1, FirstIsThere DEF HourlyTakesRecent
  <2>2. /\ record_cooldown(hourly.state, w, "WAITING_NAV") \in StateFile
        /\ record_failure(hourly.state, w, FALSE) \in StateFile
    BY <1>1, <2>1, StateTypes DEF Outcomes
  <2>3. CASE FetchNav(w) /\ HourlyLaunches(w, FALSE)
    <3>1. cached' \in [Days -> 0 .. MaxWindow] BY <2>3 DEF TypeOK, FetchNav
    <3> QED BY <1>d, <2>1, <2>3, <3>1, LaunchTypes DEF HourlyTakesRecent, TypeOK, environment, database
  <2>4. CASE \E s \in StateFile : HourlyWrites(w, s) /\ UNCHANGED <<cached, worker>>
    BY <1>d, <2>1, <2>4, WritesTypes DEF HourlyTakesRecent, TypeOK, RunsInv, environment, database
  <2> QED BY <1>d, <2>2, <2>3, <2>4 DEF HourlyTakesRecent
<1>e. ASSUME HourlyCollects PROVE TypeOK' /\ RunsInv'
  <2>1. hourly.child \in Workers /\ hourly.job \in Windows
    BY <1>e DEF HourlyCollects, RunsInv
  <2>2. worker[hourly.child].result \in Outcomes BY <2>1 DEF TypeOK, Process
  <2>3. record_result(hourly.state, hourly.job, worker[hourly.child].result, hourly.nav_ready)
          \in StateFile
    BY <1>1, <2>1, <2>2, StateTypes
  <2>4. /\ disk' \in StateFile /\ hourly' \in Run /\ hourly'.pc # "await"
        /\ owed' \in SUBSET Windows
    BY <1>e, <2>1, <2>3, WritesTypes DEF HourlyCollects
  <2>5. /\ worker' \in [Workers -> Process] /\ worker'[hourly.child].pc = "idle"
        /\ \A k \in Workers \ {hourly.child} : worker'[k] = worker[k]
    BY <1>e, <2>1, IdleTypes DEF HourlyCollects, TypeOK, IdleProcess
  <2> QED BY <1>e, <2>4, <2>5 DEF HourlyCollects, TypeOK, RunsInv, environment, database
<1>f. ASSUME HourlyGivesUp PROVE TypeOK' /\ RunsInv'
  <2>1. hourly.job \in Windows BY <1>f DEF HourlyGivesUp, RunsInv
  <2>2. record_failure(hourly.state, hourly.job, hourly.nav_ready) \in StateFile
    BY <1>1, <2>1, StateTypes DEF Outcomes
  <2>3. /\ disk' \in StateFile /\ hourly' \in Run /\ hourly'.pc # "await"
        /\ owed' \in SUBSET Windows
    BY <1>f, <2>1, <2>2, WritesTypes DEF HourlyGivesUp
  <2>4. faults' \in 0 .. MaxFaults
    BY <1>f, BoundsAssumption DEF HourlyGivesUp, Fault, TypeOK
  <2> QED BY <1>f, <2>3, <2>4 DEF HourlyGivesUp, TypeOK, RunsInv, environment, database
<1>g. ASSUME HourlyEnds PROVE TypeOK' /\ RunsInv'
  BY <1>g, IdleTypes DEF HourlyEnds, TypeOK, RunsInv, IdleRun, environment, database
<1>h. ASSUME HourlyDies PROVE TypeOK' /\ RunsInv'
  <2>1. hourly' \in Run /\ hourly'.pc = "idle" BY <1>h, IdleTypes DEF HourlyDies, IdleRun
  <2>2. \A k \in Workers : Abandon(k) \in {IdleProcess, worker[k]} BY DEF Abandon
  <2>3. worker' \in [Workers -> Process] BY <1>h, <2>2, IdleTypes DEF HourlyDies, TypeOK
  <2>4. \A k \in Workers : worker'[k] \in {IdleProcess, worker[k]} BY <1>h, <2>2 DEF HourlyDies
  <2>5. faults' \in 0 .. MaxFaults
    BY <1>h, BoundsAssumption DEF HourlyDies, Fault, TypeOK
  <2> QED BY <1>h, <2>1, <2>3, <2>4, <2>5
          DEF HourlyDies, TypeOK, RunsInv, IdleProcess, environment, database
<1> QED BY <1>a, <1>b, <1>c, <1>d, <1>e, <1>f, <1>g, <1>h

LEMMA RetryTypes ==
  ASSUME TypeOK, RunsInv, RetryStarts \/ retry_nav_only \/ RetryFails \/ RetryDies
  PROVE  TypeOK' /\ RunsInv'
<1> USE DEF Windows
<1>1. retry.state \in StateFile /\ retry.todo \in SUBSET Windows
  BY DEF TypeOK, Run
<1>a. ASSUME RetryStarts PROVE TypeOK' /\ RunsInv'
  <2>1. PICK passed \in SUBSET Windows :
          due_nav_jobs(disk, passed) # {} /\ retry' = [IdleRun EXCEPT !.pc = "recent", !.state = disk,
                                   !.todo = due_nav_jobs(disk, passed)]
    BY <1>a DEF RetryStarts
  <2>2. due_nav_jobs(disk, passed) \subseteq Windows BY DEF due_nav_jobs, Newest
  <2>3. retry' \in Run /\ retry'.todo # {}
    BY <2>1, <2>2, IdleTypes DEF TypeOK, Run
  <2> QED BY <1>a, <2>3 DEF RetryStarts, TypeOK, RunsInv, environment, database
<1>b. ASSUME retry_nav_only \/ RetryFails PROVE TypeOK' /\ RunsInv'
  <2> DEFINE w == First(retry.todo)
  <2>1. w \in retry.todo BY <1>b, <1>1, FirstIsThere DEF retry_nav_only, RetryFails, RunsInv
  <2>2. PICK state \in StateFile : RetryWrites(w, state)
    <3>1. record_cooldown(retry.state, w, "WAITING_NAV") \in StateFile
      BY <1>1, <2>1, StateTypes DEF Outcomes
    <3>2. [retry.state EXCEPT !.nav_pending[w] = "waiting"] \in StateFile
      BY <1>1, <2>1 DEF StateFile, Pending
    <3>3. [retry.state EXCEPT !.nav_pending[w] = "ready", !.cooldowns = @ \cup {w}] \in StateFile
      <4>1. w \in Windows BY <1>1, <2>1
      <4>2. retry.state.cooldowns \cup {w} \in SUBSET Windows BY <1>1, <4>1 DEF StateFile
      <4>3. [retry.state.nav_pending EXCEPT ![w] = "ready"] \in [Windows -> Pending]
        BY <1>1, <4>1 DEF StateFile, Pending
      <4> QED BY <1>1, <4>2, <4>3 DEF StateFile
    <3> QED BY <1>b, <3>1, <3>2, <3>3 DEF retry_nav_only, RetryFails
  <2>3. disk' \in StateFile /\ retry' \in Run /\ (retry'.pc = "recent" => retry'.todo # {})
    <3>1. CASE retry.todo = {w}
      BY <2>2, <3>1, IdleTypes DEF RetryWrites, IdleRun
    <3>2. CASE retry.todo # {w}
      <4>1. retry.todo \ {w} # {} BY <2>1, <3>2
      <4> QED BY <1>1, <2>2, <3>2, <4>1 DEF RetryWrites, TypeOK, Run
    <3> QED BY <3>1, <3>2
  <2>4. cached' \in [Days -> 0 .. MaxWindow]
    BY <1>b DEF retry_nav_only, RetryFails, FetchNav, TypeOK
  <2> QED BY <1>b, <2>3, <2>4
          DEF retry_nav_only, RetryFails, TypeOK, RunsInv, environment, database
<1>c. ASSUME RetryDies PROVE TypeOK' /\ RunsInv'
  BY <1>c, IdleTypes, BoundsAssumption
     DEF RetryDies, Fault, TypeOK, RunsInv, IdleRun, environment, database
<1> QED BY <1>a, <1>b, <1>c

LEMMA WorldTypes ==
  ASSUME TypeOK, RunsInv, HourCloses \/ Publish \/ \E w \in Windows : SamplesArrive(w)
  PROVE  TypeOK' /\ RunsInv'
<1>1. MaxWindow \in Nat /\ MaxRevision \in Nat BY BoundsAssumption
<1>2. CASE HourCloses
  BY <1>1, <1>2 DEF HourCloses, TypeOK, RunsInv, database
<1>3. CASE Publish
  BY <1>1, <1>3 DEF Publish, TypeOK, RunsInv, database
<1>4. ASSUME NEW w \in Windows, SamplesArrive(w) PROVE TypeOK' /\ RunsInv'
  BY <1>1, <1>4 DEF SamplesArrive, TypeOK, RunsInv, database
<1> QED BY <1>2, <1>3, <1>4

LEMMA WorkerTypes ==
  ASSUME TypeOK, RunsInv, NEW k \in Workers, WorkerSteps(k)
  PROVE  TypeOK' /\ RunsInv'
<1>1. worker[k] \in Process BY DEF TypeOK
<1>2. worker[k].pc = "solve" \/ worker[k].pc = "lock"
        => /\ worker[k].window \in Windows /\ worker[k].key \in Revisions
           /\ RowOf(k) \in Windows \X Revisions /\ ledger[RowOf(k)] \in Row
  BY DEF RunsInv, RowOf, TypeOK
<1>a. ASSUME WorkerReads(k) PROVE TypeOK' /\ RunsInv'
  <2>1. CASE inputs[worker[k].window] \in Revisions
    <3>1. /\ worker' = [worker EXCEPT ![k].pc = "lock", ![k].key = inputs[worker[k].window]]
          /\ UNCHANGED lock
      BY <1>a, <2>1 DEF WorkerReads
    <3>2. worker' \in [Workers -> Process] BY <2>1, <3>1, ZenonT(40) DEF TypeOK, Process
    <3>3. RunsInv' BY <1>a, <2>1, <3>1 DEF WorkerReads, TypeOK, RunsInv, environment
    <3> QED BY <1>a, <3>1, <3>2, <3>3 DEF WorkerReads, TypeOK, environment
  <2>2. CASE inputs[worker[k].window] \notin Revisions
    <3>1. Exits(k, "WAITING_INPUT") BY <1>a, <2>2 DEF WorkerReads
    <3> QED BY <1>a, <3>1, ExitsTypes DEF WorkerReads, TypeOK, Outcomes, environment
  <2> QED BY <2>1, <2>2
<1>b. ASSUME WorkerRefused(k) \/ WorkerDeclines(k) PROVE TypeOK' /\ RunsInv'
  <2>1. PICK r \in Outcomes : Exits(k, r)
    BY <1>b DEF WorkerRefused, WorkerDeclines, Outcomes
  <2> QED BY <1>b, <2>1, ExitsTypes DEF WorkerRefused, WorkerDeclines, TypeOK, environment
<1>c. ASSUME WorkerClaims(k) PROVE TypeOK' /\ RunsInv'
  <2>1. [status |-> "RUNNING", attempts |-> OneMore(ledger[RowOf(k)].attempts)] \in Row
    BY <1>c, <1>2, BoundsAssumption DEF WorkerClaims, OneMore, Row
  <2>2. ledger' \in [Windows \X Revisions -> Row]
    BY <1>c, <1>2, <2>1 DEF WorkerClaims, TypeOK
  <2>3. worker' \in [Workers -> Process] BY <1>c, <1>1 DEF WorkerClaims, TypeOK, Process
  <2>4. RunsInv' BY <1>c, <1>2 DEF WorkerClaims, TypeOK, RunsInv
  <2> QED BY <1>c, <2>2, <2>3, <2>4 DEF WorkerClaims, TypeOK, environment
<1>d. ASSUME WorkerCommits(k) \/ WorkerFails(k) PROVE TypeOK' /\ RunsInv'
  <2>1. PICK r \in Outcomes, s \in {"COMPLETED", "FAILED"} :
          Exits(k, r) /\ ledger' = [ledger EXCEPT ![RowOf(k)].status = s]
    BY <1>d DEF WorkerCommits, WorkerFails, Outcomes
  <2>2. ledger' \in [Windows \X Revisions -> Row]
    <3>1. [ledger[RowOf(k)] EXCEPT !.status = s] \in Row
      BY <1>d, <1>2 DEF WorkerCommits, WorkerFails, Row
    <3> QED BY <1>d, <1>2, <2>1, <3>1 DEF WorkerCommits, WorkerFails, TypeOK
  <2>3. solutions' \in [Windows -> Revisions \cup {Unsolved}]
    BY <1>d, <1>2 DEF WorkerCommits, WorkerFails, TypeOK
  <2> QED BY <1>d, <2>1, <2>2, <2>3, ExitsTypes
          DEF WorkerCommits, WorkerFails, TypeOK, environment
<1>e. ASSUME WorkerKilled(k) PROVE TypeOK' /\ RunsInv'
  <2>1. faults' \in 0 .. MaxFaults
    BY <1>e, BoundsAssumption DEF WorkerKilled, Fault, TypeOK
  <2> QED BY <1>e, <2>1, ExitsTypes DEF WorkerKilled, TypeOK, Outcomes, environment
<1> QED BY <1>a, <1>b, <1>c, <1>d, <1>e DEF WorkerSteps

LEMMA InitTypes == Init => TypeOK /\ RunsInv
<1> SUFFICES ASSUME Init PROVE TypeOK /\ RunsInv
  OBVIOUS
<1>1. MaxWindow \in Nat /\ MaxRevision \in Nat /\ MaxFaults \in Nat
  BY BoundsAssumption
<1>2. newest \in 0 .. MaxWindow /\ published \in 0 .. MaxWindow /\ faults \in 0 .. MaxFaults
  BY <1>1 DEF Init
<1>3. inputs \in [Windows -> 0 .. MaxRevision] BY <1>1 DEF Init, NoSamples
<1>4. cached \in [Days -> 0 .. MaxWindow] BY <1>1 DEF Init
<1>5. NoRow \in Row BY DEF NoRow, Row
<1>6. ledger \in [Windows \X Revisions -> Row] BY <1>5 DEF Init
<1>7. solutions \in [Windows -> Revisions \cup {Unsolved}] BY DEF Init
<1>8. lock \in Workers \cup {NoWorker} /\ worker \in [Workers -> Process]
  BY IdleTypes DEF Init
<1>9. disk \in StateFile /\ hourly \in Run /\ retry \in Run /\ owed \in SUBSET Windows
  BY IdleTypes DEF Init
<1>10. RunsInv BY DEF Init, RunsInv, IdleRun, IdleProcess
<1> QED BY <1>2, <1>3, <1>4, <1>6, <1>7, <1>8, <1>9, <1>10 DEF TypeOK

LEMMA StepTypes == TypeOK /\ RunsInv /\ [Next]_qaVars => TypeOK' /\ RunsInv'
<1> SUFFICES ASSUME TypeOK, RunsInv, [Next]_qaVars PROVE TypeOK' /\ RunsInv'
  OBVIOUS
<1>1. CASE Next BY <1>1, WorldTypes, HourlyTypes, RetryTypes, WorkerTypes DEF Next
<1>2. CASE UNCHANGED qaVars BY <1>2 DEF qaVars, TypeOK, RunsInv
<1> QED BY <1>1, <1>2

LEMMA TypesAlways == Spec => [](TypeOK /\ RunsInv)
BY InitTypes, StepTypes, PTL DEF Spec

\* The state file, the runs, the ledger and the workers keep their types
\* (the state the runner and the worker persist and read back).
THEOREM TypeCorrect == Spec => []TypeOK
BY TypesAlways, PTL

-----------------------------------------------------------------------------
(* The ledger *)

\* Who solves holds the lock and a RUNNING row; a RUNNING row that nobody
\* solves was left by a fault; the epochs stored are those of the completed
\* rows.
LedgerInv ==
  /\ \A k \in Workers : worker[k].pc = "solve" =>
       lock = k /\ ledger[RowOf(k)].status = "RUNNING"
  /\ \A w \in Windows, r \in Revisions : ledger[<<w, r>>].status = "RUNNING" =>
       faults > 0 \/ \E k \in Workers : worker[k].pc = "solve" /\ RowOf(k) = <<w, r>>
  /\ CompletedIsStored

\* A step that leaves rows, epochs and whoever solves alone.
LedgerAlone ==
  /\ UNCHANGED <<ledger, solutions>>
  /\ faults' = faults \/ faults' = faults + 1
  /\ \A k \in Workers : worker[k].pc = "solve" \/ worker'[k].pc = "solve" =>
       worker'[k] = worker[k] /\ (lock = k => lock' = k)

LEMMA AloneKeepsLedger ==
  ASSUME TypeOK, LedgerInv, LedgerAlone
  PROVE  LedgerInv'
<1>1. faults \in Nat /\ faults' \in Nat /\ (faults > 0 => faults' > 0)
  BY BoundsAssumption DEF TypeOK, LedgerAlone
<1>2. ASSUME NEW k \in Workers, worker'[k].pc = "solve"
      PROVE  lock' = k /\ ledger'[RowOf(k)'].status = "RUNNING"
  BY <1>2 DEF LedgerInv, LedgerAlone, RowOf
<1>3. ASSUME NEW w \in Windows, NEW r \in Revisions, ledger'[<<w, r>>].status = "RUNNING"
      PROVE  faults' > 0 \/ \E k \in Workers : worker'[k].pc = "solve" /\ RowOf(k)' = <<w, r>>
  BY <1>1, <1>3 DEF LedgerInv, LedgerAlone, RowOf
<1>4. CompletedIsStored' BY DEF LedgerInv, LedgerAlone, CompletedIsStored
<1> QED BY <1>2, <1>3, <1>4 DEF LedgerInv

\* The runs start, collect and abandon workers that are not solving.
LEMMA RunsLeaveLedger ==
  ASSUME TypeOK, RunsInv, Next,
         ~ \E k \in Workers : WorkerSteps(k)
  PROVE  LedgerAlone
<1>a. ASSUME NEW w, NEW b, HourlyLaunches(w, b), UNCHANGED <<database, faults>>
      PROVE  LedgerAlone
  BY <1>a DEF HourlyLaunches, LedgerAlone, TypeOK, IdleProcess, database
<1>b. ASSUME UNCHANGED <<database, worker>>, faults' = faults \/ faults' = faults + 1
      PROVE  LedgerAlone
  BY <1>b DEF LedgerAlone, database
<1>c. CASE HourlyTakesReady \/ HourlyTakesRecent
  BY <1>a, <1>b, <1>c DEF HourlyTakesReady, HourlyTakesRecent
<1>d. CASE HourlyCollects
  <2>1. hourly.child \in Workers /\ worker[hourly.child].pc = "done"
    BY <1>d DEF HourlyCollects, RunsInv
  <2> QED BY <1>d, <2>1 DEF HourlyCollects, LedgerAlone, TypeOK, IdleProcess, database
<1>e. CASE HourlyDies
  <2>1. \A k \in Workers : worker'[k] # worker[k] =>
          worker[k].pc = "done" /\ worker'[k].pc = "idle"
    BY <1>e DEF HourlyDies, Abandon, IdleProcess
  <2> QED BY <1>e, <2>1 DEF HourlyDies, Fault, LedgerAlone, database
<1>f. CASE \/ HourlyStarts \/ HourlyDiscovers \/ HourlyEnds
           \/ RetryStarts \/ retry_nav_only \/ RetryFails
  BY <1>b, <1>f DEF HourlyStarts, HourlyDiscovers, HourlyEnds, RetryStarts, retry_nav_only,
                    RetryFails
<1>g. CASE HourlyGivesUp \/ RetryDies
  BY <1>b, <1>g DEF HourlyGivesUp, RetryDies, Fault
<1>h. CASE HourCloses \/ Publish
  BY <1>b, <1>h DEF HourCloses, Publish
<1>i. CASE \E w \in Windows : SamplesArrive(w)
  BY <1>b, <1>i DEF SamplesArrive
<1> QED BY <1>c, <1>d, <1>e, <1>f, <1>g, <1>h, <1>i DEF Next

\* One row and one process change at a time: what a worker under the lock
\* does to the ledger.
LEMMA WorkersKeepLedger ==
  ASSUME TypeOK, RunsInv, LedgerInv, NEW k \in Workers, WorkerSteps(k)
  PROVE  LedgerInv'
<1>1. worker[k] \in Process BY DEF TypeOK
<1>2. worker[k].pc = "solve" \/ worker[k].pc = "lock"
        => worker[k].window \in Windows /\ worker[k].key \in Revisions
  BY DEF RunsInv
<1>3. ASSUME NEW r, Exits(k, r)
      PROVE  /\ worker'[k].pc # "solve" /\ (lock # k => lock' = lock)
             /\ \A j \in Workers \ {k} : worker'[j] = worker[j]
  BY <1>3 DEF TypeOK, Exits, IdleProcess, Process
<1>4. faults \in Nat BY BoundsAssumption DEF TypeOK
<1>5. \A j \in Workers \ {k} : worker[k].pc = "solve" => worker[j].pc # "solve"
  BY DEF LedgerInv
<1>6. Unsolved \notin Revisions BY DEF Unsolved, Revisions
<1>a. CASE WorkerReads(k)
  <2>1. CASE inputs[worker[k].window] \in Revisions
    <3>1. /\ worker' = [worker EXCEPT ![k].pc = "lock", ![k].key = inputs[worker[k].window]]
          /\ UNCHANGED lock /\ worker[k].pc = "read"
      BY <1>a, <2>1 DEF WorkerReads
    <3>2. worker'[k].pc = "lock" /\ \A j \in Workers \ {k} : worker'[j] = worker[j]
      BY <3>1, <1>1 DEF TypeOK, Process
    <3>3. LedgerAlone BY <1>a, <3>1, <3>2 DEF WorkerReads, LedgerAlone
    <3> QED BY <3>3, AloneKeepsLedger
  <2>2. CASE inputs[worker[k].window] \notin Revisions
    <3>1. Exits(k, "WAITING_INPUT") BY <1>a, <2>2 DEF WorkerReads
    <3>2. LedgerAlone BY <1>a, <1>3, <3>1 DEF WorkerReads, LedgerAlone
    <3> QED BY <3>2, AloneKeepsLedger
  <2> QED BY <2>1, <2>2
<1>b. CASE WorkerRefused(k) \/ WorkerDeclines(k)
  <2>1. PICK r : Exits(k, r) BY <1>b DEF WorkerRefused, WorkerDeclines
  <2>2. LedgerAlone
    BY <1>b, <1>3, <2>1 DEF WorkerRefused, WorkerDeclines, LedgerAlone
  <2> QED BY <2>2, AloneKeepsLedger
<1>c. CASE WorkerClaims(k)
  <2>1. \A j \in Workers : worker[j].pc # "solve"
    BY <1>c, WorkerAssumption DEF WorkerClaims, LedgerInv
  <2>2. worker'[k].pc = "solve" /\ RowOf(k)' = RowOf(k)
          /\ \A j \in Workers \ {k} : worker'[j] = worker[j]
    BY <1>c DEF WorkerClaims, TypeOK, Process, RowOf
  <2>3. RowOf(k) \in Windows \X Revisions /\ RowOf(k) = <<worker[k].window, worker[k].key>>
    BY <1>c, <1>2 DEF WorkerClaims, RowOf
  <2>4. ledger'[RowOf(k)].status = "RUNNING"
          /\ \A w \in Windows, r \in Revisions :
               <<w, r>> # RowOf(k) => ledger'[<<w, r>>] = ledger[<<w, r>>]
    BY <1>c, <2>3 DEF WorkerClaims, TypeOK
  <2>5. CompletedIsStored'
    <3>1. ASSUME NEW w \in Windows, NEW r \in Revisions
          PROVE  ledger'[<<w, r>>].status = "COMPLETED" <=> solutions'[w] = r
      <4>1. solutions' = solutions /\ ledger[RowOf(k)].status # "COMPLETED"
        BY <1>c DEF WorkerClaims
      <4>2. ledger[<<w, r>>].status = "COMPLETED" <=> solutions[w] = r
        BY DEF LedgerInv, CompletedIsStored
      <4>3. CASE <<w, r>> = RowOf(k) BY <2>4, <4>1, <4>2, <4>3
      <4>4. CASE <<w, r>> # RowOf(k) BY <2>4, <4>1, <4>2, <4>4
      <4> QED BY <4>3, <4>4
    <3> QED BY <3>1 DEF CompletedIsStored
  <2>6. lock' = k /\ faults' = faults BY <1>c DEF WorkerClaims
  <2>7. ASSUME NEW j \in Workers, worker'[j].pc = "solve"
        PROVE  lock' = j /\ ledger'[RowOf(j)'].status = "RUNNING"
    <3>1. j = k BY <2>1, <2>2, <2>7
    <3> QED BY <3>1, <2>2, <2>4, <2>6
  <2>8. ASSUME NEW w \in Windows, NEW r \in Revisions, ledger'[<<w, r>>].status = "RUNNING"
        PROVE  faults' > 0 \/ \E j \in Workers : worker'[j].pc = "solve" /\ RowOf(j)' = <<w, r>>
    BY <2>1, <2>2, <2>4, <2>6, <2>8 DEF LedgerInv
  <2> QED BY <2>5, <2>7, <2>8 DEF LedgerInv
<1>d. CASE WorkerCommits(k) \/ WorkerFails(k)
  <2>1. PICK s \in {"COMPLETED", "FAILED"} :
          /\ ledger' = [ledger EXCEPT ![RowOf(k)].status = s]
          /\ s = "COMPLETED" =>
               /\ solutions[worker[k].window] \in {Unsolved, worker[k].key}
               /\ solutions' = [solutions EXCEPT ![worker[k].window] = worker[k].key]
          /\ s = "FAILED" => solutions' = solutions
    BY <1>d DEF WorkerCommits, WorkerFails
  <2>2. worker[k].pc = "solve" /\ (\E r : Exits(k, r)) /\ faults' = faults
    BY <1>d DEF WorkerCommits, WorkerFails
  <2>3. RowOf(k) \in Windows \X Revisions /\ RowOf(k) = <<worker[k].window, worker[k].key>>
    BY <1>2, <2>2 DEF RowOf
  <2>4. ledger'[RowOf(k)].status = s
          /\ \A w \in Windows, r \in Revisions :
               <<w, r>> # RowOf(k) => ledger'[<<w, r>>] = ledger[<<w, r>>]
    BY <2>1, <2>3 DEF TypeOK, Row
  <2>5. \A j \in Workers : worker'[j].pc # "solve"
    BY <1>3, <1>5, <2>2
  <2>6. ledger[RowOf(k)].status = "RUNNING" BY <2>2 DEF LedgerInv
  <2>7. CompletedIsStored'
    <3>1. ASSUME NEW w \in Windows, NEW r \in Revisions
          PROVE  ledger'[<<w, r>>].status = "COMPLETED" <=> solutions'[w] = r
      <4>1. ledger[<<w, r>>].status = "COMPLETED" <=> solutions[w] = r
        BY DEF LedgerInv, CompletedIsStored
      <4>2. s = "COMPLETED" => solutions'[worker[k].window] = worker[k].key
              /\ (w # worker[k].window => solutions'[w] = solutions[w])
        BY <2>1, <2>3 DEF TypeOK
      <4>3. CASE <<w, r>> = RowOf(k)
        <5>1. w = worker[k].window /\ r = worker[k].key BY <2>3, <4>3
        <5>2. CASE s = "COMPLETED" BY <2>4, <4>2, <4>3, <5>1, <5>2
        <5>3. CASE s = "FAILED" BY <2>1, <2>4, <2>6, <4>1, <4>3, <5>3
        <5> QED BY <5>2, <5>3
      <4>4. CASE <<w, r>> # RowOf(k)
        <5>1. ledger'[<<w, r>>] = ledger[<<w, r>>] BY <2>4, <4>4
        <5>2. CASE s = "COMPLETED" /\ w = worker[k].window
          <6>1. r # worker[k].key BY <2>3, <4>4, <5>2
          <6> QED BY <1>6, <2>1, <4>1, <4>2, <5>1, <5>2, <6>1
        <5>3. CASE s = "FAILED" \/ w # worker[k].window
          BY <2>1, <4>1, <4>2, <5>1, <5>3
        <5> QED BY <5>2, <5>3
      <4> QED BY <4>3, <4>4
    <3> QED BY <3>1 DEF CompletedIsStored
  <2>8. ASSUME NEW w \in Windows, NEW r \in Revisions, ledger'[<<w, r>>].status = "RUNNING"
        PROVE  faults' > 0
    <3>1. <<w, r>> # RowOf(k) BY <2>4, <2>8
    <3>2. ledger[<<w, r>>].status = "RUNNING" BY <2>4, <2>8, <3>1
    <3>3. \A j \in Workers : worker[j].pc = "solve" => j = k BY <1>5, <2>2
    <3> QED BY <2>2, <3>1, <3>2, <3>3 DEF LedgerInv
  <2> QED BY <2>5, <2>7, <2>8 DEF LedgerInv
<1>e. CASE WorkerKilled(k)
  <2>1. faults' > 0 BY <1>e, <1>4 DEF WorkerKilled, Fault
  <2>2. Exits(k, "FAILED") /\ UNCHANGED <<ledger, solutions>> BY <1>e DEF WorkerKilled
  <2>3. ASSUME NEW j \in Workers, worker'[j].pc = "solve"
        PROVE  lock' = j /\ ledger'[RowOf(j)'].status = "RUNNING"
    BY <1>3, <2>2, <2>3 DEF LedgerInv, RowOf
  <2>4. CompletedIsStored' BY <2>2, ZenonT(40) DEF LedgerInv, CompletedIsStored
  <2> QED BY <2>1, <2>3, <2>4 DEF LedgerInv
<1> QED BY <1>a, <1>b, <1>c, <1>d, <1>e DEF WorkerSteps

LEMMA LedgerHolds == Spec => [](TypeOK /\ RunsInv /\ LedgerInv)
<1>1. Init => LedgerInv
  BY DEF Init, LedgerInv, CompletedIsStored, NoRow, IdleProcess, Unsolved, Revisions
<1>2. TypeOK /\ RunsInv /\ LedgerInv /\ [Next]_qaVars => LedgerInv'
  <2> SUFFICES ASSUME TypeOK, RunsInv, LedgerInv, [Next]_qaVars PROVE LedgerInv'
    OBVIOUS
  <2>1. CASE \E k \in Workers : WorkerSteps(k) BY <2>1, WorkersKeepLedger
  <2>2. CASE Next /\ ~ \E k \in Workers : WorkerSteps(k)
    BY <2>2, RunsLeaveLedger, AloneKeepsLedger
  <2>3. CASE UNCHANGED qaVars
    BY <2>3 DEF qaVars, LedgerInv, CompletedIsStored, RowOf
  <2> QED BY <2>1, <2>2, <2>3
<1> QED BY <1>1, <1>2, TypesAlways, PTL DEF Spec

\* The ledger says COMPLETED of exactly the revision whose epochs are stored
\* (the one transaction of ppk_qa_worker.py:350, under the session lock).
THEOREM StoredAlways == Spec => []CompletedIsStored
<1>1. LedgerInv => CompletedIsStored BY DEF LedgerInv
<1> QED BY <1>1, LedgerHolds, PTL

\* A row has one solving worker at most, and it is RUNNING meanwhile; one
\* that is RUNNING without a worker was left by a kill (ppk_qa_worker.py:136).
THEOREM RunningAlways == Spec => []RunningHasOneWorker
<1>1. LedgerInv => RunningHasOneWorker
  <2> SUFFICES ASSUME LedgerInv, NEW w \in Windows, NEW r \in Revisions
               PROVE  LET solving == {k \in Workers : worker[k].pc = "solve" /\ RowOf(k) = <<w, r>>} IN
                        /\ Cardinality(solving) <= 1
                        /\ solving # {} => ledger[<<w, r>>].status = "RUNNING"
                        /\ ledger[<<w, r>>].status = "RUNNING" /\ solving = {} => faults > 0
    BY DEF RunningHasOneWorker
  <2> DEFINE solving == {k \in Workers : worker[k].pc = "solve" /\ RowOf(k) = <<w, r>>}
  <2>1. solving = {} \/ solving = {lock}
    BY DEF LedgerInv
  <2>2. Cardinality(solving) <= 1
    <3> HIDE DEF solving
    <3> QED BY <2>1, FS_EmptySet, FS_Singleton
  <2>3. solving # {} => ledger[<<w, r>>].status = "RUNNING" BY DEF LedgerInv
  <2>4. ledger[<<w, r>>].status = "RUNNING" /\ solving = {} => faults > 0 BY DEF LedgerInv
  <2> QED BY <2>2, <2>3, <2>4
<1> QED BY <1>1, LedgerHolds, PTL

\* Once a window has epochs, they and their row stay as they are ("Never
\* overwrite existing QA epochs", ppk_qa_worker.py:351).
THEOREM StoredStays == Spec => StoredIsFinal
<1> DEFINE Final == \A w \in Windows : solutions[w] # Unsolved =>
                      /\ solutions'[w] = solutions[w]
                      /\ ledger'[<<w, solutions[w]>>] = ledger[<<w, solutions[w]>>]
<1>1. TypeOK /\ RunsInv /\ LedgerInv /\ [Next]_qaVars => [Final]_qaVars
  <2> SUFFICES ASSUME TypeOK, RunsInv, LedgerInv, Next PROVE Final
    OBVIOUS
  <2>1. CASE ~ \E k \in Workers : WorkerSteps(k)
    BY <2>1, RunsLeaveLedger DEF LedgerAlone
  <2>2. ASSUME NEW k \in Workers, WorkerSteps(k) PROVE Final
    <3>1. CASE UNCHANGED <<ledger, solutions>> BY <3>1
    <3>2. CASE WorkerClaims(k) \/ WorkerCommits(k) \/ WorkerFails(k)
      <4>1. worker[k].window \in Windows /\ worker[k].key \in Revisions
        BY <3>2 DEF WorkerClaims, WorkerCommits, WorkerFails, RunsInv
      <4>2. RowOf(k) \in Windows \X Revisions /\ RowOf(k) = <<worker[k].window, worker[k].key>>
        BY <4>1 DEF RowOf
      <4>3. ledger[RowOf(k)].status # "COMPLETED"
        BY <3>2 DEF WorkerClaims, WorkerCommits, WorkerFails, LedgerInv
      <4>4. solutions[worker[k].window] # worker[k].key
        BY <4>1, <4>2, <4>3 DEF LedgerInv, CompletedIsStored
      <4>5. ASSUME NEW w \in Windows, solutions[w] # Unsolved
            PROVE  <<w, solutions[w]>> # RowOf(k) /\ <<w, solutions[w]>> \in Windows \X Revisions
        BY <4>2, <4>4, <4>5 DEF TypeOK
      <4>6. ASSUME NEW w \in Windows, solutions[w] # Unsolved
            PROVE  ledger'[<<w, solutions[w]>>] = ledger[<<w, solutions[w]>>]
        <5>1. \A p \in Windows \X Revisions : p # RowOf(k) => ledger'[p] = ledger[p]
          BY <3>2, <4>2 DEF WorkerClaims, WorkerCommits, WorkerFails, TypeOK
        <5> QED BY <4>5, <4>6, <5>1
      <4>7. ASSUME NEW w \in Windows, solutions[w] # Unsolved
            PROVE  solutions'[w] = solutions[w]
        <5>1. CASE WorkerCommits(k)
          <6>1. w # worker[k].window BY <4>4, <4>7, <5>1 DEF WorkerCommits
          <6> QED BY <4>1, <5>1, <6>1 DEF WorkerCommits, TypeOK
        <5>2. CASE WorkerClaims(k) \/ WorkerFails(k)
          BY <5>2 DEF WorkerClaims, WorkerFails
        <5> QED BY <3>2, <5>1, <5>2
      <4> QED BY <4>6, <4>7
    <3> QED BY <2>2, <3>1, <3>2
            DEF WorkerSteps, WorkerReads, WorkerRefused, WorkerDeclines, WorkerKilled
  <2> QED BY <2>1, <2>2
<1>2. Spec => [][Final]_qaVars BY <1>1, LedgerHolds, PTL DEF Spec
<1> QED BY <1>2 DEF StoredIsFinal

-----------------------------------------------------------------------------
(* The navigation queue *)

\* Recording the end of a window never makes one ready.
LEMMA RecordsMakeNoneReady ==
  ASSUME NEW state \in StateFile, NEW w \in Windows, NEW outcome \in Outcomes, NEW b \in BOOLEAN,
         NEW new \in {record_cooldown(state, w, outcome), record_failure(state, w, b),
                      record_result(state, w, outcome, b)},
         NEW v \in Windows
  PROVE  new.nav_pending[v] = "ready" => state.nav_pending[v] = "ready"
<1> DEFINE Fine(new1) == new1.nav_pending[v] = "ready" => state.nav_pending[v] = "ready"
<1>1. ASSUME NEW s \in StateFile, s.nav_pending = state.nav_pending
      PROVE  Fine(record_cooldown(s, w, outcome))
  BY <1>1 DEF record_cooldown, StateFile, Outcomes
<1>2. Fine(record_failure(state, w, b)) BY DEF record_failure, StateFile
<1>3. [state EXCEPT !.ready_retry_after = IF b THEN @ \ {w} ELSE @] \in StateFile
        /\ [state EXCEPT !.ready_retry_after = IF b THEN @ \ {w} ELSE @].nav_pending
             = state.nav_pending
  BY DEF StateFile
<1>4. Fine(record_result(state, w, outcome, b))
  BY <1>1, <1>2, <1>3 DEF record_result
<1> QED BY <1>1, <1>2, <1>4

\* A fetch fills a day that had no file: what was covered stays covered.
LEMMA FetchCovers ==
  ASSUME TypeOK, NEW w \in Windows, FetchNav(w)
  PROVE  /\ \A v \in Windows : Covered(v) => Covered(v)'
         /\ NavReady(w) => Covered(w)'
<1>1. Windows \subseteq Nat \ {0} /\ MaxWindow \in Nat BY BoundsAssumption DEF Windows
<1>2. cached \in [Days -> 0 .. MaxWindow] /\ published \in 0 .. MaxWindow BY DEF TypeOK
<1>3. CASE cached[Day(w)] = 0 /\ w <= published
  <2>1. cached' = [cached EXCEPT ![Day(w)] = published] BY <1>3 DEF FetchNav
  <2>2. \A v \in Windows : Day(v) \in Days BY DayOfWindow
  <2>3. cached'[Day(w)] = published BY <1>2, <2>1, <2>2
  <2>4. ASSUME NEW v \in Windows, v <= cached[Day(v)] PROVE v <= cached'[Day(v)]
    <3>1. CASE Day(v) = Day(w) BY <1>1, <1>3, <2>4, <3>1
    <3>2. CASE Day(v) # Day(w) BY <1>2, <2>1, <2>2, <2>4, <3>2
    <3> QED BY <3>1, <3>2
  <2>5. Day(w)' = Day(w) /\ \A v \in Windows : Day(v)' = Day(v) BY DEF Day
  <2> QED BY <1>3, <2>3, <2>4, <2>5 DEF Covered, Day
<1>4. CASE ~(cached[Day(w)] = 0 /\ w <= published)
  <2>1. cached' = cached BY <1>4 DEF FetchNav
  <2> QED BY <1>4, <2>1 DEF Covered, NavReady, Day
<1> QED BY <1>3, <1>4

ReadyCovered(state) == \A w \in Windows : state.nav_pending[w] = "ready" => Covered(w)

LEMMA ReadySteps ==
  ASSUME TypeOK, RunsInv, ReadyMeansNavigation, [Next]_qaVars
  PROVE  ReadyMeansNavigation'
<1>1. ReadyCovered(disk) /\ ReadyCovered(hourly.state) /\ ReadyCovered(retry.state)
  BY DEF ReadyMeansNavigation, ReadyCovered
<1>2. ReadyCovered(disk)' /\ ReadyCovered(hourly.state)' /\ ReadyCovered(retry.state)'
        => ReadyMeansNavigation'
  BY DEF ReadyMeansNavigation, ReadyCovered
<1>3. /\ disk \in StateFile /\ hourly.state \in StateFile /\ retry.state \in StateFile
      /\ hourly.nav_ready \in BOOLEAN /\ hourly \in Run /\ retry \in Run
      /\ hourly.todo \in SUBSET Windows /\ retry.todo \in SUBSET Windows
  BY DEF TypeOK, Run
<1>4. \A v \in Windows : EmptyState.nav_pending[v] # "ready" /\ IdleRun.state = EmptyState
  BY DEF EmptyState, IdleRun
<1>5. ASSUME UNCHANGED cached, disk' = disk,
             hourly'.state \in {hourly.state, disk, EmptyState},
             retry'.state \in {retry.state, disk, EmptyState}
      PROVE  ReadyMeansNavigation'
  BY <1>1, <1>2, <1>4, <1>5 DEF ReadyCovered, Covered
<1>6. ASSUME NEW w \in Windows, NEW outcome \in Outcomes, NEW b \in BOOLEAN,
             NEW new \in {record_cooldown(hourly.state, w, outcome),
                          record_failure(hourly.state, w, b),
                          record_result(hourly.state, w, outcome, b)},
             HourlyWrites(w, new), UNCHANGED <<cached, retry>>
      PROVE  ReadyMeansNavigation'
  <2>1. ReadyCovered(new) BY <1>1, <1>3, RecordsMakeNoneReady DEF ReadyCovered
  <2>2. disk' = new /\ hourly'.state = new BY <1>3, <1>6 DEF HourlyWrites, Run
  <2> QED BY <1>1, <1>2, <1>6, <2>1, <2>2 DEF ReadyCovered, Covered
<1>7. ASSUME NEW w \in Windows, NEW b \in BOOLEAN, HourlyLaunches(w, b), UNCHANGED retry,
             FetchNav(w) \/ UNCHANGED cached
      PROVE  ReadyMeansNavigation'
  <2>1. disk' = disk /\ hourly'.state = hourly.state BY <1>3, <1>7 DEF HourlyLaunches, Run
  <2>2. \A v \in Windows : Covered(v) => Covered(v)'
    BY <1>7, FetchCovers DEF Covered, Day
  <2> QED BY <1>1, <1>2, <1>7, <2>1, <2>2 DEF ReadyCovered
<1>a. CASE HourlyTakesReady
  <2>1. First(hourly.todo) \in Windows BY <1>a, <1>3, FirstIsThere DEF HourlyTakesReady
  <2> QED BY <1>a, <1>6, <1>7, <2>1 DEF HourlyTakesReady, Outcomes
<1>b. CASE HourlyTakesRecent
  <2>1. First(hourly.todo) \in Windows BY <1>b, <1>3, FirstIsThere DEF HourlyTakesRecent
  <2> QED BY <1>b, <1>6, <1>7, <2>1 DEF HourlyTakesRecent, Outcomes
<1>c. CASE HourlyCollects
  <2>1. hourly.job \in Windows /\ worker[hourly.child].result \in Outcomes
    BY <1>c DEF HourlyCollects, RunsInv, TypeOK, Process
  <2> QED BY <1>c, <1>3, <1>6, <2>1 DEF HourlyCollects
<1>d. CASE HourlyGivesUp
  <2>1. hourly.job \in Windows BY <1>d DEF HourlyGivesUp, RunsInv
  <2> QED BY <1>d, <1>3, <1>6, <2>1 DEF HourlyGivesUp, Outcomes
<1>e. CASE retry_nav_only \/ RetryFails
  <2>1. PICK w \in Windows : w = First(retry.todo)
    BY <1>e, <1>3, FirstIsThere DEF retry_nav_only, RetryFails, RunsInv
  <2>2. PICK new \in StateFile :
          /\ RetryWrites(w, new)
          /\ \A v \in Windows : new.nav_pending[v] = "ready" => Covered(v)'
          /\ \A v \in Windows : Covered(v) => Covered(v)'
    <3>1. CASE /\ NavReady(w) /\ FetchNav(w)
               /\ RetryWrites(w, [retry.state EXCEPT !.nav_pending[w] = "ready",
                                                     !.cooldowns = @ \cup {w}])
      <4> DEFINE new == [retry.state EXCEPT !.nav_pending[w] = "ready", !.cooldowns = @ \cup {w}]
      <4>1. Covered(w)' /\ \A v \in Windows : Covered(v) => Covered(v)'
        BY <2>1, <3>1, FetchCovers
      <4>2. new.nav_pending = [retry.state.nav_pending EXCEPT ![w] = "ready"]
        BY <1>3 DEF StateFile
      <4>3. retry.state.cooldowns \cup {w} \in SUBSET Windows
              /\ [retry.state.nav_pending EXCEPT ![w] = "ready"] \in [Windows -> Pending]
        BY <1>3, <2>1 DEF StateFile, Pending
      <4>4. new \in StateFile BY <1>3, <4>3 DEF StateFile
      <4>5. ASSUME NEW v \in Windows, new.nav_pending[v] = "ready" PROVE Covered(v)'
        <5>1. CASE v = w BY <4>1, <5>1
        <5>2. CASE v # w
          <6>1. retry.state.nav_pending[v] = "ready"
            BY <1>3, <2>1, <4>2, <4>5, <5>2 DEF StateFile
          <6> QED BY <1>1, <4>1, <6>1 DEF ReadyCovered
        <5> QED BY <5>1, <5>2
      <4> QED BY <3>1, <4>1, <4>4, <4>5
    <3>2. CASE /\ RetryWrites(w, record_cooldown(retry.state, w, "WAITING_NAV"))
               /\ UNCHANGED cached
      <4>1. record_cooldown(retry.state, w, "WAITING_NAV") \in StateFile
        BY <1>3, <2>1, StateTypes DEF Outcomes
      <4>2. \A v \in Windows : record_cooldown(retry.state, w, "WAITING_NAV").nav_pending[v] = "ready"
                                 => retry.state.nav_pending[v] = "ready"
        BY <1>3, <2>1, RecordsMakeNoneReady DEF Outcomes
      <4>3. \A v \in Windows : Covered(v)' <=> Covered(v) BY <3>2 DEF Covered, Day
      <4> QED BY <1>1, <3>2, <4>1, <4>2, <4>3 DEF ReadyCovered
    <3>3. CASE /\ RetryWrites(w, [retry.state EXCEPT !.nav_pending[w] = "waiting"])
               /\ UNCHANGED cached
      <4> DEFINE new == [retry.state EXCEPT !.nav_pending[w] = "waiting"]
      <4>1. new \in StateFile BY <1>3, <2>1 DEF StateFile, Pending
      <4>2. \A v \in Windows : new.nav_pending[v] = "ready" => retry.state.nav_pending[v] = "ready"
        BY <1>3, <2>1 DEF StateFile
      <4>3. \A v \in Windows : Covered(v)' <=> Covered(v) BY <3>3 DEF Covered, Day
      <4> QED BY <1>1, <3>3, <4>1, <4>2, <4>3 DEF ReadyCovered
    <3> QED BY <1>e, <2>1, <3>1, <3>2, <3>3 DEF retry_nav_only, RetryFails
  <2>3. disk' = new /\ retry'.state \in {new, EmptyState} /\ hourly' = hourly
    BY <1>e, <1>3, <1>4, <2>2 DEF RetryWrites, retry_nav_only, RetryFails, Run
  <2> QED BY <1>1, <1>2, <1>4, <2>2, <2>3 DEF ReadyCovered
<1>f. CASE HourlyStarts \/ HourlyDiscovers \/ HourlyEnds \/ HourlyDies
  <2>1. hourly'.state \in {hourly.state, disk, EmptyState}
    <3>1. CASE HourlyStarts BY <3>1 DEF HourlyStarts, IdleRun
    <3>2. CASE HourlyDiscovers
      <4>1. PICK todo : hourly' = [hourly EXCEPT !.pc = "recent", !.todo = todo]
        BY <3>2 DEF HourlyDiscovers
      <4> QED BY <4>1, <1>3 DEF Run
    <3>3. CASE HourlyEnds \/ HourlyDies BY <3>3 DEF HourlyEnds, HourlyDies, IdleRun
    <3> QED BY <1>f, <3>1, <3>2, <3>3
  <2> QED BY <1>f, <1>5, <2>1 DEF HourlyStarts, HourlyDiscovers, HourlyEnds, HourlyDies
<1>g. CASE RetryStarts \/ RetryDies
  <2>1. retry'.state \in {retry.state, disk, EmptyState}
    <3>1. CASE RetryStarts
      <4>1. PICK todo : retry' = [IdleRun EXCEPT !.pc = "recent", !.state = disk, !.todo = todo]
        BY <3>1 DEF RetryStarts
      <4> QED BY <4>1 DEF IdleRun
    <3>2. CASE RetryDies BY <3>2 DEF RetryDies, IdleRun
    <3> QED BY <1>g, <3>1, <3>2
  <2> QED BY <1>g, <1>5, <2>1 DEF RetryStarts, RetryDies
<1>h. ASSUME UNCHANGED <<cached, disk, hourly, retry>> PROVE ReadyMeansNavigation'
  BY <1>5, <1>h
<1>i. CASE HourCloses \/ Publish \/ \E w \in Windows : SamplesArrive(w)
  BY <1>h, <1>i DEF HourCloses, Publish, SamplesArrive
<1>j. CASE \E k \in Workers : WorkerSteps(k)
  BY <1>h, <1>j DEF WorkerSteps, WorkerReads, WorkerRefused, WorkerDeclines, WorkerClaims,
                    WorkerCommits, WorkerFails, WorkerKilled
<1>k. CASE UNCHANGED qaVars BY <1>h, <1>k DEF qaVars
<1> QED BY <1>a, <1>b, <1>c, <1>d, <1>e, <1>f, <1>g, <1>i, <1>j, <1>k DEF Next

\* Whatever the two runs write over one another, a window is ready only when
\* its navigation is in the cache (magris-ppk-qa-runner-b19:443).
THEOREM ReadyAlways == Spec => []ReadyMeansNavigation
<1>1. Init => ReadyMeansNavigation
  BY DEF Init, ReadyMeansNavigation, IdleRun, EmptyState
<1>2. TypeOK /\ RunsInv /\ ReadyMeansNavigation /\ [Next]_qaVars => ReadyMeansNavigation'
  BY ReadySteps
<1> QED BY <1>1, <1>2, TypesAlways, PTL DEF Spec

-----------------------------------------------------------------------------
(* No window the hourly run queued is lost by the hourly run *)

Queued(state, w) == state.nav_pending[w] # "none"

\* Of the windows the hourly run owes: what is queued on disk is queued in
\* its copy, and what the retry's copy still queues is queued on disk.  The
\* retry only has windows to do that its copy queues.
QueueInv ==
  /\ hourly.pc # "idle" => \A v \in owed : Queued(disk, v) => Queued(hourly.state, v)
  /\ retry.pc # "idle" => \A v \in owed : Queued(retry.state, v) => Queued(disk, v)
  /\ \A v \in retry.todo : Queued(retry.state, v)

\* What the two runs may do to the queue in one step.
QueueSafe(w) ==
  disk.nav_pending[w] # "none" /\ disk'.nav_pending[w] = "none" =>
    \/ /\ hourly.job = w /\ hourly'.job = 0
       /\ worker[hourly.child].result \in {"PROCESSED_OR_IDEMPOTENT", "WAITING_INPUT"}
    \/ /\ hourly' = hourly /\ retry.pc # "idle"
       /\ retry.state.nav_pending[w] = "none"
QueueStep == \A v \in owed : QueueSafe(v)

\* Recording the end of a window touches its own entry only, and takes it
\* out only if the window was processed or lacks its input.
LEMMA RecordsOneWindow ==
  ASSUME NEW state \in StateFile, NEW w \in Windows, NEW outcome \in Outcomes, NEW b \in BOOLEAN
  PROVE  /\ record_failure(state, w, b).nav_pending = state.nav_pending
         /\ \A v \in Windows \ {w} :
              /\ record_cooldown(state, w, outcome).nav_pending[v] = state.nav_pending[v]
              /\ record_result(state, w, outcome, b).nav_pending[v] = state.nav_pending[v]
         /\ Queued(record_cooldown(state, w, "WAITING_NAV"), w)
         /\ Queued(state, w) /\ ~Queued(record_result(state, w, outcome, b), w) =>
              outcome \in {"PROCESSED_OR_IDEMPOTENT", "WAITING_INPUT"}
<1>1. record_failure(state, w, b).nav_pending = state.nav_pending
  BY DEF record_failure, StateFile
<1>2. ASSUME NEW s \in StateFile, NEW o \in Outcomes
      PROVE  record_cooldown(s, w, o).nav_pending =
               [s.nav_pending EXCEPT ![w] = IF o = "WAITING_NAV" THEN "waiting" ELSE "none"]
  BY DEF record_cooldown, StateFile
<1> DEFINE s == [state EXCEPT !.ready_retry_after = IF b THEN @ \ {w} ELSE @]
<1>3. s \in StateFile /\ s.nav_pending = state.nav_pending
  BY DEF StateFile
<1>4. state.nav_pending \in [Windows -> Pending] BY DEF StateFile
<1>5. "WAITING_NAV" \in Outcomes BY DEF Outcomes
<1>6. record_result(state, w, outcome, b).nav_pending =
        IF outcome = "FAILED" THEN state.nav_pending
        ELSE [state.nav_pending EXCEPT ![w] = IF outcome = "WAITING_NAV" THEN "waiting"
                                                                         ELSE "none"]
  <2>1. record_result(state, w, outcome, b) =
          IF outcome = "FAILED" THEN record_failure(state, w, b)
          ELSE record_cooldown(s, w, outcome)
    BY DEF record_result
  <2>2. record_cooldown(s, w, outcome).nav_pending =
          [state.nav_pending EXCEPT ![w] = IF outcome = "WAITING_NAV" THEN "waiting"
                                                                      ELSE "none"]
    <3> HIDE DEF s
    <3> QED BY <1>2, <1>3
  <2> HIDE DEF s
  <2> QED BY <1>1, <2>1, <2>2
<1>7. Queued(record_cooldown(state, w, "WAITING_NAV"), w)
  BY <1>2, <1>4, <1>5 DEF Queued
<1>8. \A v \in Windows \ {w} :
        /\ record_cooldown(state, w, outcome).nav_pending[v] = state.nav_pending[v]
        /\ record_result(state, w, outcome, b).nav_pending[v] = state.nav_pending[v]
  BY <1>2, <1>4, <1>6
<1>9. Queued(state, w) /\ ~Queued(record_result(state, w, outcome, b), w) =>
        outcome \in {"PROCESSED_OR_IDEMPOTENT", "WAITING_INPUT"}
  BY <1>4, <1>6 DEF Queued, Outcomes
<1> QED BY <1>1, <1>7, <1>8, <1>9

\* The hourly run writes its copy, in which at most w left the queue, and
\* that with a result.
LEMMA HourlyWritesQueue ==
  ASSUME TypeOK, QueueInv, NEW w \in Windows, NEW new, HourlyWrites(w, new),
         UNCHANGED retry, hourly.pc # "idle",
         \A v \in Windows \ {w} : new.nav_pending[v] = hourly.state.nav_pending[v],
         Queued(hourly.state, w) /\ ~Queued(new, w) =>
           /\ hourly.job = w
           /\ worker[hourly.child].result \in {"PROCESSED_OR_IDEMPOTENT", "WAITING_INPUT"}
  PROVE  QueueInv' /\ QueueStep
<1>1. disk' = new /\ hourly'.state = new /\ hourly'.job = 0
  BY DEF HourlyWrites, TypeOK, Run
<1>2. owed' = IF Queued(new, w) THEN owed \cup {w} ELSE owed \ {w}
  BY DEF HourlyWrites, Queued
<1>3. owed \in SUBSET Windows BY DEF TypeOK
<1>4. ASSUME NEW v \in owed, Queued(disk, v), v # w PROVE Queued(new, v)
  BY <1>3, <1>4 DEF QueueInv, Queued
<1>5. ASSUME retry'.pc # "idle", NEW v \in owed', Queued(retry'.state, v)
      PROVE  Queued(disk', v)
  <2>1. CASE v = w BY <1>1, <1>2, <2>1
  <2>2. CASE v # w
    <3>1. v \in owed /\ Queued(disk, v) BY <1>2, <1>5, <2>2 DEF QueueInv
    <3> QED BY <1>1, <1>4, <2>2, <3>1
  <2> QED BY <2>1, <2>2
<1>6. QueueInv'
  <2>1. \A v \in owed' : Queued(disk', v) => Queued(hourly'.state, v) BY <1>1
  <2>2. \A v \in retry'.todo : Queued(retry'.state, v) BY DEF QueueInv
  <2> QED BY <1>5, <2>1, <2>2 DEF QueueInv, Queued
<1>7. ASSUME NEW v \in owed, Queued(disk, v), ~Queued(new, v)
      PROVE  hourly.job = v /\ worker[hourly.child].result \in {"PROCESSED_OR_IDEMPOTENT", "WAITING_INPUT"}
  <2>1. v = w BY <1>4, <1>7
  <2> QED BY <1>7, <2>1 DEF QueueInv
<1> QED BY <1>1, <1>6, <1>7 DEF QueueStep, QueueSafe, Queued

\* The retry writes its copy, which still has w and what it had besides.
LEMMA RetryWritesQueue ==
  ASSUME TypeOK, QueueInv, NEW w \in retry.todo, NEW new, RetryWrites(w, new),
         UNCHANGED <<hourly, owed>>, retry.pc # "idle",
         \A v \in Windows \ {w} : new.nav_pending[v] = retry.state.nav_pending[v],
         Queued(new, w)
  PROVE  QueueInv' /\ QueueStep
<1>1. owed \in SUBSET Windows /\ retry.todo \in SUBSET Windows BY DEF TypeOK, Run
<1>2. disk' = new BY DEF RetryWrites
<1>3. \A v \in Windows : Queued(new, v) <=> Queued(retry.state, v)
  BY <1>1 DEF QueueInv, Queued
<1>4. ASSUME NEW v \in owed, Queued(disk', v) PROVE Queued(disk, v)
  BY <1>1, <1>2, <1>3, <1>4 DEF QueueInv
<1>5. \/ retry'.pc = "idle" /\ retry'.todo = {}
      \/ retry'.state = new /\ retry'.todo \subseteq retry.todo
  BY DEF RetryWrites, IdleRun, TypeOK, Run
<1>6. QueueInv'
  <2>1. hourly'.pc # "idle" => \A v \in owed' : Queued(disk', v) => Queued(hourly'.state, v)
    BY <1>4 DEF QueueInv
  <2>2. retry'.pc # "idle" => \A v \in owed' : Queued(retry'.state, v) => Queued(disk', v)
    BY <1>2, <1>5
  <2>3. \A v \in retry'.todo : Queued(retry'.state, v)
    BY <1>1, <1>3, <1>5 DEF QueueInv
  <2> QED BY <2>1, <2>2, <2>3 DEF QueueInv, Queued
<1>7. QueueStep BY <1>1, <1>2, <1>3 DEF QueueStep, QueueSafe, Queued
<1> QED BY <1>6, <1>7

\* A run that starts reads the file, one that ends holds nothing.
LEMMA QueueUntouched ==
  ASSUME QueueInv, UNCHANGED <<disk, owed>>,
         \/ hourly'.pc = "idle"
         \/ hourly'.state = disk
         \/ hourly.pc # "idle" /\ hourly'.state = hourly.state,
         \/ retry'.pc = "idle" /\ retry'.todo = {}
         \/ retry'.state = disk /\ \A v \in retry'.todo : Queued(disk, v)
         \/ retry' = retry
  PROVE  QueueInv' /\ QueueStep
<1>1. QueueInv' BY DEF QueueInv, Queued
<1>2. QueueStep BY DEF QueueStep, QueueSafe
<1> QED BY <1>1, <1>2

LEMMA QueueSteps ==
  ASSUME TypeOK, RunsInv, QueueInv, [Next]_qaVars
  PROVE  QueueInv' /\ QueueStep
<1>1. /\ hourly.state \in StateFile /\ retry.state \in StateFile /\ disk \in StateFile
      /\ hourly.nav_ready \in BOOLEAN /\ hourly \in Run /\ retry \in Run
      /\ hourly.todo \in SUBSET Windows /\ retry.todo \in SUBSET Windows
  BY DEF TypeOK, Run
<1>2. "WAITING_NAV" \in Outcomes /\ "FAILED" \in Outcomes BY DEF Outcomes
<1>3. ASSUME NEW w \in Windows, NEW b \in BOOLEAN, HourlyLaunches(w, b), UNCHANGED retry,
             hourly.pc # "idle"
      PROVE  QueueInv' /\ QueueStep
  <2>1. UNCHANGED <<disk, owed>> /\ hourly'.state = hourly.state
    BY <1>1, <1>3 DEF HourlyLaunches, Run
  <2> QED BY <1>3, <2>1, QueueUntouched
<1>4. ASSUME NEW w \in Windows, NEW b \in BOOLEAN, HourlyWrites(w, record_failure(hourly.state, w, b)),
             UNCHANGED retry, hourly.pc # "idle"
      PROVE  QueueInv' /\ QueueStep
  <2>1. record_failure(hourly.state, w, b).nav_pending = hourly.state.nav_pending
    BY <1>1, <1>2, RecordsOneWindow
  <2> QED BY <1>4, <2>1, HourlyWritesQueue DEF Queued
<1>5. ASSUME NEW w \in Windows, NEW b \in BOOLEAN,
             HourlyWrites(w, record_result(hourly.state, w, "WAITING_NAV", b)),
             UNCHANGED retry, hourly.pc # "idle"
      PROVE  QueueInv' /\ QueueStep
  <2> DEFINE new == record_result(hourly.state, w, "WAITING_NAV", b)
  <2>1. /\ \A v \in Windows \ {w} : new.nav_pending[v] = hourly.state.nav_pending[v]
        /\ Queued(hourly.state, w) => Queued(new, w)
    BY <1>1, <1>2, RecordsOneWindow
  <2> QED BY <1>5, <2>1, HourlyWritesQueue
<1>a. CASE HourlyTakesReady
  <2>1. PICK w \in Windows : w = First(hourly.todo)
    BY <1>a, <1>1, FirstIsThere DEF HourlyTakesReady
  <2>2. hourly.pc # "idle" /\ UNCHANGED retry BY <1>a DEF HourlyTakesReady
  <2>3. CASE HourlyLaunches(w, TRUE) BY <1>3, <2>2, <2>3
  <2>4. CASE HourlyWrites(w, record_result(hourly.state, w, "WAITING_NAV", TRUE))
    BY <1>5, <2>2, <2>4
  <2> QED BY <1>a, <2>1, <2>3, <2>4 DEF HourlyTakesReady
<1>b. CASE HourlyTakesRecent
  <2>1. PICK w \in Windows : w = First(hourly.todo)
    BY <1>b, <1>1, FirstIsThere DEF HourlyTakesRecent
  <2>2. hourly.pc # "idle" /\ UNCHANGED retry BY <1>b DEF HourlyTakesRecent
  <2>3. CASE HourlyLaunches(w, FALSE) BY <1>3, <2>2, <2>3
  <2>4. CASE HourlyWrites(w, record_cooldown(hourly.state, w, "WAITING_NAV"))
    BY <1>1, <1>2, <2>2, <2>4, RecordsOneWindow, HourlyWritesQueue
  <2>5. CASE HourlyWrites(w, record_failure(hourly.state, w, FALSE))
    BY <1>4, <2>2, <2>5
  <2> QED BY <1>b, <2>1, <2>3, <2>4, <2>5 DEF HourlyTakesRecent
<1>c. CASE HourlyCollects
  <2>1. /\ hourly.job \in Windows /\ hourly.pc # "idle" /\ UNCHANGED retry
        /\ worker[hourly.child].result \in Outcomes
    BY <1>c DEF HourlyCollects, RunsInv, TypeOK, Process
  <2>2. HourlyWrites(hourly.job, record_result(hourly.state, hourly.job,
                                    worker[hourly.child].result, hourly.nav_ready))
    BY <1>c DEF HourlyCollects
  <2> QED BY <1>1, <2>1, <2>2, RecordsOneWindow, HourlyWritesQueue
<1>d. CASE HourlyGivesUp
  <2>1. hourly.job \in Windows /\ hourly.pc # "idle" /\ UNCHANGED retry
    BY <1>d DEF HourlyGivesUp, RunsInv
  <2>2. HourlyWrites(hourly.job, record_failure(hourly.state, hourly.job, hourly.nav_ready))
    BY <1>d DEF HourlyGivesUp
  <2> QED BY <1>1, <1>4, <2>1, <2>2
<1>e. CASE retry_nav_only \/ RetryFails
  <2>1. PICK w \in retry.todo : w = First(retry.todo)
    BY <1>e, <1>1, FirstIsThere DEF retry_nav_only, RetryFails, RunsInv
  <2>2. w \in Windows BY <1>1, <2>1
  <2>3. PICK new :
          /\ RetryWrites(w, new) /\ Queued(new, w)
          /\ \A v \in Windows \ {w} : new.nav_pending[v] = retry.state.nav_pending[v]
    <3>1. CASE RetryWrites(w, [retry.state EXCEPT !.nav_pending[w] = "ready",
                                                  !.cooldowns = @ \cup {w}])
      <4> DEFINE new == [retry.state EXCEPT !.nav_pending[w] = "ready", !.cooldowns = @ \cup {w}]
      <4>1. new.nav_pending = [retry.state.nav_pending EXCEPT ![w] = "ready"]
        BY <1>1 DEF StateFile
      <4>2. retry.state.nav_pending \in [Windows -> Pending] BY <1>1 DEF StateFile
      <4>3. Queued(new, w)
              /\ \A v \in Windows \ {w} : new.nav_pending[v] = retry.state.nav_pending[v]
        BY <2>2, <4>1, <4>2 DEF Queued
      <4> QED BY <3>1, <4>3
    <3>2. CASE RetryWrites(w, record_cooldown(retry.state, w, "WAITING_NAV"))
      BY <1>1, <1>2, <2>2, <3>2, RecordsOneWindow
    <3>3. CASE RetryWrites(w, [retry.state EXCEPT !.nav_pending[w] = "waiting"])
      BY <1>1, <2>2, <3>3 DEF StateFile, Queued
    <3> QED BY <1>e, <2>1, <3>1, <3>2, <3>3 DEF retry_nav_only, RetryFails
  <2>4. retry.pc # "idle" /\ UNCHANGED <<hourly, owed>>
    BY <1>e DEF retry_nav_only, RetryFails
  <2> QED BY <2>1, <2>3, <2>4, RetryWritesQueue
<1>f. CASE HourlyStarts \/ HourlyDiscovers \/ HourlyEnds \/ HourlyDies
  <2>1. UNCHANGED <<disk, owed, retry>>
    BY <1>f DEF HourlyStarts, HourlyDiscovers, HourlyEnds, HourlyDies
  <2>2. \/ hourly'.pc = "idle" \/ hourly'.state = disk
        \/ hourly.pc # "idle" /\ hourly'.state = hourly.state
    <3>1. CASE HourlyStarts BY <3>1 DEF HourlyStarts, IdleRun
    <3>2. CASE HourlyDiscovers
      <4>1. PICK todo : hourly' = [hourly EXCEPT !.pc = "recent", !.todo = todo]
        BY <3>2 DEF HourlyDiscovers
      <4> QED BY <3>2, <4>1, <1>1 DEF HourlyDiscovers, Run
    <3>3. CASE HourlyEnds \/ HourlyDies BY <3>3 DEF HourlyEnds, HourlyDies, IdleRun
    <3> QED BY <1>f, <3>1, <3>2, <3>3
  <2> QED BY <2>1, <2>2, QueueUntouched
<1>g. CASE RetryStarts \/ RetryDies
  <2>1. UNCHANGED <<disk, owed, hourly>>
    BY <1>g DEF RetryStarts, RetryDies
  <2>2. \/ retry'.pc = "idle" /\ retry'.todo = {}
        \/ retry'.state = disk /\ \A v \in retry'.todo : Queued(disk, v)
    <3>1. CASE RetryStarts
      <4>1. PICK passed \in SUBSET Windows :
              retry' = [IdleRun EXCEPT !.pc = "recent", !.state = disk,
                                       !.todo = due_nav_jobs(disk, passed)]
        BY <3>1 DEF RetryStarts
      <4>2. \A v \in due_nav_jobs(disk, passed) : Queued(disk, v)
        BY DEF due_nav_jobs, Newest, Queued
      <4> QED BY <4>1, <4>2 DEF IdleRun
    <3>2. CASE RetryDies BY <3>2 DEF RetryDies, IdleRun
    <3> QED BY <1>g, <3>1, <3>2
  <2>3. hourly'.pc = "idle" \/ (hourly.pc # "idle" /\ hourly'.state = hourly.state)
    BY <2>1
  <2> QED BY <2>1, <2>2, <2>3, QueueUntouched
<1>h. ASSUME UNCHANGED <<disk, owed, retry>>, hourly' = hourly
      PROVE  QueueInv' /\ QueueStep
  <2>1. hourly'.pc = "idle" \/ (hourly.pc # "idle" /\ hourly'.state = hourly.state)
    BY <1>h
  <2> QED BY <1>h, <2>1, QueueUntouched
<1>i. CASE HourCloses \/ Publish \/ \E w \in Windows : SamplesArrive(w)
  BY <1>h, <1>i DEF HourCloses, Publish, SamplesArrive
<1>j. CASE \E k \in Workers : WorkerSteps(k)
  BY <1>h, <1>j DEF WorkerSteps, WorkerReads, WorkerRefused, WorkerDeclines, WorkerClaims,
                    WorkerCommits, WorkerFails, WorkerKilled
<1>k. CASE UNCHANGED qaVars BY <1>h, <1>k DEF qaVars
<1> QED BY <1>a, <1>b, <1>c, <1>d, <1>e, <1>f, <1>g, <1>i, <1>j, <1>k DEF Next

\* A window that its last hourly job left in the queue is taken out by the
\* hourly run only with its result, and by the retry only if the retry read
\* the file before the window was queued (runner:435, 443, 450).
THEOREM QueueAlways == Spec => QueueLosesNothing
<1> DEFINE Safe ==
      \A w \in owed :
        disk.nav_pending[w] # "none" /\ disk'.nav_pending[w] = "none" =>
          \/ /\ hourly.job = w /\ hourly'.job = 0
             /\ worker[hourly.child].result \in {"PROCESSED_OR_IDEMPOTENT", "WAITING_INPUT"}
          \/ /\ hourly' = hourly /\ retry.pc # "idle"
             /\ retry.state.nav_pending[w] = "none"
<1>1. Init => QueueInv BY DEF Init, QueueInv, IdleRun
<1>2. TypeOK /\ RunsInv /\ QueueInv /\ [Next]_qaVars => QueueInv' /\ [Safe]_qaVars
  BY QueueSteps DEF QueueStep, QueueSafe
<1>3. Spec => [][Safe]_qaVars BY <1>1, <1>2, TypesAlways, PTL DEF Spec
<1> QED BY <1>3 DEF QueueLosesNothing
=============================================================================
