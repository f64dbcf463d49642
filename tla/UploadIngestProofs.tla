------------------------- MODULE UploadIngestProofs -------------------------
(***************************************************************************)
(* The invariants of UploadIngest, for any files, requests and failures.   *)
(***************************************************************************)
EXTENDS UploadIngest, TLAPS

(* What a request may be.                                                  *)
Handler ==
  {r \in [phase : Phases, file : Files \cup {NoFile},
          bytes : Payloads \cup {NoPayload}, todo : SUBSET Rovers,
          rover : Rovers \cup {NoRover}, run : Runs] :
     /\ r.phase # "idle" => r.file \in Files /\ r.bytes \in Payloads
     /\ r.phase \in {"paired", "solving", "solved", "stored"} => r.rover \in Rovers}

(* Phases with the rows of the file stored.                                *)
Stored == {"staged", "paired", "solving", "solved", "stored"}

(* A file is processed, or in the hands of a request, only while its       *)
(* status says so.                                                         *)
ClaimInv ==
  /\ OneProcessor
  /\ \A q \in Requests :
       /\ request[q].phase \in Processing => upload[request[q].file] = "processing"
       /\ request[q].phase = "failing" =>
            upload[request[q].file] \in {"processing", "processed"}

(* The bytes a request works on, and those of a processed upload, are the  *)
(* ones retained and stored.                                               *)
DataInv ==
  /\ RowsAreRetained
  /\ \A q \in Requests :
       request[q].phase \in Stored \cup {"retained"} =>
         payload[request[q].file] = request[q].bytes
  /\ \A q \in Requests : request[q].phase \in Stored => Row(q) \in samples
  /\ \A f \in Files : (upload[f] = "processed" /\ payload[f] # NoPayload) =>
       [file |-> f, bytes |-> payload[f]] \in samples
  /\ \A f \in Files \ Legacy : upload[f] = "processed" => payload[f] # NoPayload
  /\ \A f \in Legacy :
       /\ upload[f] = "processed" /\ payload[f] = NoPayload
       /\ \A q \in Requests : request[q].phase \in Holding => request[q].file # f
  /\ \A q \in Requests : request[q].phase = "duplicate" =>
       \/ request[q].file \in Legacy
       \/ /\ payload[request[q].file] # NoPayload
          /\ [file |-> request[q].file, bytes |-> payload[request[q].file]] \in samples
  /\ AnsweredIsStored

(* Only real runs reach the solution records, and one per rover.           *)
RunInv ==
  /\ MeasuredAsRecorded
  /\ \A q \in Requests :
       /\ request[q].phase \in {"solving", "solved", "stored"} => request[q].run # NoRun
       /\ request[q].phase = "stored" =>
            solution[request[q].rover] = request[q].run

Done(r) == measured[r] # NoRun \/ r \in unsolved

(* The upload of h, as far as it got, has finished with the window of r.   *)
Finished(h, r) ==
  \/ upload[h] = "processed"
  \/ \E q \in Requests : /\ request[q].file = h
                         /\ request[q].phase \in Stored
                         /\ r \notin request[q].todo

Staged(h) == \E s \in samples : s.file = h

(* Of two requests that staged the two sides, the later one sees both; a   *)
(* rover's request that missed the base rows has a base request behind it. *)
PairInv ==
  /\ \A q \in Requests :
       /\ request[q].phase \in {"paired", "solving", "solved", "stored"} =>
            request[q].rover \in request[q].todo
       /\ (request[q].phase = "paired" /\ Sender[request[q].file] = Base) =>
            request[q].run.base # {}
  /\ \A f, g \in Files :
       (Sender[f] = Base /\ Sender[g] # Base /\ Staged(f) /\ Staged(g)) =>
         /\ Done(Sender[g]) \/ ~Finished(f, Sender[g]) \/ ~Finished(g, Sender[g])
         /\ \A q \in Requests :
              (/\ request[q].phase = "paired" /\ request[q].file = g
               /\ request[q].run.base = {}) =>
                Done(Sender[g]) \/ ~Finished(f, Sender[g])
---------------------------------------------------------------------------
(* Types                                                                   *)

LEMMA HandlerTyped == TypeOK <=>
  /\ upload \in [Files -> {"none", "processing", "processed", "failed"}]
  /\ payload \in [Files -> Payloads \cup {NoPayload}]
  /\ samples \subseteq Rows
  /\ cached \in BOOLEAN
  /\ solution \in [Rovers -> Runs]
  /\ measured \in [Rovers -> Runs]
  /\ request \in [Requests -> Handler]
  /\ answered \subseteq Rows
  /\ unsolved \subseteq Rovers
  /\ faults \in Nat /\ deaths \in Nat
<1>1. (request \in [Requests -> Handler]) <=>
        /\ request \in [Requests -> [phase : Phases, file : Files \cup {NoFile},
                     bytes : Payloads \cup {NoPayload}, todo : SUBSET Rovers,
                     rover : Rovers \cup {NoRover}, run : Runs]]
        /\ \A q \in Requests : request[q] \in Handler
  BY DEF Handler
<1>2. QED
  BY <1>1 DEF TypeOK, Handler

LEMMA NoRunTyped == NoRun \in Runs /\ NoRun.base = {}
BY DEF NoRun, Runs

LEMMA IdleTyped == Idle \in Handler /\ Idle.phase = "idle"
<1>1. Idle \in [phase : Phases, file : Files \cup {NoFile},
          bytes : Payloads \cup {NoPayload}, todo : SUBSET Rovers,
          rover : Rovers \cup {NoRover}, run : Runs]
  BY NoRunTyped DEF Idle, Phases
<1>2. QED
  BY <1>1 DEF Handler, Idle

(* What a step of q does to the requests.                                  *)
Moves(q, phase) ==
  /\ request' \in [Requests -> Handler]
  /\ request'[q].phase = phase
  /\ \A p \in Requests : p # q => request'[p] = request[p]

KeepsFile(q) ==
  request'[q].file = request[q].file /\ request'[q].bytes = request[q].bytes

KeepsWindow(q) ==
  /\ request'[q].todo = request[q].todo
  /\ request'[q].rover = request[q].rover
  /\ request'[q].run = request[q].run

LEMMA BecomeTyped ==
  ASSUME request \in [Requests -> Handler], NEW q \in Requests,
         NEW r \in Handler, Become(q, r)
  PROVE  /\ request' \in [Requests -> Handler]
         /\ request'[q] = r
         /\ \A p \in Requests : p # q => request'[p] = request[p]
BY DEF Become

LEMMA GotoTyped ==
  ASSUME request \in [Requests -> Handler], NEW q \in Requests,
         NEW phase \in Phases, Goto(q, phase), request[q].phase # "idle",
         phase \in {"paired", "solving", "solved", "stored"} =>
           request[q].rover \in Rovers
  PROVE  Moves(q, phase) /\ KeepsFile(q) /\ KeepsWindow(q)
<1> DEFINE r == [request[q] EXCEPT !.phase = phase]
<1>1. request[q] \in Handler
  OBVIOUS
<1>2. r \in Handler
  BY <1>1 DEF Handler
<1>3. Become(q, r)
  BY DEF Goto
<1>4. /\ r.phase = phase /\ r.file = request[q].file
      /\ r.bytes = request[q].bytes /\ r.todo = request[q].todo
      /\ r.rover = request[q].rover /\ r.run = request[q].run
  BY <1>1 DEF Handler
<1> HIDE DEF r
<1>5. QED
  BY <1>2, <1>3, <1>4, BecomeTyped DEF Moves, KeepsFile, KeepsWindow

LEMMA LeaveTyped ==
  ASSUME request \in [Requests -> Handler], NEW q \in Requests, Leave(q)
  PROVE  Moves(q, "idle")
BY IdleTyped, BecomeTyped DEF Leave, Moves

LEMMA NextRoverTyped ==
  ASSUME request \in [Requests -> Handler], NEW q \in Requests,
         NextRover(q), request[q].phase # "idle"
  PROVE  /\ Moves(q, "staged") /\ KeepsFile(q)
         /\ request'[q].todo = request[q].todo \ {request[q].rover}
<1> DEFINE r == [request[q] EXCEPT !.phase = "staged", !.run = NoRun,
                   !.rover = NoRover, !.todo = @ \ {request[q].rover}]
<1>1. request[q] \in Handler
  OBVIOUS
<1>2. r \in Handler
  BY <1>1, NoRunTyped DEF Handler, Phases, Holding, Processing
<1>3. Become(q, r)
  BY DEF NextRover
<1>4. /\ r.phase = "staged" /\ r.file = request[q].file
      /\ r.bytes = request[q].bytes
      /\ r.todo = request[q].todo \ {request[q].rover}
  BY <1>1 DEF Handler
<1> HIDE DEF r
<1>5. QED
  BY <1>2, <1>3, <1>4, BecomeTyped DEF Moves, KeepsFile

LEMMA StageTyped ==
  ASSUME request \in [Requests -> Handler], NEW q \in Requests, StageRows(q)
  PROVE  /\ Moves(q, "staged") /\ KeepsFile(q)
         /\ request'[q].todo = RoversOf(request[q].file)
<1> DEFINE r == [request[q] EXCEPT !.phase = "staged",
                                  !.todo = RoversOf(request[q].file)]
<1>1. request[q] \in Handler /\ request[q].phase = "retained"
  BY DEF StageRows, At
<1>2. RoversOf(request[q].file) \subseteq Rovers
  BY <1>1, SendersKnown DEF RoversOf, Handler
<1>3. r \in Handler
  BY <1>1, <1>2 DEF Handler, Phases, Holding, Processing
<1>4. Become(q, r)
  BY DEF StageRows
<1>5. /\ r.phase = "staged" /\ r.file = request[q].file
      /\ r.bytes = request[q].bytes /\ r.todo = RoversOf(request[q].file)
  BY <1>1 DEF Handler
<1> HIDE DEF r
<1>6. QED
  BY <1>3, <1>4, <1>5, BecomeTyped DEF Moves, KeepsFile

LEMMA SelectBaseTyped ==
  ASSUME request \in [Requests -> Handler], samples \subseteq Rows,
         NEW q \in Requests, SelectBaseRows(q)
  PROVE  /\ Moves(q, "paired") /\ KeepsFile(q)
         /\ request'[q].todo = request[q].todo
         /\ request'[q].rover \in request[q].todo
         /\ request'[q].run.base = RowsOf(Base)
<1>1. PICK d \in request[q].todo :
        Become(q, [request[q] EXCEPT !.phase = "paired", !.rover = d,
                     !.run = [NoRun EXCEPT !.base = RowsOf(Base)]])
  BY DEF SelectBaseRows
<1> DEFINE run == [NoRun EXCEPT !.base = RowsOf(Base)]
           r == [request[q] EXCEPT !.phase = "paired", !.rover = d, !.run = run]
<1>2. request[q] \in Handler /\ request[q].phase = "staged"
  BY DEF SelectBaseRows, At
<1>3. run \in Runs /\ run.base = RowsOf(Base)
  BY DEF NoRun, Runs, RowsOf
<1> HIDE DEF run
<1>4. d \in Rovers
  BY <1>2 DEF Handler
<1>5. r \in Handler
  BY <1>2, <1>3, <1>4 DEF Handler, Phases, Holding, Processing
<1>6. /\ r.phase = "paired" /\ r.file = request[q].file
      /\ r.bytes = request[q].bytes /\ r.todo = request[q].todo
      /\ r.rover = d /\ r.run = run
  BY <1>2 DEF Handler
<1>7. Become(q, r)
  BY <1>1 DEF run
<1> HIDE DEF r
<1>8. QED
  BY <1>1, <1>3, <1>5, <1>6, <1>7, BecomeTyped DEF Moves, KeepsFile

(* Both sides present: the run holds their rows.                           *)
LEMMA SelectRoverTyped ==
  ASSUME request \in [Requests -> Handler], samples \subseteq Rows,
         cached \in BOOLEAN, NEW q \in Requests, SelectRoverRows(q),
         request[q].run.base # {}, RowsOf(request[q].rover) # {}
  PROVE  /\ Moves(q, "solving") /\ KeepsFile(q)
         /\ request'[q].todo = request[q].todo
         /\ request'[q].rover = request[q].rover
         /\ request'[q].run.base = request[q].run.base
<1> DEFINE rows == RowsOf(request[q].rover)
           run == [request[q].run EXCEPT !.rover = rows, !.cache_hit = cached]
           r == [request[q] EXCEPT !.phase = "solving", !.run = run]
<1>1. request[q] \in Handler /\ request[q].phase = "paired"
  BY DEF SelectRoverRows, At
<1>2. Become(q, r)
  BY DEF SelectRoverRows
<1>3. request[q].run \in Runs
  BY <1>1 DEF Handler
<1>4. run \in Runs /\ run.base = request[q].run.base
  BY <1>3 DEF Runs, RowsOf
<1>5. r \in Handler
  <2> HIDE DEF run
  <2> QED  BY <1>1, <1>4 DEF Handler, Phases, Holding, Processing
<1>6. /\ r.phase = "solving" /\ r.file = request[q].file
      /\ r.bytes = request[q].bytes /\ r.todo = request[q].todo
      /\ r.rover = request[q].rover /\ r.run = run
  <2> HIDE DEF run
  <2> QED  BY <1>1 DEF Handler
<1> HIDE DEF r
<1>7. QED
  BY <1>2, <1>4, <1>5, <1>6, BecomeTyped DEF Moves, KeepsFile

LEMMA SelectRoverPending ==
  ASSUME NEW q \in Requests, SelectRoverRows(q),
         request[q].run.base = {} \/ RowsOf(request[q].rover) = {}
  PROVE  NextRover(q)
BY DEF SelectRoverRows

---------------------------------------------------------------------------
(* What every action does, in the terms the invariants need.  Processing   *)
(* steps that change nothing but the phase are one of these, too.          *)

LEMMA ReceiveEffect ==
  ASSUME TypeOK, NEW q \in Requests, NEW f \in Files, NEW b \in Payloads,
         Receive(q, f, b)
  PROVE  Moves(q, "new") /\ UNCHANGED <<database, History>>
<1> DEFINE r == [Idle EXCEPT !.phase = "new", !.file = f, !.bytes = b]
<1>1. r \in Handler /\ r.phase = "new"
  BY IdleTyped DEF Handler, Phases
<1>2. Become(q, r)
  BY DEF Receive
<1> HIDE DEF r
<1>3. QED
  BY <1>1, <1>2, HandlerTyped, BecomeTyped DEF Receive, Moves

LEMMA ClaimEffect ==
  ASSUME TypeOK, NEW q \in Requests, ClaimNew(q) \/ ClaimFailed(q)
  PROVE  /\ KeepsFile(q)
         /\ UNCHANGED <<payload, samples, cached, solution, measured, History>>
         /\ \/ /\ upload[request[q].file] \in {"none", "failed"}
               /\ upload' = [upload EXCEPT ![request[q].file] = "processing"]
               /\ Moves(q, "claimed")
            \/ /\ upload' = upload
               /\ Moves(q, "exists") \/ Moves(q, "held")
         /\ request[q].file \in Files
<1> USE HandlerTyped DEF Phases, Holding, Processing
<1>1. CASE ClaimNew(q)
  BY <1>1, GotoTyped DEF ClaimNew, At, Handler
<1>2. CASE ClaimFailed(q)
  BY <1>2, GotoTyped DEF ClaimFailed, At, Handler
<1>3. QED
  BY <1>1, <1>2

LEMMA LookEffect ==
  ASSUME TypeOK, NEW q \in Requests, LookAtClaim(q)
  PROVE  /\ UNCHANGED <<database, History>>
         /\ \/ Moves(q, "idle")
            \/ Moves(q, "duplicate") /\ KeepsFile(q)
               /\ upload[request[q].file] = "processed"
BY HandlerTyped, GotoTyped, LeaveTyped DEF LookAtClaim, At, Phases

LEMMA AnswerEffect ==
  ASSUME TypeOK, NEW q \in Requests, AnswerDuplicate(q)
  PROVE  /\ Moves(q, "idle") /\ request[q].phase = "duplicate"
         /\ UNCHANGED <<database, unsolved, faults, deaths>>
         /\ answered' = IF payload[request[q].file] = request[q].bytes
                        THEN answered \cup {Row(q)} ELSE answered
         /\ Row(q) \in Rows
BY HandlerTyped, LeaveTyped DEF AnswerDuplicate, At, Row, Rows, Handler

LEMMA RetainEffect ==
  ASSUME TypeOK, NEW q \in Requests, RetainPayload(q)
  PROVE  /\ KeepsFile(q) /\ request[q].phase = "claimed"
         /\ request[q].file \in Files /\ request[q].bytes \in Payloads
         /\ UNCHANGED <<upload, samples, cached, solution, measured, History>>
         /\ payload' = IF payload[request[q].file] = NoPayload
                       THEN [payload EXCEPT ![request[q].file] = request[q].bytes]
                       ELSE payload
         /\ \/ Moves(q, "retained") /\ payload'[request[q].file] = request[q].bytes
            \/ Moves(q, "failing")
<1> USE HandlerTyped DEF Phases, Holding, Processing
<1>1. request[q].phase = "claimed" /\ request[q] \in Handler
  BY DEF RetainPayload, At
<1>2. CASE payload'[request[q].file] = request[q].bytes
  BY <1>1, <1>2, GotoTyped DEF RetainPayload, Handler
<1>3. CASE payload'[request[q].file] # request[q].bytes
  BY <1>1, <1>3, GotoTyped DEF RetainPayload, Handler
<1>4. QED
  BY <1>2, <1>3

LEMMA StageEffect ==
  ASSUME TypeOK, NEW q \in Requests, StageRows(q)
  PROVE  /\ Moves(q, "staged") /\ KeepsFile(q) /\ request[q].phase = "retained"
         /\ request'[q].todo = RoversOf(request[q].file)
         /\ UNCHANGED <<upload, payload, cached, solution, measured, History>>
         /\ samples' = IF \E s \in samples : s.file = request[q].file
                       THEN samples ELSE samples \cup {Row(q)}
         /\ Row(q) \in Rows
BY HandlerTyped, StageTyped DEF StageRows, At, Row, Rows, Handler

LEMMA SelectBaseEffect ==
  ASSUME TypeOK, NEW q \in Requests, SelectBaseRows(q)
  PROVE  /\ Moves(q, "paired") /\ KeepsFile(q) /\ request[q].phase = "staged"
         /\ request'[q].todo = request[q].todo
         /\ request'[q].rover \in request[q].todo
         /\ request'[q].run.base = RowsOf(Base)
         /\ UNCHANGED <<database, History>>
BY HandlerTyped, SelectBaseTyped DEF SelectBaseRows, At

LEMMA SelectRoverEffect ==
  ASSUME TypeOK, NEW q \in Requests, SelectRoverRows(q)
  PROVE  /\ KeepsFile(q) /\ request[q].phase = "paired"
         /\ UNCHANGED <<database, History>>
         /\ \/ /\ Moves(q, "solving")
               /\ request'[q].todo = request[q].todo
               /\ request'[q].rover = request[q].rover
               /\ request'[q].run.base # {}
            \/ /\ request[q].run.base = {} \/ RowsOf(request[q].rover) = {}
               /\ Moves(q, "staged")
               /\ request'[q].todo = request[q].todo \ {request[q].rover}
BY HandlerTyped, SelectRoverTyped, SelectRoverPending, NextRoverTyped
   DEF SelectRoverRows, At

LEMMA SolveEffect ==
  ASSUME TypeOK, NEW q \in Requests, Solve(q)
  PROVE  /\ Moves(q, "solved") /\ KeepsFile(q) /\ KeepsWindow(q)
         /\ request[q].phase = "solving" /\ cached' = TRUE
         /\ UNCHANGED <<upload, payload, samples, solution, measured, History>>
BY HandlerTyped, GotoTyped DEF Solve, At, Phases, Holding, Processing, Handler

LEMMA SolveNothingEffect ==
  ASSUME TypeOK, NEW q \in Requests, SolveNothing(q)
  PROVE  /\ Moves(q, "staged") /\ KeepsFile(q)
         /\ request[q].phase = "solving" /\ request[q].rover \in Rovers
         /\ request'[q].todo = request[q].todo \ {request[q].rover}
         /\ unsolved' = unsolved \cup {request[q].rover}
         /\ cached' \in BOOLEAN
         /\ UNCHANGED <<upload, payload, samples, solution, measured, answered,
                        faults, deaths>>
BY HandlerTyped, NextRoverTyped DEF SolveNothing, At, Handler

LEMMA StoreEffect ==
  ASSUME TypeOK, NEW q \in Requests, StoreSolution(q)
  PROVE  /\ KeepsFile(q) /\ KeepsWindow(q)
         /\ request[q].phase = "solved" /\ request[q].rover \in Rovers
         /\ solution' = IF solution[request[q].rover] = NoRun
                        THEN [solution EXCEPT ![request[q].rover] = request[q].run]
                        ELSE solution
         /\ \/ Moves(q, "stored") /\ solution'[request[q].rover] = request[q].run
            \/ Moves(q, "failing")
         /\ UNCHANGED <<upload, payload, samples, cached, measured, History>>
<1> USE HandlerTyped DEF Phases, Holding, Processing
<1>1. request[q].phase = "solved" /\ request[q] \in Handler
  BY DEF StoreSolution, At
<1>2. CASE solution'[request[q].rover] = request[q].run
  BY <1>1, <1>2, GotoTyped DEF StoreSolution, Handler
<1>3. CASE solution'[request[q].rover] # request[q].run
  BY <1>1, <1>3, GotoTyped DEF StoreSolution, Handler
<1>4. QED
  BY <1>2, <1>3

LEMMA MeasureEffect ==
  ASSUME TypeOK, NEW q \in Requests, Measure(q)
  PROVE  /\ Moves(q, "staged") /\ KeepsFile(q)
         /\ request[q].phase = "stored" /\ request[q].rover \in Rovers
         /\ request'[q].todo = request[q].todo \ {request[q].rover}
         /\ measured' = IF measured[request[q].rover] = NoRun
                        THEN [measured EXCEPT ![request[q].rover] = request[q].run]
                        ELSE measured
         /\ UNCHANGED <<upload, payload, samples, cached, solution, History>>
BY HandlerTyped, NextRoverTyped DEF Measure, At, Handler

LEMMA MarkProcessedEffect ==
  ASSUME TypeOK, NEW q \in Requests, MarkProcessed(q)
  PROVE  /\ Moves(q, "idle")
         /\ request[q].phase = "staged" /\ request[q].todo = {}
         /\ request[q].file \in Files /\ Row(q) \in Rows
         /\ upload' = [upload EXCEPT ![request[q].file] = "processed"]
         /\ answered' = answered \cup {Row(q)}
         /\ UNCHANGED <<payload, samples, cached, solution, measured, unsolved,
                        faults, deaths>>
BY HandlerTyped, LeaveTyped DEF MarkProcessed, At, Row, Rows, Handler

LEMMA MarkFailedEffect ==
  ASSUME TypeOK, NEW q \in Requests, MarkFailed(q)
  PROVE  /\ Moves(q, "idle") /\ request[q].phase = "failing"
         /\ request[q].file \in Files
         /\ upload' = [upload EXCEPT ![request[q].file] = "failed"]
         /\ UNCHANGED <<payload, samples, cached, solution, measured, History>>
BY HandlerTyped, LeaveTyped DEF MarkFailed, At, Handler

LEMMA FaultEffect ==
  ASSUME TypeOK, NEW q \in Requests, Fault(q)
  PROVE  /\ UNCHANGED <<payload, samples, cached, solution, measured, answered,
                        unsolved, deaths>>
         /\ faults' \in Nat
         /\ \/ Moves(q, "idle") /\ upload' = upload
            \/ /\ request[q].phase \in Processing
               /\ Moves(q, "failing") /\ KeepsFile(q) /\ upload' = upload
            \/ /\ request[q].phase = "staged" /\ request[q].todo = {}
               /\ request[q].file \in Files
               /\ upload' = [upload EXCEPT ![request[q].file] = "processed"]
               /\ Moves(q, "failing") /\ KeepsFile(q)
BY HandlerTyped, GotoTyped, LeaveTyped
   DEF Fault, At, Handler, Phases, Holding, Processing

LEMMA DieEffect ==
  ASSUME TypeOK, NEW q \in Requests, Die(q)
  PROVE  Moves(q, "idle") /\ UNCHANGED <<database, answered, unsolved>>
         /\ deaths' \in Nat /\ faults' = faults
BY HandlerTyped, LeaveTyped DEF Die

---------------------------------------------------------------------------
(* The type invariant                                                      *)

LEMMA TypeInit == Init => TypeOK
<1> SUFFICES ASSUME Init PROVE TypeOK
  OBVIOUS
<1>1. request \in [Requests -> Handler]
  BY IdleTyped DEF Init
<1>2. QED
  BY <1>1, NoRunTyped, HandlerTyped DEF Init

LEMMA TypeStep ==
  ASSUME TypeOK, [Next]_vars
  PROVE  TypeOK'
<1> DEFINE Typed == /\ upload \in [Files -> {"none", "processing", "processed", "failed"}]
  /\ payload \in [Files -> Payloads \cup {NoPayload}]
  /\ samples \subseteq Rows
  /\ cached \in BOOLEAN
  /\ solution \in [Rovers -> Runs]
  /\ measured \in [Rovers -> Runs]
  /\ request \in [Requests -> Handler]
  /\ answered \subseteq Rows
  /\ unsolved \subseteq Rovers
  /\ faults \in Nat /\ deaths \in Nat
<1> SUFFICES Typed'
  <2>1. (request' \in [Requests -> Handler]) =>
          /\ request' \in [Requests -> [phase : Phases, file : Files \cup {NoFile},
                     bytes : Payloads \cup {NoPayload}, todo : SUBSET Rovers,
                     rover : Rovers \cup {NoRover}, run : Runs]]
          /\ \A q \in Requests : request'[q] \in Handler
    BY DEF Handler
  <2>2. QED
    BY <2>1 DEF TypeOK, Handler
<1>0. Typed
  BY HandlerTyped
<1>a. \A q \in Requests : request[q].run \in Runs
  BY <1>0 DEF Handler
<1>1. ASSUME NEW q \in Requests, NEW f \in Files, NEW b \in Payloads,
             Receive(q, f, b)
      PROVE  Typed'
  BY <1>1, ReceiveEffect, <1>0, <1>a DEF Moves, KeepsFile, KeepsWindow, database, History
<1>2. ASSUME NEW q \in Requests, ClaimNew(q) \/ ClaimFailed(q)
      PROVE  Typed'
  BY <1>2, ClaimEffect, <1>0, <1>a DEF Moves, KeepsFile, KeepsWindow, database, History
<1>3. ASSUME NEW q \in Requests, LookAtClaim(q)
      PROVE  Typed'
  BY <1>3, LookEffect, <1>0, <1>a DEF Moves, KeepsFile, KeepsWindow, database, History
<1>4. ASSUME NEW q \in Requests, AnswerDuplicate(q)
      PROVE  Typed'
  BY <1>4, AnswerEffect, <1>0, <1>a DEF Moves, KeepsFile, KeepsWindow, database, History
<1>5. ASSUME NEW q \in Requests, RetainPayload(q)
      PROVE  Typed'
  BY <1>5, RetainEffect, <1>0, <1>a DEF Moves, KeepsFile, KeepsWindow, database, History
<1>6. ASSUME NEW q \in Requests, StageRows(q)
      PROVE  Typed'
  BY <1>6, StageEffect, <1>0, <1>a DEF Moves, KeepsFile, KeepsWindow, database, History
<1>7. ASSUME NEW q \in Requests, SelectBaseRows(q)
      PROVE  Typed'
  BY <1>7, SelectBaseEffect, <1>0, <1>a DEF Moves, KeepsFile, KeepsWindow, database, History
<1>8. ASSUME NEW q \in Requests, SelectRoverRows(q)
      PROVE  Typed'
  BY <1>8, SelectRoverEffect, <1>0, <1>a DEF Moves, KeepsFile, KeepsWindow, database, History
<1>9. ASSUME NEW q \in Requests, Solve(q)
      PROVE  Typed'
  BY <1>9, SolveEffect, <1>0, <1>a DEF Moves, KeepsFile, KeepsWindow, database, History
<1>10. ASSUME NEW q \in Requests, SolveNothing(q)
      PROVE  Typed'
  BY <1>10, SolveNothingEffect, <1>0, <1>a DEF Moves, KeepsFile, KeepsWindow, database, History
<1>11. ASSUME NEW q \in Requests, StoreSolution(q)
      PROVE  Typed'
  BY <1>11, StoreEffect, <1>0, <1>a DEF Moves, KeepsFile, KeepsWindow, database, History
<1>12. ASSUME NEW q \in Requests, Measure(q)
      PROVE  Typed'
  BY <1>12, MeasureEffect, <1>0, <1>a DEF Moves, KeepsFile, KeepsWindow, database, History
<1>13. ASSUME NEW q \in Requests, MarkProcessed(q)
      PROVE  Typed'
  BY <1>13, MarkProcessedEffect, <1>0, <1>a DEF Moves, KeepsFile, KeepsWindow, database, History
<1>14. ASSUME NEW q \in Requests, MarkFailed(q)
      PROVE  Typed'
  BY <1>14, MarkFailedEffect, <1>0, <1>a DEF Moves, KeepsFile, KeepsWindow, database, History
<1>15. ASSUME NEW q \in Requests, Fault(q)
      PROVE  Typed'
  BY <1>15, FaultEffect, <1>0, <1>a DEF Moves, KeepsFile, KeepsWindow, database, History
<1>16. ASSUME NEW q \in Requests, Die(q)
      PROVE  Typed'
  BY <1>16, DieEffect, <1>0, <1>a DEF Moves, KeepsFile, KeepsWindow, database, History
<1>17. CASE UNCHANGED vars
  BY <1>0, <1>17 DEF vars
<1>18. QED
  BY <1>1, <1>2, <1>3, <1>4, <1>5, <1>6, <1>7, <1>8, <1>9, <1>10, <1>11, <1>12, <1>13, <1>14, <1>15, <1>16, <1>17 DEF Next, HandlerStep

(* TypeOK holds in every behaviour.                                        *)
THEOREM TypeCorrect == Spec => []TypeOK
<1>1. Init => TypeOK
  BY TypeInit
<1>2. TypeOK /\ [Next]_vars => TypeOK'
  BY TypeStep
<1>3. QED
  BY <1>1, <1>2, PTL DEF Spec

---------------------------------------------------------------------------
(* Claims                                                                  *)

LEMMA ClaimInit == Init => ClaimInv
BY DEF Init, ClaimInv, OneProcessor, Idle, Holding, Processing

LEMMA ClaimStep ==
  ASSUME TypeOK, ClaimInv, [Next]_vars
  PROVE  ClaimInv'
<1> USE DEF ClaimInv, OneProcessor, Holding, Processing
<1>0. /\ upload \in [Files -> {"none", "processing", "processed", "failed"}]
      /\ \A q \in Requests : request[q].phase # "idle" => request[q].file \in Files
  BY DEF TypeOK
<1>1. ASSUME NEW q \in Requests, NEW f \in Files, NEW b \in Payloads,
             Receive(q, f, b)
      PROVE  ClaimInv'
  BY <1>1, ReceiveEffect, <1>0 DEF Moves, KeepsFile, KeepsWindow, database, History
<1>2. ASSUME NEW q \in Requests, ClaimNew(q) \/ ClaimFailed(q)
      PROVE  ClaimInv'
  BY <1>2, ClaimEffect, <1>0 DEF Moves, KeepsFile, KeepsWindow, database, History
<1>3. ASSUME NEW q \in Requests, LookAtClaim(q)
      PROVE  ClaimInv'
  BY <1>3, LookEffect, <1>0 DEF Moves, KeepsFile, KeepsWindow, database, History
<1>4. ASSUME NEW q \in Requests, AnswerDuplicate(q)
      PROVE  ClaimInv'
  BY <1>4, AnswerEffect, <1>0 DEF Moves, KeepsFile, KeepsWindow, database, History
<1>5. ASSUME NEW q \in Requests, RetainPayload(q)
      PROVE  ClaimInv'
  BY <1>5, RetainEffect, <1>0 DEF Moves, KeepsFile, KeepsWindow, database, History
<1>6. ASSUME NEW q \in Requests, StageRows(q)
      PROVE  ClaimInv'
  BY <1>6, StageEffect, <1>0 DEF Moves, KeepsFile, KeepsWindow, database, History
<1>7. ASSUME NEW q \in Requests, SelectBaseRows(q)
      PROVE  ClaimInv'
  BY <1>7, SelectBaseEffect, <1>0 DEF Moves, KeepsFile, KeepsWindow, database, History
<1>8. ASSUME NEW q \in Requests, SelectRoverRows(q)
      PROVE  ClaimInv'
  BY <1>8, SelectRoverEffect, <1>0 DEF Moves, KeepsFile, KeepsWindow, database, History
<1>9. ASSUME NEW q \in Requests, Solve(q)
      PROVE  ClaimInv'
  <2>1. \A p \in Requests :
          /\ request'[p].file = request[p].file
          /\ request'[p].phase \in Processing => request[p].phase \in Processing
          /\ request'[p].phase = "failing" => request[p].phase = "failing"
    BY <1>9, SolveEffect DEF Moves, KeepsFile
  <2>2. upload' = upload
    BY <1>9, SolveEffect
  <2>3. QED
    BY <2>1, <2>2
<1>10. ASSUME NEW q \in Requests, SolveNothing(q)
      PROVE  ClaimInv'
  BY <1>10, SolveNothingEffect, <1>0 DEF Moves, KeepsFile, KeepsWindow, database, History
<1>11. ASSUME NEW q \in Requests, StoreSolution(q)
      PROVE  ClaimInv'
  BY <1>11, StoreEffect, <1>0 DEF Moves, KeepsFile, KeepsWindow, database, History
<1>12. ASSUME NEW q \in Requests, Measure(q)
      PROVE  ClaimInv'
  BY <1>12, MeasureEffect, <1>0 DEF Moves, KeepsFile, KeepsWindow, database, History
<1>13. ASSUME NEW q \in Requests, MarkProcessed(q)
      PROVE  ClaimInv'
  BY <1>13, MarkProcessedEffect, <1>0 DEF Moves, KeepsFile, KeepsWindow, database, History
<1>14. ASSUME NEW q \in Requests, MarkFailed(q)
      PROVE  ClaimInv'
  BY <1>14, MarkFailedEffect, <1>0 DEF Moves, KeepsFile, KeepsWindow, database, History
<1>15. ASSUME NEW q \in Requests, Fault(q)
      PROVE  ClaimInv'
  BY <1>15, FaultEffect, <1>0 DEF Moves, KeepsFile, KeepsWindow, database, History
<1>16. ASSUME NEW q \in Requests, Die(q)
      PROVE  ClaimInv'
  BY <1>16, DieEffect, <1>0 DEF Moves, KeepsFile, KeepsWindow, database, History
<1>17. CASE UNCHANGED vars
  BY <1>17 DEF vars
<1>18. QED
  BY <1>1, <1>2, <1>3, <1>4, <1>5, <1>6, <1>7, <1>8, <1>9, <1>10, <1>11, <1>12, <1>13, <1>14, <1>15, <1>16, <1>17 DEF Next, HandlerStep

(* OneProcessor: for any number of rivals, failures and deaths.            *)
THEOREM OneProcessorCorrect == Spec => []OneProcessor
<1>1. Init => TypeOK /\ ClaimInv
  BY TypeInit, ClaimInit
<1>2. TypeOK /\ ClaimInv /\ [Next]_vars => TypeOK' /\ ClaimInv'
  BY TypeStep, ClaimStep
<1>3. ClaimInv => OneProcessor
  BY DEF ClaimInv
<1>4. QED
  BY <1>1, <1>2, <1>3, PTL DEF Spec

---------------------------------------------------------------------------
(* Bytes and rows                                                          *)

LEMMA DataInit == Init => DataInv
<1> SUFFICES ASSUME Init PROVE DataInv
  OBVIOUS
<1>1. \A q \in Requests : request[q].phase = "idle"
  BY DEF Init, Idle
<1>2. \A f \in Files : payload[f] = NoPayload /\ (upload[f] = "processed" <=> f \in Legacy)
  BY DEF Init
<1>3. samples = {} /\ answered = {}
  BY DEF Init
<1>4. QED
  BY <1>1, <1>2, <1>3, LegacyAreFiles
     DEF DataInv, RowsAreRetained, AnsweredIsStored, Stored, Holding, Processing

(* A step that leaves the tables of uploads alone and moves q to a phase   *)
(* it has earned.                                                          *)
LEMMA DataKept ==
  ASSUME TypeOK, DataInv, UNCHANGED <<upload, payload, samples, answered>>,
         NEW q \in Requests, NEW phase, Moves(q, phase),
         phase # "duplicate",
         phase \in Holding => KeepsFile(q) /\ request[q].phase \in Holding,
         phase \in Stored \cup {"retained"} =>
           request[q].phase \in Stored \cup {"retained"},
         phase \in Stored => request[q].phase \in Stored
  PROVE  DataInv'
<1> USE DEF Stored, Holding, Processing
<1>1. \A p \in Requests :
        /\ request'[p].phase \in Holding =>
             /\ request[p].phase \in Holding
             /\ request'[p].file = request[p].file
             /\ request'[p].bytes = request[p].bytes
        /\ request'[p].phase \in Stored \cup {"retained"} =>
             request[p].phase \in Stored \cup {"retained"}
        /\ request'[p].phase \in Stored => request[p].phase \in Stored
        /\ request'[p].phase = "duplicate" => request'[p] = request[p]
  BY DEF Moves, KeepsFile
<1>2. \A p \in Requests : request'[p].phase \in Stored => Row(p)' \in samples'
  BY <1>1 DEF DataInv, Row
<1>3. RowsAreRetained' /\ AnsweredIsStored'
  BY DEF DataInv, RowsAreRetained, AnsweredIsStored
<1>4. \A p \in Requests : request'[p].phase \in Stored \cup {"retained"} =>
        payload'[request'[p].file] = request'[p].bytes
  BY <1>1 DEF DataInv
<1>5. \A f \in Legacy :
       /\ upload'[f] = "processed" /\ payload'[f] = NoPayload
       /\ \A p \in Requests : request'[p].phase \in Holding => request'[p].file # f
  BY <1>1 DEF DataInv
<1>6. \A p \in Requests : request'[p].phase = "duplicate" =>
       \/ request'[p].file \in Legacy
       \/ /\ payload'[request'[p].file] # NoPayload
          /\ [file |-> request'[p].file, bytes |-> payload'[request'[p].file]] \in samples'
  BY <1>1 DEF DataInv
<1>7. QED
  BY <1>2, <1>3, <1>4, <1>5, <1>6 DEF DataInv

(* A step that only adds rows of retained bytes, statuses and answers they *)
(* justify, and moves q from one phase of its file to another.             *)
LEMMA DataGrows ==
  ASSUME TypeOK, DataInv, NEW q \in Requests, NEW phase, Moves(q, phase),
         request[q].phase # "idle", phase # "duplicate",
         phase \in Holding => KeepsFile(q) /\ request[q].file \notin Legacy,
         samples \subseteq samples',
         \A f \in Files : payload[f] # NoPayload => payload'[f] = payload[f],
         \A f \in Legacy : payload'[f] = NoPayload /\ upload'[f] = "processed",
         \A s \in samples' : payload'[s.file] = s.bytes,
         phase \in Stored \cup {"retained"} =>
           payload'[request[q].file] = request[q].bytes,
         phase \in Stored => Row(q) \in samples',
         \A f \in Files : (upload'[f] = "processed" /\ payload'[f] # NoPayload) =>
            [file |-> f, bytes |-> payload'[f]] \in samples',
         \A f \in Files \ Legacy : upload'[f] = "processed" => payload'[f] # NoPayload,
         \A a \in answered' : a \in samples'
  PROVE  DataInv'
<1> USE DEF Stored, Holding, Processing
<1>1. \A p \in Requests : request[p].phase # "idle" =>
        request[p].file \in Files /\ request[p].bytes \in Payloads
  BY DEF TypeOK
<1>2. \A p \in Requests : p # q => request'[p] = request[p]
  BY DEF Moves
<1>3. request'[q].phase = phase
  BY DEF Moves
<1>4. RowsAreRetained' /\ AnsweredIsStored'
  BY DEF RowsAreRetained, AnsweredIsStored
<1>5. \A p \in Requests : request'[p].phase \in Stored => Row(p)' \in samples'
  BY <1>2, <1>3 DEF DataInv, Row, KeepsFile
<1>6. \A p \in Requests : request'[p].phase \in Stored \cup {"retained"} =>
        payload'[request'[p].file] = request'[p].bytes
  BY <1>1, <1>2, <1>3, NothingsAreNone DEF DataInv, KeepsFile
<1>7. \A f \in Legacy :
       /\ upload'[f] = "processed" /\ payload'[f] = NoPayload
       /\ \A p \in Requests : request'[p].phase \in Holding => request'[p].file # f
  BY <1>2, <1>3 DEF DataInv, KeepsFile
<1>8. \A p \in Requests : request'[p].phase = "duplicate" =>
       \/ request'[p].file \in Legacy
       \/ /\ payload'[request'[p].file] # NoPayload
          /\ [file |-> request'[p].file, bytes |-> payload'[request'[p].file]] \in samples'
  <2> SUFFICES ASSUME NEW p \in Requests, request'[p].phase = "duplicate",
                      request[p].file \notin Legacy
               PROVE  /\ payload'[request[p].file] # NoPayload
                      /\ [file |-> request[p].file,
                          bytes |-> payload'[request[p].file]] \in samples'
    BY <1>2, <1>3
  <2>1. request[p].phase = "duplicate"
    BY <1>2, <1>3
  <2>2. /\ payload[request[p].file] # NoPayload
        /\ [file |-> request[p].file, bytes |-> payload[request[p].file]] \in samples
    BY <2>1 DEF DataInv
  <2>3. payload'[request[p].file] = payload[request[p].file]
    BY <1>1, <2>1, <2>2
  <2>4. QED
    BY <2>2, <2>3
<1>9. QED
  BY <1>4, <1>5, <1>6, <1>7, <1>8 DEF DataInv

LEMMA DataStep ==
  ASSUME TypeOK, ClaimInv, DataInv, [Next]_vars
  PROVE  DataInv'
<1> USE DEF Stored, Holding, Processing
<1>0. /\ samples \subseteq Rows /\ answered \subseteq Rows
      /\ payload \in [Files -> Payloads \cup {NoPayload}]
      /\ upload \in [Files -> {"none", "processing", "processed", "failed"}]
      /\ \A q \in Requests : request[q].phase # "idle" =>
           request[q].file \in Files /\ request[q].bytes \in Payloads
  BY DEF TypeOK
<1>1. ASSUME NEW q \in Requests, NEW f \in Files, NEW b \in Payloads,
             Receive(q, f, b)
      PROVE  DataInv'
  BY <1>1, ReceiveEffect, DataKept DEF database, History
<1>2. ASSUME NEW q \in Requests, ClaimNew(q) \/ ClaimFailed(q)
      PROVE  DataInv'
  <2>1. CASE Moves(q, "exists") \/ Moves(q, "held")
    BY <1>2, <2>1, ClaimEffect, DataKept DEF History, Moves
  <2>2. CASE /\ upload[request[q].file] \in {"none", "failed"}
             /\ upload' = [upload EXCEPT ![request[q].file] = "processing"]
             /\ Moves(q, "claimed")
    <3>1. /\ KeepsFile(q) /\ request[q].phase # "idle"
          /\ UNCHANGED <<payload, samples, answered>>
      BY <1>2, ClaimEffect DEF History, ClaimNew, ClaimFailed, At
    <3>2. request[q].file \notin Legacy
      BY <2>2 DEF DataInv
    <3>3. \A f \in Files : upload'[f] = "processed" => upload[f] = "processed"
      BY <1>0, <2>2
    <3>4. \A f \in Legacy : upload'[f] = upload[f] /\ payload[f] = NoPayload
      BY <1>0, <2>2, <3>2, LegacyAreFiles DEF DataInv
    <3>5. /\ \A f \in Files : (upload'[f] = "processed" /\ payload'[f] # NoPayload) =>
                [file |-> f, bytes |-> payload'[f]] \in samples'
          /\ \A f \in Files \ Legacy : upload'[f] = "processed" => payload'[f] # NoPayload
      BY <3>1, <3>3 DEF DataInv
    <3>6. /\ \A s \in samples' : payload'[s.file] = s.bytes
          /\ \A a \in answered' : a \in samples'
      BY <3>1 DEF DataInv, RowsAreRetained, AnsweredIsStored
    <3>7. \A f \in Legacy : payload'[f] = NoPayload /\ upload'[f] = "processed"
      BY <3>1, <3>4 DEF DataInv
    <3>8. QED
      BY <2>2, <3>1, <3>2, <3>5, <3>6, <3>7, DataGrows
  <2>3. QED
    BY <1>2, <2>1, <2>2, ClaimEffect
<1>3. ASSUME NEW q \in Requests, LookAtClaim(q)
      PROVE  DataInv'
  <2>1. CASE Moves(q, "idle")
    BY <1>3, <2>1, LookEffect, DataKept DEF database, History
  <2>2. CASE Moves(q, "duplicate") /\ KeepsFile(q) /\ upload[request[q].file] = "processed"
    <3>1. UNCHANGED <<upload, payload, samples, answered>>
      BY <1>3, LookEffect DEF database, History
    <3>2. request[q].phase # "idle"
      BY <1>3 DEF LookAtClaim, At
    <3>3. \A p \in Requests : p # q => request'[p] = request[p]
      BY <2>2 DEF Moves
    <3>4. request'[q].phase = "duplicate" /\ request'[q].file = request[q].file
      BY <2>2 DEF Moves, KeepsFile
    <3>5. \A p \in Requests : request'[p].phase \in Stored => Row(p)' \in samples'
      BY <3>1, <3>3, <3>4 DEF DataInv, Row
    <3>6. QED
      BY <1>0, <2>2, <3>1, <3>2, <3>3, <3>4, <3>5 DEF DataInv, RowsAreRetained, AnsweredIsStored
  <2>3. QED
    BY <1>3, <2>1, <2>2, LookEffect
<1>4. ASSUME NEW q \in Requests, AnswerDuplicate(q)
      PROVE  DataInv'
  <2>1. /\ Moves(q, "idle") /\ request[q].phase = "duplicate"
        /\ UNCHANGED <<upload, payload, samples>>
        /\ answered' = IF payload[request[q].file] = request[q].bytes
                       THEN answered \cup {Row(q)} ELSE answered
    BY <1>4, AnswerEffect DEF database
  <2>2. \A a \in answered' : a \in samples'
    <3>1. CASE payload[request[q].file] = request[q].bytes
      <4>1. request[q].file \notin Legacy
        BY <1>0, <2>1, <3>1, NothingsAreNone DEF DataInv
      <4>2. Row(q) \in samples
        BY <2>1, <3>1, <4>1 DEF DataInv, Row
      <4>3. QED
        BY <2>1, <3>1, <4>2 DEF DataInv, AnsweredIsStored
    <3>2. CASE payload[request[q].file] # request[q].bytes
      BY <2>1, <3>2 DEF DataInv, AnsweredIsStored
    <3>3. QED
      BY <3>1, <3>2
  <2>3. QED
    BY <2>1, <2>2, DataGrows DEF DataInv, RowsAreRetained
<1>5. ASSUME NEW q \in Requests, RetainPayload(q)
      PROVE  DataInv'
  <2> DEFINE f == request[q].file
  <2>1. /\ KeepsFile(q) /\ request[q].phase = "claimed"
        /\ f \in Files /\ request[q].bytes \in Payloads
        /\ UNCHANGED <<upload, samples, answered>>
        /\ payload' = IF payload[f] = NoPayload
                      THEN [payload EXCEPT ![f] = request[q].bytes] ELSE payload
    BY <1>5, RetainEffect DEF History
  <2>2. f \notin Legacy /\ upload[f] = "processing"
    BY <2>1 DEF DataInv, ClaimInv
  <2>3. \A g \in Files : /\ payload[g] # NoPayload => payload'[g] = payload[g]
                         /\ g # f => payload'[g] = payload[g]
    BY <1>0, <2>1
  <2>4. \A s \in samples : payload'[s.file] = s.bytes
    BY <1>0, <2>3, NothingsAreNone DEF DataInv, RowsAreRetained, Rows
  <2>5. \A g \in Legacy : payload'[g] = NoPayload /\ upload'[g] = "processed"
    BY <2>1, <2>2, <2>3, LegacyAreFiles DEF DataInv
  <2>6. \A g \in Files : upload'[g] = "processed" => payload'[g] = payload[g]
    BY <2>1, <2>2, <2>3
  <2>7. \A a \in answered' : a \in samples'
    BY <2>1 DEF DataInv, AnsweredIsStored
  <2>8. \A g \in Files : (upload'[g] = "processed" /\ payload'[g] # NoPayload) =>
            [file |-> g, bytes |-> payload'[g]] \in samples'
    BY <2>1, <2>6 DEF DataInv
  <2>9. \A g \in Files \ Legacy : upload'[g] = "processed" => payload'[g] # NoPayload
    BY <2>1, <2>6 DEF DataInv
  <2>10. CASE Moves(q, "retained") /\ payload'[f] = request[q].bytes
    BY <2>1, <2>2, <2>3, <2>4, <2>5, <2>7, <2>8, <2>9, <2>10, DataGrows
  <2>11. CASE Moves(q, "failing")
    BY <2>1, <2>2, <2>3, <2>4, <2>5, <2>7, <2>8, <2>9, <2>11, DataGrows
  <2>12. QED
    BY <1>5, <2>10, <2>11, RetainEffect
<1>6. ASSUME NEW q \in Requests, StageRows(q)
      PROVE  DataInv'
  <2> DEFINE f == request[q].file
  <2>1. /\ Moves(q, "staged") /\ KeepsFile(q) /\ request[q].phase = "retained"
        /\ UNCHANGED <<upload, payload, answered>>
        /\ samples' = IF \E s \in samples : s.file = f
                      THEN samples ELSE samples \cup {Row(q)}
        /\ Row(q) \in Rows
    BY <1>6, StageEffect DEF History
  <2>2. f \notin Legacy /\ payload[f] = request[q].bytes
    BY <2>1 DEF DataInv
  <2>3. Row(q) \in samples'
    <3>1. CASE \E s \in samples : s.file = f
      <4>1. PICK s \in samples : s.file = f
        BY <3>1
      <4>2. s.bytes = request[q].bytes
        BY <2>2, <4>1 DEF DataInv, RowsAreRetained
      <4>3. s = Row(q)
        BY <1>0, <4>1, <4>2 DEF Rows, Row
      <4>4. QED
        BY <2>1, <4>3
    <3>2. QED
      BY <2>1, <3>1
  <2>4. samples \subseteq samples' /\ \A s \in samples' : payload'[s.file] = s.bytes
    BY <2>1, <2>2 DEF DataInv, RowsAreRetained, Row
  <2>5. \A g \in Legacy : payload'[g] = NoPayload /\ upload'[g] = "processed"
    BY <2>1 DEF DataInv
  <2>6. \A a \in answered' : a \in samples'
    BY <2>1, <2>4 DEF DataInv, AnsweredIsStored
  <2>7. /\ \A g \in Files : (upload'[g] = "processed" /\ payload'[g] # NoPayload) =>
              [file |-> g, bytes |-> payload'[g]] \in samples'
        /\ \A g \in Files \ Legacy : upload'[g] = "processed" => payload'[g] # NoPayload
    BY <2>1, <2>4 DEF DataInv
  <2>8. QED
    BY <2>1, <2>2, <2>3, <2>4, <2>5, <2>6, <2>7, DataGrows
<1>7. ASSUME NEW q \in Requests, SelectBaseRows(q)
      PROVE  DataInv'
  BY <1>7, SelectBaseEffect, DataKept DEF database, History
<1>8. ASSUME NEW q \in Requests, SelectRoverRows(q)
      PROVE  DataInv'
  BY <1>8, SelectRoverEffect, DataKept DEF database, History
<1>9. ASSUME NEW q \in Requests, Solve(q)
      PROVE  DataInv'
  BY <1>9, SolveEffect, DataKept DEF database, History
<1>10. ASSUME NEW q \in Requests, SolveNothing(q)
      PROVE  DataInv'
  BY <1>10, SolveNothingEffect, DataKept DEF database, History
<1>11. ASSUME NEW q \in Requests, StoreSolution(q)
      PROVE  DataInv'
  BY <1>11, StoreEffect, DataKept DEF database, History
<1>12. ASSUME NEW q \in Requests, Measure(q)
      PROVE  DataInv'
  BY <1>12, MeasureEffect, DataKept DEF database, History
<1>13. ASSUME NEW q \in Requests, MarkProcessed(q)
      PROVE  DataInv'
  <2> DEFINE f == request[q].file
  <2>1. /\ request[q].phase = "staged" /\ f \in Files
        /\ UNCHANGED <<payload, samples>>
        /\ upload' = [upload EXCEPT ![f] = "processed"]
        /\ answered' \subseteq answered \cup {Row(q)}
        /\ Moves(q, "idle") \/ (Moves(q, "failing") /\ KeepsFile(q))
    BY <1>13, MarkProcessedEffect
  <2>2. f \notin Legacy /\ payload[f] = request[q].bytes /\ Row(q) \in samples
    BY <2>1 DEF DataInv
  <2>3. \A g \in Files : g # f => upload'[g] = upload[g]
    BY <1>0, <2>1
  <2>4. \A g \in Legacy : payload'[g] = NoPayload /\ upload'[g] = "processed"
    BY <2>1, <2>2, <2>3, LegacyAreFiles DEF DataInv
  <2>5. \A a \in answered' : a \in samples'
    BY <2>1, <2>2 DEF DataInv, AnsweredIsStored
  <2>6. \A g \in Files : (upload'[g] = "processed" /\ payload'[g] # NoPayload) =>
            [file |-> g, bytes |-> payload'[g]] \in samples'
    BY <2>1, <2>2, <2>3 DEF DataInv, Row
  <2>7. \A g \in Files \ Legacy : upload'[g] = "processed" => payload'[g] # NoPayload
    BY <1>0, <2>1, <2>2, <2>3, NothingsAreNone DEF DataInv
  <2>8. QED
    BY <2>1, <2>2, <2>4, <2>5, <2>6, <2>7, DataGrows DEF DataInv, RowsAreRetained
<1>14. ASSUME NEW q \in Requests, MarkFailed(q)
      PROVE  DataInv'
  <2> DEFINE f == request[q].file
  <2>1. /\ Moves(q, "idle") /\ request[q].phase = "failing" /\ f \in Files
        /\ UNCHANGED <<payload, samples, answered>>
        /\ upload' = [upload EXCEPT ![f] = "failed"]
    BY <1>14, MarkFailedEffect DEF History
  <2>2. f \notin Legacy
    BY <2>1 DEF DataInv
  <2>3. \A g \in Files : upload'[g] = "processed" => upload[g] = "processed"
    BY <1>0, <2>1
  <2>4. \A g \in Legacy : payload'[g] = NoPayload /\ upload'[g] = "processed"
    BY <1>0, <2>1, <2>2, LegacyAreFiles DEF DataInv
  <2>5. QED
    BY <2>1, <2>2, <2>3, <2>4, DataGrows DEF DataInv, RowsAreRetained, AnsweredIsStored
<1>15. ASSUME NEW q \in Requests, Fault(q)
      PROVE  DataInv'
  <2>a. CASE upload' = upload
    BY <1>15, <2>a, FaultEffect, DataKept DEF Moves
  <2>b. CASE upload' # upload
    <3> DEFINE f == request[q].file
    <3>1. /\ request[q].phase = "staged" /\ f \in Files
          /\ UNCHANGED <<payload, samples>>
          /\ upload' = [upload EXCEPT ![f] = "processed"]
          /\ answered' \subseteq answered \cup {Row(q)}
          /\ Moves(q, "idle") \/ (Moves(q, "failing") /\ KeepsFile(q))
      BY <1>15, <2>b, FaultEffect
    <3>2. f \notin Legacy /\ payload[f] = request[q].bytes /\ Row(q) \in samples
      BY <3>1 DEF DataInv
    <3>3. \A g \in Files : g # f => upload'[g] = upload[g]
      BY <1>0, <3>1
    <3>4. \A g \in Legacy : payload'[g] = NoPayload /\ upload'[g] = "processed"
      BY <3>1, <3>2, <3>3, LegacyAreFiles DEF DataInv
    <3>5. \A a \in answered' : a \in samples'
      BY <3>1, <3>2 DEF DataInv, AnsweredIsStored
    <3>6. \A g \in Files : (upload'[g] = "processed" /\ payload'[g] # NoPayload) =>
              [file |-> g, bytes |-> payload'[g]] \in samples'
      BY <3>1, <3>2, <3>3 DEF DataInv, Row
    <3>7. \A g \in Files \ Legacy : upload'[g] = "processed" => payload'[g] # NoPayload
      BY <1>0, <3>1, <3>2, <3>3, NothingsAreNone DEF DataInv
    <3>8. QED
      BY <3>1, <3>2, <3>4, <3>5, <3>6, <3>7, DataGrows DEF DataInv, RowsAreRetained
  <2>c. QED
    BY <2>a, <2>b
<1>16. ASSUME NEW q \in Requests, Die(q)
      PROVE  DataInv'
  BY <1>16, DieEffect, DataKept DEF database, History
<1>17. CASE UNCHANGED vars
  BY <1>17 DEF vars, DataInv, RowsAreRetained, AnsweredIsStored, Row
<1>18. QED
  BY <1>1, <1>2, <1>3, <1>4, <1>5, <1>6, <1>7, <1>8, <1>9, <1>10, <1>11, <1>12, <1>13, <1>14, <1>15, <1>16, <1>17 DEF Next, HandlerStep

DataInductive == TypeOK /\ ClaimInv /\ DataInv

LEMMA DataAlways == Spec => []DataInductive
<1>1. Init => DataInductive
  BY TypeInit, ClaimInit, DataInit DEF DataInductive
<1>2. DataInductive /\ [Next]_vars => DataInductive'
  BY TypeStep, ClaimStep, DataStep DEF DataInductive
<1>3. QED
  BY <1>1, <1>2, PTL DEF Spec

(* RowsAreRetained: no row of other bytes than the retained ones, ever.    *)
THEOREM RowsCorrect == Spec => []RowsAreRetained
<1>1. DataInductive => RowsAreRetained
  BY DEF DataInductive, DataInv
<1>2. QED
  BY <1>1, DataAlways, PTL

(* AnsweredIsStored: a device that is told 200 may delete its file.        *)
THEOREM AnswersCorrect == Spec => []AnsweredIsStored
<1>1. DataInductive => AnsweredIsStored
  BY DEF DataInductive, DataInv
<1>2. QED
  BY <1>1, DataAlways, PTL

---------------------------------------------------------------------------
(* Runs and measurements                                                   *)

LEMMA RunInit == Init => RunInv
BY DEF Init, RunInv, MeasuredAsRecorded, Idle

LEMMA RunStep ==
  ASSUME TypeOK, RunInv, [Next]_vars
  PROVE  RunInv'
<1> USE DEF RunInv, MeasuredAsRecorded
<1>0. /\ solution \in [Rovers -> Runs] /\ measured \in [Rovers -> Runs]
      /\ \A q \in Requests :
       request[q].phase \in {"paired", "solving", "solved", "stored"} =>
         request[q].rover \in Rovers
  BY DEF TypeOK
<1>1. ASSUME NEW q \in Requests, NEW f \in Files, NEW b \in Payloads,
             Receive(q, f, b)
      PROVE  RunInv'
  BY <1>1, ReceiveEffect, <1>0 DEF Moves, KeepsWindow, database, History
<1>2. ASSUME NEW q \in Requests, ClaimNew(q) \/ ClaimFailed(q)
      PROVE  RunInv'
  BY <1>2, ClaimEffect, <1>0 DEF Moves, KeepsWindow, database, History
<1>3. ASSUME NEW q \in Requests, LookAtClaim(q)
      PROVE  RunInv'
  BY <1>3, LookEffect, <1>0 DEF Moves, KeepsWindow, database, History
<1>4. ASSUME NEW q \in Requests, AnswerDuplicate(q)
      PROVE  RunInv'
  BY <1>4, AnswerEffect, <1>0 DEF Moves, KeepsWindow, database, History
<1>5. ASSUME NEW q \in Requests, RetainPayload(q)
      PROVE  RunInv'
  BY <1>5, RetainEffect, <1>0 DEF Moves, KeepsWindow, database, History
<1>6. ASSUME NEW q \in Requests, StageRows(q)
      PROVE  RunInv'
  BY <1>6, StageEffect, <1>0 DEF Moves, KeepsWindow, database, History
<1>7. ASSUME NEW q \in Requests, SelectBaseRows(q)
      PROVE  RunInv'
  BY <1>7, SelectBaseEffect, <1>0 DEF Moves, KeepsWindow, database, History
<1>8. ASSUME NEW q \in Requests, SelectRoverRows(q)
      PROVE  RunInv'
  <2>1. \A p \in Requests : request'[p].phase \in {"solving", "solved", "stored"} =>
          request'[p].run # NoRun
    BY <1>8, SelectRoverEffect, NoRunTyped DEF Moves
  <2>2. \A p \in Requests : request'[p].phase = "stored" => request'[p] = request[p]
    BY <1>8, SelectRoverEffect DEF Moves
  <2>3. UNCHANGED <<solution, measured>>
    BY <1>8, SelectRoverEffect DEF database
  <2>4. QED
    BY <2>1, <2>2, <2>3
<1>9. ASSUME NEW q \in Requests, Solve(q)
      PROVE  RunInv'
  BY <1>9, SolveEffect, <1>0, ZenonT(40) DEF Moves, KeepsWindow, database, History
<1>10. ASSUME NEW q \in Requests, SolveNothing(q)
      PROVE  RunInv'
  BY <1>10, SolveNothingEffect, <1>0 DEF Moves, KeepsWindow, database, History
<1>11. ASSUME NEW q \in Requests, StoreSolution(q)
      PROVE  RunInv'
  BY <1>11, StoreEffect, <1>0 DEF Moves, KeepsWindow, database, History
<1>12. ASSUME NEW q \in Requests, Measure(q)
      PROVE  RunInv'
  BY <1>12, MeasureEffect, <1>0 DEF Moves, KeepsWindow, database, History
<1>13. ASSUME NEW q \in Requests, MarkProcessed(q)
      PROVE  RunInv'
  BY <1>13, MarkProcessedEffect, <1>0 DEF Moves, KeepsWindow, database, History
<1>14. ASSUME NEW q \in Requests, MarkFailed(q)
      PROVE  RunInv'
  BY <1>14, MarkFailedEffect, <1>0 DEF Moves, KeepsWindow, database, History
<1>15. ASSUME NEW q \in Requests, Fault(q)
      PROVE  RunInv'
  BY <1>15, FaultEffect, <1>0 DEF Moves, KeepsWindow, database, History
<1>16. ASSUME NEW q \in Requests, Die(q)
      PROVE  RunInv'
  BY <1>16, DieEffect, <1>0 DEF Moves, KeepsWindow, database, History
<1>17. CASE UNCHANGED vars
  BY <1>17 DEF vars, Moves, KeepsWindow, database, History
<1>18. QED
  BY <1>1, <1>2, <1>3, <1>4, <1>5, <1>6, <1>7, <1>8, <1>9, <1>10, <1>11, <1>12, <1>13, <1>14, <1>15, <1>16, <1>17 DEF Next, HandlerStep

(* MeasuredAsRecorded: whichever of two concurrent runs is first.          *)
THEOREM MeasurementsCorrect == Spec => []MeasuredAsRecorded
<1>1. Init => TypeOK /\ RunInv
  BY TypeInit, RunInit
<1>2. TypeOK /\ RunInv /\ [Next]_vars => TypeOK' /\ RunInv'
  BY TypeStep, RunStep
<1>3. RunInv => MeasuredAsRecorded
  BY DEF RunInv
<1>4. QED
  BY <1>1, <1>2, <1>3, PTL DEF Spec

---------------------------------------------------------------------------
(* Pairs                                                                   *)

LEMMA PairInit == Init => PairInv
<1> SUFFICES ASSUME Init PROVE PairInv
  OBVIOUS
<1>1. samples = {} /\ \A q \in Requests : request[q].phase = "idle"
  BY DEF Init, Idle
<1>2. QED
  BY <1>1 DEF PairInv, Staged

(* A step after which no upload has finished with a window that it had not *)
(* finished with, unless that window is done.                              *)
LEMMA PairKept ==
  ASSUME TypeOK, PairInv, samples' = samples,
         NEW q \in Requests, NEW phase, Moves(q, phase),
         \A r \in Rovers : Done(r) => Done(r)',
         \A h \in Files, r \in Rovers : Finished(h, r)' => Finished(h, r) \/ Done(r)',
         phase \in {"paired", "solving", "solved", "stored"} =>
           request'[q].rover \in request'[q].todo,
         phase = "paired" =>
           /\ KeepsFile(q) /\ request'[q].run.base = RowsOf(Base)
           /\ Sender[request[q].file] = Base => RowsOf(Base) # {}
  PROVE  PairInv'
<1>1. \A p \in Requests : p # q => request'[p] = request[p]
  BY DEF Moves
<1>2. request'[q].phase = phase
  BY DEF Moves
<1>3. \A p \in Requests :
       /\ request'[p].phase \in {"paired", "solving", "solved", "stored"} =>
            request'[p].rover \in request'[p].todo
       /\ (request'[p].phase = "paired" /\ Sender[request'[p].file] = Base) =>
            request'[p].run.base # {}
  BY <1>1, <1>2 DEF PairInv, KeepsFile
<1>4. ASSUME NEW f \in Files, NEW g \in Files, Sender[f] = Base, Sender[g] # Base,
             Staged(f)', Staged(g)'
      PROVE  /\ Done(Sender[g])' \/ ~Finished(f, Sender[g])' \/ ~Finished(g, Sender[g])'
             /\ \A p \in Requests :
                  (/\ request'[p].phase = "paired" /\ request'[p].file = g
                   /\ request'[p].run.base = {}) =>
                    Done(Sender[g])' \/ ~Finished(f, Sender[g])'
  <2>1. Staged(f) /\ Staged(g) /\ Sender[g] \in Rovers
    BY <1>4, SendersKnown DEF Staged
  <2>2. Done(Sender[g]) \/ ~Finished(f, Sender[g]) \/ ~Finished(g, Sender[g])
    BY <1>4, <2>1 DEF PairInv
  <2>3. RowsOf(Base) # {}
    BY <1>4, <2>1 DEF Staged, RowsOf
  <2>4. ASSUME NEW p \in Requests, request'[p].phase = "paired",
               request'[p].file = g, request'[p].run.base = {}
        PROVE  Done(Sender[g])' \/ ~Finished(f, Sender[g])'
    <3>1. p # q
      BY <1>2, <2>3, <2>4
    <3>2. Done(Sender[g]) \/ ~Finished(f, Sender[g])
      BY <1>1, <1>4, <2>1, <2>4, <3>1 DEF PairInv
    <3>3. QED
      BY <2>1, <3>2
  <2>5. QED
    BY <2>1, <2>2, <2>4
<1>5. QED
  BY <1>3, <1>4 DEF PairInv

(* A request that goes on, or ends, without finishing with a window.       *)
LEMMA NothingFinished ==
  ASSUME NEW q \in Requests, NEW phase, Moves(q, phase),
         \A f \in Files : upload'[f] = "processed" =>
           \/ upload[f] = "processed"
           \/ /\ f = request[q].file /\ request[q].phase = "staged"
              /\ request[q].todo = {},
         phase \in Stored => /\ KeepsFile(q) /\ request'[q].todo = request[q].todo
                             /\ request[q].phase \in Stored
  PROVE  \A h \in Files, r \in Rovers : Finished(h, r)' => Finished(h, r)
BY DEF Finished, Moves, KeepsFile, Stored

(* A request that finishes with the window of its rover.                   *)
LEMMA OneFinished ==
  ASSUME NEW q \in Requests, Moves(q, "staged"), upload' = upload,
         KeepsFile(q), request[q].phase \in Stored,
         request'[q].todo = request[q].todo \ {request[q].rover}
  PROVE  \A h \in Files, r \in Rovers : Finished(h, r)' =>
           Finished(h, r) \/ (h = request[q].file /\ r = request[q].rover)
BY DEF Finished, Moves, KeepsFile, Stored

LEMMA PairStep ==
  ASSUME TypeOK, ClaimInv, DataInv, RunInv, PairInv, [Next]_vars
  PROVE  PairInv'
<1> USE DEF Stored
<1>0. /\ samples \subseteq Rows
      /\ upload \in [Files -> {"none", "processing", "processed", "failed"}]
      /\ measured \in [Rovers -> Runs]
      /\ \A q \in Requests : request[q].phase # "idle" =>
           request[q].file \in Files /\ request[q].bytes \in Payloads
  BY DEF TypeOK
<1>1. ASSUME NEW q \in Requests, NEW f \in Files, NEW b \in Payloads,
             Receive(q, f, b)
      PROVE  PairInv'
  <2>1. \A r \in Rovers : Done(r) => Done(r)'
    BY <1>1, ReceiveEffect DEF Done, database, History
  <2>2. \A h \in Files, r \in Rovers : Finished(h, r)' => Finished(h, r)
    BY <1>1, <1>0, ReceiveEffect, NothingFinished DEF database, History
  <2>3. QED
    BY <1>1, <2>1, <2>2, ReceiveEffect, PairKept DEF database, History, KeepsWindow, PairInv, Moves
<1>2. ASSUME NEW q \in Requests, ClaimNew(q) \/ ClaimFailed(q)
      PROVE  PairInv'
  <2>1. \A r \in Rovers : Done(r) => Done(r)'
    BY <1>2, ClaimEffect DEF Done, database, History
  <2>2. \A h \in Files, r \in Rovers : Finished(h, r)' => Finished(h, r)
    BY <1>2, <1>0, ClaimEffect, NothingFinished DEF database, History
  <2>3. QED
    BY <1>2, <2>1, <2>2, ClaimEffect, PairKept DEF database, History, KeepsWindow, PairInv, Moves
<1>3. ASSUME NEW q \in Requests, LookAtClaim(q)
      PROVE  PairInv'
  <2>1. \A r \in Rovers : Done(r) => Done(r)'
    BY <1>3, LookEffect DEF Done, database, History
  <2>2. \A h \in Files, r \in Rovers : Finished(h, r)' => Finished(h, r)
    BY <1>3, <1>0, LookEffect, NothingFinished DEF database, History
  <2>3. QED
    BY <1>3, <2>1, <2>2, LookEffect, PairKept DEF database, History, KeepsWindow, PairInv, Moves
<1>4. ASSUME NEW q \in Requests, AnswerDuplicate(q)
      PROVE  PairInv'
  <2>1. \A r \in Rovers : Done(r) => Done(r)'
    BY <1>4, AnswerEffect DEF Done, database, History
  <2>2. \A h \in Files, r \in Rovers : Finished(h, r)' => Finished(h, r)
    BY <1>4, <1>0, AnswerEffect, NothingFinished DEF database, History
  <2>3. QED
    BY <1>4, <2>1, <2>2, AnswerEffect, PairKept DEF database, History, KeepsWindow, PairInv, Moves
<1>5. ASSUME NEW q \in Requests, RetainPayload(q)
      PROVE  PairInv'
  <2>1. \A r \in Rovers : Done(r) => Done(r)'
    BY <1>5, RetainEffect DEF Done, database, History
  <2>2. \A h \in Files, r \in Rovers : Finished(h, r)' => Finished(h, r)
    BY <1>5, <1>0, RetainEffect, NothingFinished DEF database, History
  <2>3. QED
    BY <1>5, <2>1, <2>2, RetainEffect, PairKept DEF database, History, KeepsWindow, PairInv, Moves
<1>6. ASSUME NEW q \in Requests, StageRows(q)
      PROVE  PairInv'
  <2> PICK h \in Files : h = request[q].file
    BY <1>6, <1>0, StageEffect
  <2>1. /\ Moves(q, "staged") /\ KeepsFile(q) /\ request[q].phase = "retained"
        /\ request'[q].todo = RoversOf(h)
        /\ UNCHANGED <<upload, measured, unsolved>>
        /\ samples' \subseteq samples \cup {Row(q)}
    BY <1>6, StageEffect DEF History
  <2>2. \A p \in Requests : p # q => request'[p] = request[p]
    BY <2>1 DEF Moves
  <2>3. request'[q].phase = "staged" /\ request'[q].file = h
    BY <2>1 DEF Moves, KeepsFile
  <2>4. \A r : Done(r)' <=> Done(r)
    BY <2>1 DEF Done
  <2>5. \A r \in RoversOf(h) : ~Finished(h, r)'
    <3>1. upload[h] = "processing"
      BY <2>1 DEF ClaimInv, Processing
    <3>2. \A p \in Requests : p # q =>
            ~(request[p].phase \in Stored /\ request[p].file = h)
      BY <2>1 DEF ClaimInv, OneProcessor, Holding, Processing
    <3>3. QED
      BY <2>1, <2>2, <2>3, <3>1, <3>2 DEF Finished
  <2>6. \A g \in Files : \A r : g # h => (Finished(g, r)' => Finished(g, r))
    BY <2>1, <2>2, <2>3 DEF Finished
  <2>7. \A g \in Files : g # h => (Staged(g)' => Staged(g))
    BY <2>1 DEF Staged, Row
  <2>8. \A p \in Requests : request'[p].phase = "paired" =>
          /\ p # q /\ request'[p] = request[p] /\ request[p].file # h
    BY <2>1, <2>2, <2>3 DEF ClaimInv, OneProcessor, Holding, Processing
  <2>9. ASSUME NEW f \in Files, NEW g \in Files, Sender[f] = Base, Sender[g] # Base,
               Staged(f)', Staged(g)'
        PROVE  /\ Done(Sender[g])' \/ ~Finished(f, Sender[g])' \/ ~Finished(g, Sender[g])'
               /\ \A p \in Requests :
                    (/\ request'[p].phase = "paired" /\ request'[p].file = g
                     /\ request'[p].run.base = {}) =>
                      Done(Sender[g])' \/ ~Finished(f, Sender[g])'
    <3>1. Sender[g] \in Rovers
      BY <2>9, SendersKnown
    <3>2. CASE f = h
      <4>1. Sender[g] \in RoversOf(h)
        BY <2>9, <3>1, <3>2 DEF RoversOf
      <4>2. QED
        BY <2>5, <3>2, <4>1
    <3>3. CASE g = h
      <4>1. Sender[g] \in RoversOf(h)
        BY <2>9, <3>3 DEF RoversOf
      <4>2. QED
        BY <2>5, <2>8, <3>3, <4>1
    <3>4. CASE f # h /\ g # h
      <4>1. Staged(f) /\ Staged(g)
        BY <2>7, <2>9, <3>4
      <4>2. QED
        BY <2>4, <2>6, <2>8, <2>9, <3>4, <4>1 DEF PairInv
    <3>5. QED
      BY <3>2, <3>3, <3>4
  <2>10. \A p \in Requests :
          /\ request'[p].phase \in {"paired", "solving", "solved", "stored"} =>
               request'[p].rover \in request'[p].todo
          /\ (request'[p].phase = "paired" /\ Sender[request'[p].file] = Base) =>
               request'[p].run.base # {}
    BY <2>2, <2>3 DEF PairInv
  <2>11. QED
    BY <2>9, <2>10 DEF PairInv
<1>7. ASSUME NEW q \in Requests, SelectBaseRows(q)
      PROVE  PairInv'
  <2>1. \A r \in Rovers : Done(r) => Done(r)'
    BY <1>7, SelectBaseEffect DEF Done, database, History
  <2>2. \A h \in Files, r \in Rovers : Finished(h, r)' => Finished(h, r)
    BY <1>7, SelectBaseEffect, NothingFinished DEF database
  <2>3. Sender[request[q].file] = Base => RowsOf(Base) # {}
    <3>1. request[q].phase = "staged"
      BY <1>7, SelectBaseEffect
    <3>2. Row(q) \in samples
      BY <3>1 DEF DataInv
    <3>3. QED
      BY <3>2 DEF Row, RowsOf
  <2>4. QED
    BY <1>7, <2>1, <2>2, <2>3, SelectBaseEffect, PairKept DEF database
<1>8. ASSUME NEW q \in Requests, SelectRoverRows(q)
      PROVE  PairInv'
  <2>0. /\ UNCHANGED <<upload, samples, measured, unsolved>>
        /\ KeepsFile(q) /\ request[q].phase = "paired"
    BY <1>8, SelectRoverEffect DEF database, History
  <2>1. \A r : Done(r)' <=> Done(r)
    BY <2>0 DEF Done
  <2>2. CASE Moves(q, "solving") /\ request'[q].todo = request[q].todo
             /\ request'[q].rover = request[q].rover
    <3>1. \A h \in Files, r \in Rovers : Finished(h, r)' => Finished(h, r)
      BY <2>0, <2>2, NothingFinished
    <3>2. request'[q].rover \in request'[q].todo
      BY <2>0, <2>2 DEF PairInv
    <3>3. QED
      BY <2>0, <2>1, <2>2, <3>1, <3>2, PairKept
  <2>3. CASE /\ request[q].run.base = {} \/ RowsOf(request[q].rover) = {}
             /\ Moves(q, "staged")
             /\ request'[q].todo = request[q].todo \ {request[q].rover}
    <3> DEFINE h == request[q].file
    <3>1. \A g \in Files, r \in Rovers : Finished(g, r)' =>
            Finished(g, r) \/ (g = h /\ r = request[q].rover)
      BY <2>0, <2>3, OneFinished
    <3>2. \A p \in Requests : request'[p].phase # "staged" => request'[p] = request[p]
      BY <2>3 DEF Moves
    <3>3. Row(q) \in samples /\ Row(q).file = h /\ h \in Files
      BY <1>0, <2>0 DEF DataInv, Row
    <3>4. ASSUME NEW f \in Files, NEW g \in Files, Sender[f] = Base,
                 Sender[g] # Base, Staged(f)', Staged(g)'
          PROVE  /\ Done(Sender[g])' \/ ~Finished(f, Sender[g])' \/ ~Finished(g, Sender[g])'
                 /\ \A p \in Requests :
                      (/\ request'[p].phase = "paired" /\ request'[p].file = g
                       /\ request'[p].run.base = {}) =>
                        Done(Sender[g])' \/ ~Finished(f, Sender[g])'
      <4>1. Staged(f) /\ Staged(g) /\ Sender[g] \in Rovers
        BY <2>0, <3>4, SendersKnown DEF Staged
      <4>2. RowsOf(Sender[g]) # {}
        BY <4>1 DEF Staged, RowsOf
      <4>3. /\ Done(Sender[g]) \/ ~Finished(f, Sender[g]) \/ ~Finished(g, Sender[g])
            /\ \A p \in Requests :
                 (/\ request[p].phase = "paired" /\ request[p].file = g
                  /\ request[p].run.base = {}) =>
                   Done(Sender[g]) \/ ~Finished(f, Sender[g])
        BY <3>4, <4>1 DEF PairInv
      <4>4. f = h => request[q].rover # Sender[g]
        BY <2>0, <2>3, <3>4, <4>2 DEF PairInv
      <4>5. Finished(f, Sender[g])' => Finished(f, Sender[g])
        BY <3>1, <4>1, <4>4
      <4>6. CASE g = h /\ request[q].rover = Sender[g]
        <5>1. request[q].run.base = {}
          BY <2>3, <4>2, <4>6
        <5>2. Done(Sender[g]) \/ ~Finished(f, Sender[g])
          BY <2>0, <4>3, <4>6, <5>1
        <5>3. QED
          BY <2>1, <4>5, <5>2
      <4>7. CASE ~(g = h /\ request[q].rover = Sender[g])
        <5>1. Finished(g, Sender[g])' => Finished(g, Sender[g])
          BY <3>1, <4>1, <4>7
        <5>2. QED
          BY <2>1, <3>2, <4>3, <4>5, <5>1
      <4>8. QED
        BY <4>6, <4>7
    <3>5. \A p \in Requests :
            /\ request'[p].phase \in {"paired", "solving", "solved", "stored"} =>
                 request'[p].rover \in request'[p].todo
            /\ (request'[p].phase = "paired" /\ Sender[request'[p].file] = Base) =>
                 request'[p].run.base # {}
      BY <3>2 DEF PairInv
    <3>6. QED
      BY <3>4, <3>5 DEF PairInv
  <2>4. QED
    BY <1>8, <2>2, <2>3, SelectRoverEffect
<1>9. ASSUME NEW q \in Requests, Solve(q)
      PROVE  PairInv'
  <2>1. \A r \in Rovers : Done(r) => Done(r)'
    BY <1>9, SolveEffect DEF Done, database, History
  <2>2. \A h \in Files, r \in Rovers : Finished(h, r)' => Finished(h, r)
    BY <1>9, SolveEffect, NothingFinished DEF KeepsWindow
  <2>3. request'[q].rover \in request'[q].todo
    BY <1>9, SolveEffect DEF KeepsWindow, PairInv
  <2>4. samples' = samples /\ Moves(q, "solved")
    BY <1>9, SolveEffect
  <2>5. QED
    BY <2>1, <2>2, <2>3, <2>4, PairKept
<1>10. ASSUME NEW q \in Requests, SolveNothing(q)
      PROVE  PairInv'
  <2>1. \A r \in Rovers : Done(r) \/ r = request[q].rover => Done(r)'
    BY <1>10, SolveNothingEffect DEF Done
  <2>2. \A h \in Files, r \in Rovers : Finished(h, r)' => Finished(h, r) \/ Done(r)'
    <3>1. /\ Moves(q, "staged") /\ upload' = upload /\ KeepsFile(q)
          /\ request[q].phase \in Stored
          /\ request'[q].todo = request[q].todo \ {request[q].rover}
      BY <1>10, SolveNothingEffect
    <3>2. \A h \in Files, r \in Rovers : Finished(h, r)' =>
            Finished(h, r) \/ (h = request[q].file /\ r = request[q].rover)
      BY <3>1, OneFinished
    <3>3. QED
      BY <2>1, <3>2
  <2>3. QED
    BY <1>10, <2>1, <2>2, SolveNothingEffect, PairKept
<1>11. ASSUME NEW q \in Requests, StoreSolution(q)
      PROVE  PairInv'
  <2>1. \A r \in Rovers : Done(r) => Done(r)'
    BY <1>11, StoreEffect DEF Done, database, History
  <2>2. \A h \in Files, r \in Rovers : Finished(h, r)' => Finished(h, r)
    <3>1. KeepsFile(q) /\ request'[q].todo = request[q].todo /\ upload' = upload
          /\ request[q].phase \in Stored
      BY <1>11, StoreEffect DEF KeepsWindow
    <3>2. Moves(q, "stored") \/ Moves(q, "failing")
      BY <1>11, StoreEffect
    <3>3. QED
      BY <3>1, <3>2, NothingFinished
  <2>3. request'[q].rover \in request'[q].todo
    BY <1>11, StoreEffect DEF KeepsWindow, PairInv
  <2>4. samples' = samples /\ (Moves(q, "stored") \/ Moves(q, "failing"))
    BY <1>11, StoreEffect
  <2>5. QED
    BY <2>1, <2>2, <2>3, <2>4, PairKept
<1>12. ASSUME NEW q \in Requests, Measure(q)
      PROVE  PairInv'
  <2>1. request[q].run # NoRun
    BY <1>12, MeasureEffect DEF RunInv
  <2>2. \A r \in Rovers : Done(r) \/ r = request[q].rover => Done(r)'
    BY <1>12, <1>0, <2>1, MeasureEffect DEF Done, History
  <2>3. \A h \in Files, r \in Rovers : Finished(h, r)' => Finished(h, r) \/ Done(r)'
    <3>1. /\ Moves(q, "staged") /\ upload' = upload /\ KeepsFile(q)
          /\ request[q].phase \in Stored
          /\ request'[q].todo = request[q].todo \ {request[q].rover}
      BY <1>12, MeasureEffect
    <3>2. \A h \in Files, r \in Rovers : Finished(h, r)' =>
            Finished(h, r) \/ (h = request[q].file /\ r = request[q].rover)
      BY <3>1, OneFinished
    <3>3. QED
      BY <2>2, <3>2
  <2>4. QED
    BY <1>12, <2>2, <2>3, MeasureEffect, PairKept
<1>13. ASSUME NEW q \in Requests, MarkProcessed(q)
      PROVE  PairInv'
  <2>1. \A r \in Rovers : Done(r) => Done(r)'
    BY <1>13, MarkProcessedEffect DEF Done, database, History
  <2>2. \A h \in Files, r \in Rovers : Finished(h, r)' => Finished(h, r)
    BY <1>13, <1>0, MarkProcessedEffect, NothingFinished DEF database, History
  <2>3. QED
    BY <1>13, <2>1, <2>2, MarkProcessedEffect, PairKept DEF database, History, KeepsWindow, PairInv, Moves
<1>14. ASSUME NEW q \in Requests, MarkFailed(q)
      PROVE  PairInv'
  <2>1. \A r \in Rovers : Done(r) => Done(r)'
    BY <1>14, MarkFailedEffect DEF Done, database, History
  <2>2. \A h \in Files, r \in Rovers : Finished(h, r)' => Finished(h, r)
    BY <1>14, <1>0, MarkFailedEffect, NothingFinished DEF database, History
  <2>3. QED
    BY <1>14, <2>1, <2>2, MarkFailedEffect, PairKept DEF database, History, KeepsWindow, PairInv, Moves
<1>15. ASSUME NEW q \in Requests, Fault(q)
      PROVE  PairInv'
  <2>1. \A r \in Rovers : Done(r) => Done(r)'
    BY <1>15, FaultEffect DEF Done, database, History
  <2>2. \A h \in Files, r \in Rovers : Finished(h, r)' => Finished(h, r)
    BY <1>15, <1>0, FaultEffect, NothingFinished DEF database, History
  <2>3. QED
    BY <1>15, <2>1, <2>2, FaultEffect, PairKept DEF database, History, KeepsWindow, PairInv, Moves
<1>16. ASSUME NEW q \in Requests, Die(q)
      PROVE  PairInv'
  <2>1. \A r \in Rovers : Done(r) => Done(r)'
    BY <1>16, DieEffect DEF Done, database, History
  <2>2. \A h \in Files, r \in Rovers : Finished(h, r)' => Finished(h, r)
    BY <1>16, <1>0, DieEffect, NothingFinished DEF database, History
  <2>3. QED
    BY <1>16, <2>1, <2>2, DieEffect, PairKept DEF database, History, KeepsWindow, PairInv, Moves
<1>17. CASE UNCHANGED vars
  BY <1>17 DEF vars, PairInv, Staged, Done, Finished
<1>18. QED
  BY <1>1, <1>2, <1>3, <1>4, <1>5, <1>6, <1>7, <1>8, <1>9, <1>10, <1>11, <1>12, <1>13, <1>14, <1>15, <1>16, <1>17 DEF Next, HandlerStep

PairInductive == DataInductive /\ RunInv /\ PairInv

(* PairsAreSolved: for any number of rovers and files, in any order.       *)
THEOREM PairsCorrect == Spec => []PairsAreSolved
<1>1. Init => PairInductive
  BY TypeInit, ClaimInit, DataInit, RunInit, PairInit DEF PairInductive, DataInductive
<1>2. PairInductive /\ [Next]_vars => PairInductive'
  BY TypeStep, ClaimStep, DataStep, RunStep, PairStep DEF PairInductive, DataInductive
<1>3. PairInductive => PairsAreSolved
  <2> SUFFICES ASSUME PairInductive, NEW f \in Files, NEW g \in Files,
                      upload[f] = "processed", upload[g] = "processed",
                      f \notin Legacy, g \notin Legacy,
                      Sender[f] = Base, Sender[g] # Base
               PROVE  Done(Sender[g])
    BY DEF PairsAreSolved, Done
  <2>1. Staged(f) /\ Staged(g)
    BY DEF PairInductive, DataInductive, DataInv, Staged
  <2>2. Finished(f, Sender[g]) /\ Finished(g, Sender[g])
    BY DEF Finished
  <2>3. QED
    BY <2>1, <2>2 DEF PairInductive, PairInv
<1>4. QED
  BY <1>1, <1>2, <1>3, PTL DEF Spec

=============================================================================
