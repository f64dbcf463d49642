-------------------------- MODULE TriggerReconciler --------------------------
(***************************************************************************)
(* One scan of the reconciler daemon over the triggers of all BASE         *)
(* stations: reconcile_once of blast_timeout_reconciler.py, which pages    *)
(* through the active rows in the order of (updated_at, device_id) and     *)
(* handles each in a transaction of its own, while operators start and     *)
(* reset triggers between any two of its statements.                       *)
(*                                                                         *)
(* Each START, RESET and expiry is one step here: BlastControl shows that  *)
(* the transactions of one trigger implement exactly that.                 *)
(***************************************************************************)
EXTENDS Integers, FiniteSets

CONSTANTS
  Bases,        (* device_id of the stations, as numbers: ORDER BY compares *)
  Timeout,      (* TimeOutTrigger of each station                           *)
  Limit,        (* rows per page                                            *)
  Lag,          (* a START may be stamped this much before it commits       *)
  MaxClock,     (* bound: last instant explored                             *)
  MaxCommands,  (* bound: STARTs and RESETs given                           *)
  MaxFailures   (* bound: scans that end in an exception                    *)

ASSUME BasesAreNumbers == Bases \subseteq Nat /\ IsFiniteSet(Bases)
ASSUME TimeoutsPositive == Timeout \in [Bases -> Nat \ {0}]
ASSUME LimitPositive == Limit \in Nat \ {0}
ASSUME BoundsAreNat == {Lag, MaxClock, MaxCommands, MaxFailures} \subseteq Nat

VARIABLES
  clock,
  row,       (* TriggerStart of every station: is it ON, and since when     *)
  phase,     (* "idle", or the scan "fetch"es a page or "visit"s its rows   *)
  cursor,    (* key of the last row of the last page                        *)
  page,      (* rows of the page not yet visited, with the key fetched      *)
  full,      (* the page held Limit rows: another one follows               *)
  visited,   (* history: rows this scan has had in a transaction            *)
  steady,    (* history: rows ON since before the scan and unchanged        *)
  commands,
  failures

vars == <<clock, row, phase, cursor, page, full, visited, steady, commands,
          failures>>

Key(b) == [updated_at |-> row[b].since, device_id |-> b]

(* (updated_at, device_id) > (x, y), as PostgreSQL compares rows.          *)
After(k, l) ==
  \/ k.updated_at > l.updated_at
  \/ k.updated_at = l.updated_at /\ k.device_id > l.device_id

Active == {b \in Bases : row[b].on}

Overdue(b) == row[b].on /\ clock >= row[b].since + Timeout[b]

(* Before every key.                                                       *)
NoCursor == [updated_at |-> -1, device_id |-> -1]

TypeOK ==
  /\ clock \in Nat
  /\ row \in [Bases -> [on : BOOLEAN, since : Nat]]
  /\ phase \in {"idle", "fetch", "visit"}
  /\ cursor \in [updated_at : Int, device_id : Int]
  /\ page \subseteq [updated_at : Nat, device_id : Bases]
  /\ full \in BOOLEAN
  /\ visited \subseteq Bases
  /\ steady \subseteq Bases
  /\ commands \in Nat
  /\ failures \in Nat

Init ==
  /\ clock = 0
  /\ row = [b \in Bases |-> [on |-> FALSE, since |-> 0]]
  /\ phase = "idle"
  /\ cursor = NoCursor
  /\ page = {}
  /\ full = FALSE
  /\ visited = {}
  /\ steady = {}
  /\ commands = 0
  /\ failures = 0

---------------------------------------------------------------------------
(* Commands of operators, and time                                         *)

Start(b, since) ==
  /\ commands < MaxCommands
  /\ since <= clock /\ clock - since <= Lag
  /\ row' = [row EXCEPT ![b] = [on |-> TRUE, since |-> since]]
  /\ steady' = steady \ {b}
  /\ commands' = commands + 1
  /\ UNCHANGED <<clock, phase, cursor, page, full, visited, failures>>

Reset(b) ==
  /\ commands < MaxCommands
  /\ row' = [row EXCEPT ![b] = [on |-> FALSE, since |-> clock]]
  /\ steady' = steady \ {b}
  /\ commands' = commands + 1
  /\ UNCHANGED <<clock, phase, cursor, page, full, visited, failures>>

Tick ==
  /\ clock < MaxClock
  /\ clock' = clock + 1
  /\ UNCHANGED <<row, phase, cursor, page, full, visited, steady, commands,
                 failures>>

---------------------------------------------------------------------------
(* The scan                                                                *)

Begin ==
  /\ phase = "idle"
  /\ phase' = "fetch"
  /\ cursor' = NoCursor
  /\ visited' = {}
  /\ steady' = Active
  /\ UNCHANGED <<clock, row, page, full, commands, failures>>

(* Mutant: the cursor holds the time stamp alone.                          *)
CandidatesAfterTime ==
  {Key(b) : b \in {c \in Active : row[c].since > cursor.updated_at}}

Candidates == {Key(b) : b \in {c \in Active : After(Key(c), cursor)}}

(* ORDER BY updated_at, device_id LIMIT Limit                              *)
Pages ==
  {p \in SUBSET Candidates :
     /\ Cardinality(p) <= Limit
     /\ Cardinality(p) = Limit \/ p = Candidates
     /\ \A k \in p, l \in Candidates \ p : After(l, k)}

(* Mutant: the scan ends with its first page.                              *)
FetchOnce ==
  /\ phase = "fetch"
  /\ cursor = NoCursor
  /\ Candidates # {}
  /\ \E p \in Pages, last \in Candidates :
       /\ last \in p /\ \A k \in p : ~After(k, last)
       /\ page' = p
       /\ cursor' = last
       /\ full' = FALSE
  /\ phase' = "visit"
  /\ UNCHANGED <<clock, row, visited, steady, commands, failures>>

Fetch ==
  /\ phase = "fetch"
  /\ Candidates # {}
  /\ \E p \in Pages, last \in Candidates :
       /\ last \in p /\ \A k \in p : ~After(k, last)
       /\ page' = p
       /\ cursor' = last
       /\ full' = (Cardinality(p) = Limit)
  /\ phase' = "visit"
  /\ UNCHANGED <<clock, row, visited, steady, commands, failures>>

(* expire_one_on_conn decides on the row as it is now, not as it was       *)
(* fetched.                                                                *)
Visit ==
  /\ phase = "visit"
  /\ \E k \in page :
       /\ \A l \in page \ {k} : After(l, k)
       /\ page' = page \ {k}
       /\ visited' = visited \cup {k.device_id}
       /\ IF Overdue(k.device_id)
          THEN row' = [row EXCEPT ![k.device_id] = [on |-> FALSE, since |-> clock]]
          ELSE UNCHANGED row
  /\ UNCHANGED <<clock, phase, cursor, full, steady, commands, failures>>

(* Mutant: the cursor is lost between two pages.                           *)
EndPageRewind ==
  /\ phase = "visit"
  /\ page = {}
  /\ phase' = IF full THEN "fetch" ELSE "idle"
  /\ cursor' = NoCursor
  /\ UNCHANGED <<clock, row, page, full, visited, steady, commands, failures>>

(* Fewer than Limit rows: the last page.                                   *)
EndPage ==
  /\ phase = "visit"
  /\ page = {}
  /\ phase' = IF full THEN "fetch" ELSE "idle"
  /\ UNCHANGED <<clock, row, cursor, page, full, visited, steady, commands,
                 failures>>

EndScan ==
  /\ phase = "fetch"
  /\ Candidates = {}
  /\ phase' = "idle"
  /\ UNCHANGED <<clock, row, cursor, page, full, visited, steady, commands,
                 failures>>

(* An exception anywhere ends the scan; _main starts another one later.    *)
Fail ==
  /\ phase # "idle"
  /\ failures < MaxFailures
  /\ failures' = failures + 1
  /\ phase' = "idle"
  /\ page' = {}
  /\ visited' = {}
  /\ steady' = {}
  /\ UNCHANGED <<clock, row, cursor, full, commands>>

ScanStep == Begin \/ Fetch \/ Visit \/ EndPage \/ EndScan

Next ==
  \/ \E b \in Bases : Reset(b) \/ \E s \in 0 .. clock : Start(b, s)
  \/ Tick
  \/ ScanStep
  \/ Fail

Spec == Init /\ [][Next]_vars

(* The daemon scans for ever and the clock runs; operators may do nothing. *)
FairSpec == Spec /\ WF_vars(ScanStep) /\ WF_vars(Tick)

---------------------------------------------------------------------------
(* A scan that ends has had in a transaction every trigger that was ON     *)
(* when it began and was not touched since, however rows before it are     *)
(* reset or restarted between its pages.                                   *)
ScanMissesNothing == phase = "idle" => steady \subseteq visited

(* No trigger is handled twice by one scan unless it was restarted.        *)
NoRevisit ==
  [][\A b \in steady : (b \in visited /\ phase = "fetch") =>
       \A k \in page' : k.device_id # b]_vars

(* A page of triggers that are not due never starves a later one that is:  *)
(* every overdue trigger is turned OFF or started anew.                    *)
OverdueEnds ==
  \A b \in Bases : \A s \in 0 .. MaxClock :
    (Overdue(b) /\ row[b].since = s) ~> ~(row[b].on /\ row[b].since = s)
=============================================================================
