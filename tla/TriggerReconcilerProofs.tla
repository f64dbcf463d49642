----------------------- MODULE TriggerReconcilerProofs -----------------------
(***************************************************************************)
(* Keyset pagination misses nothing, for any stations, timeouts and page   *)
(* size, and however commands interleave with the scan.                    *)
(***************************************************************************)
EXTENDS TriggerReconciler, TLAPS

(* What the scan still owes to the rows that have not been touched.        *)
ScanInv ==
  /\ phase \in {"fetch", "visit"} => \A b \in steady \ visited :
       /\ row[b].on
       /\ \/ After(Key(b), cursor)
          \/ phase = "visit" /\ Key(b) \in page
  /\ phase = "visit" /\ ~full => \A b \in steady \ visited : Key(b) \in page
  /\ phase = "idle" => steady \subseteq visited

LEMMA TypeInit == Init => TypeOK
<1> SUFFICES ASSUME Init PROVE TypeOK
  OBVIOUS
<1>1. row \in [Bases -> [on : BOOLEAN, since : Nat]]
  BY DEF Init
<1>2. cursor \in [updated_at : Int, device_id : Int]
  BY DEF Init, NoCursor
<1>3. QED
  BY <1>1, <1>2 DEF Init, TypeOK

LEMMA KeyTyped ==
  ASSUME TypeOK, NEW b \in Bases
  PROVE  Key(b) \in [updated_at : Nat, device_id : Bases]
BY DEF TypeOK, Key

LEMMA TypeStep ==
  ASSUME TypeOK, [Next]_vars
  PROVE  TypeOK'
<1> USE DEF TypeOK
<1>1. ASSUME NEW b \in Bases, NEW s \in 0 .. clock, Start(b, s)
      PROVE  TypeOK'
  BY <1>1 DEF Start
<1>2. ASSUME NEW b \in Bases, Reset(b)
      PROVE  TypeOK'
  BY <1>2 DEF Reset
<1>3. CASE Tick
  BY <1>3 DEF Tick
<1>4. CASE Begin
  BY <1>4 DEF Begin, NoCursor, Active
<1>5. CASE Fetch
  <2>1. Candidates \subseteq [updated_at : Nat, device_id : Bases]
    BY KeyTyped DEF Candidates, Active
  <2>2. PICK p \in Pages, last \in Candidates :
          /\ page' = p
          /\ cursor' = last
          /\ full' = (Cardinality(p) = Limit)
    BY <1>5 DEF Fetch
  <2>3. page' \subseteq [updated_at : Nat, device_id : Bases]
    BY <2>1, <2>2 DEF Pages
  <2>4. cursor' \in [updated_at : Int, device_id : Int]
    <3>1. PICK c \in Bases : last = Key(c)
      BY DEF Candidates, Active
    <3>2. c \in Int /\ row[c].since \in Int
      BY BasesAreNumbers
    <3>3. last \in [updated_at : Int, device_id : Int]
      BY <3>1, <3>2 DEF Key
    <3>4. QED
      BY <2>2, <3>3
  <2>5. full' \in BOOLEAN
    BY <2>2
  <2>6. QED
    BY <1>5, <2>3, <2>4, <2>5 DEF Fetch
<1>6. CASE Visit
  <2>1. PICK k \in page :
          /\ page' = page \ {k}
          /\ visited' = visited \cup {k.device_id}
          /\ IF Overdue(k.device_id)
             THEN row' = [row EXCEPT ![k.device_id] = [on |-> FALSE, since |-> clock]]
             ELSE UNCHANGED row
    BY <1>6 DEF Visit
  <2>2. k.device_id \in Bases
    BY <2>1
  <2>3. row' \in [Bases -> [on : BOOLEAN, since : Nat]]
    <3>1. [on |-> FALSE, since |-> clock] \in [on : BOOLEAN, since : Nat]
      OBVIOUS
    <3>2. CASE Overdue(k.device_id)
      BY <2>1, <2>2, <3>1, <3>2
    <3>3. CASE ~Overdue(k.device_id)
      BY <2>1, <3>3
    <3>4. QED
      BY <3>2, <3>3
  <2>4. QED
    BY <1>6, <2>1, <2>2, <2>3 DEF Visit
<1>7. CASE EndPage
  BY <1>7 DEF EndPage
<1>8. CASE EndScan
  BY <1>8 DEF EndScan
<1>9. CASE Fail
  BY <1>9 DEF Fail
<1>10. CASE UNCHANGED vars
  BY <1>10 DEF vars
<1>11. QED
  BY <1>1, <1>2, <1>3, <1>4, <1>5, <1>6, <1>7, <1>8, <1>9, <1>10
     DEF Next, ScanStep

LEMMA ScanInit == Init => ScanInv
BY DEF Init, ScanInv

LEMMA ScanStepKeepsInv ==
  ASSUME TypeOK, ScanInv, [Next]_vars
  PROVE  ScanInv'
<1>1. ASSUME NEW c \in Bases,
             UNCHANGED <<phase, cursor, page, full, visited>>,
             steady' = steady \ {c},
             \A b \in Bases \ {c} : row'[b] = row[b]
      PROVE  ScanInv'
  <2>1. \A b \in steady' : b \in Bases \ {c} /\ b \in steady
    BY <1>1 DEF TypeOK
  <2>2. \A b \in steady' : row'[b] = row[b] /\ Key(b)' = Key(b)
    BY <1>1, <2>1 DEF Key
  <2>3. QED
    BY <1>1, <2>1, <2>2 DEF ScanInv
<1>2. ASSUME NEW b \in Bases, NEW s \in 0 .. clock, Start(b, s)
      PROVE  ScanInv'
  BY <1>1, <1>2 DEF Start, TypeOK
<1>3. ASSUME NEW b \in Bases, Reset(b)
      PROVE  ScanInv'
  BY <1>1, <1>3 DEF Reset, TypeOK
<1>4. CASE Tick
  BY <1>4 DEF Tick, ScanInv, Key
<1>5. CASE Begin
  <2>1. ASSUME NEW b \in Active
        PROVE  After(Key(b), NoCursor)
    BY <2>1 DEF Active, After, Key, NoCursor, TypeOK
  <2>2. /\ phase' = "fetch" /\ cursor' = NoCursor /\ steady' = Active
        /\ row' = row /\ visited' = {}
    BY <1>5 DEF Begin
  <2>3. \A b : Key(b)' = Key(b)
    BY <2>2 DEF Key
  <2>4. QED
    BY <2>1, <2>2, <2>3 DEF ScanInv, Active
<1>6. CASE Fetch
  <2>1. PICK p \in Pages, last \in Candidates :
          /\ last \in p
          /\ page' = p
          /\ cursor' = last
          /\ full' = (Cardinality(p) = Limit)
    BY <1>6 DEF Fetch
  <2>2. UNCHANGED <<row, steady, visited>> /\ phase = "fetch" /\ phase' = "visit"
    BY <1>6 DEF Fetch
  <2>3. ASSUME NEW b \in steady \ visited
        PROVE  row[b].on /\ Key(b) \in Candidates
    BY <2>2 DEF ScanInv, Candidates, Active, TypeOK
  <2>4. ASSUME NEW b \in steady \ visited
        PROVE  After(Key(b), last) \/ Key(b) \in p
    BY <2>1, <2>3 DEF Pages
  <2>5. ~full' => p = Candidates
    BY <2>1 DEF Pages
  <2>6. \A b : Key(b)' = Key(b)
    BY <2>2 DEF Key
  <2>7. QED
    BY <2>1, <2>2, <2>3, <2>4, <2>5, <2>6 DEF ScanInv
<1>7. CASE Visit
  <2>1. PICK k \in page :
          /\ page' = page \ {k}
          /\ visited' = visited \cup {k.device_id}
          /\ IF Overdue(k.device_id)
             THEN row' = [row EXCEPT ![k.device_id] = [on |-> FALSE, since |-> clock]]
             ELSE UNCHANGED row
    BY <1>7 DEF Visit
  <2>2. UNCHANGED <<cursor, full, steady, phase>> /\ phase = "visit"
    BY <1>7 DEF Visit
  <2>3. ASSUME NEW b \in steady' \ visited'
        PROVE  /\ b \in steady \ visited /\ row'[b] = row[b]
               /\ Key(b)' = Key(b) /\ Key(b) # k
    BY <2>1, <2>2, <2>3 DEF TypeOK, Key
  <2>4. QED
    BY <2>1, <2>2, <2>3 DEF ScanInv
<1>8. CASE EndPage
  BY <1>8 DEF EndPage, ScanInv, Key, TypeOK
<1>9. CASE EndScan
  <2>1. ASSUME NEW b \in steady \ visited
        PROVE  FALSE
    BY <1>9, <2>1 DEF EndScan, ScanInv, Candidates, Active, TypeOK
  <2>2. QED
    BY <1>9, <2>1 DEF EndScan, ScanInv
<1>10. CASE Fail
  BY <1>10 DEF Fail, ScanInv
<1>11. CASE UNCHANGED vars
  BY <1>11 DEF vars, ScanInv, Key
<1>12. QED
  BY <1>2, <1>3, <1>4, <1>5, <1>6, <1>7, <1>8, <1>9, <1>10, <1>11
     DEF Next, ScanStep

(* The cursor only moves forward.  What an untouched trigger's page held   *)
(* of it is its key still, or it has been turned OFF by its visit, and     *)
(* what was visited is not after the cursor any more.                      *)
CursorInv ==
  /\ phase # "visit" => page = {}
  /\ \A k \in page : /\ ~After(k, cursor)
                     /\ k.device_id \in steady /\ row[k.device_id].on
                          => k = Key(k.device_id)
  /\ phase # "idle" => \A b \in steady \cap visited :
       row[b].on => ~After(Key(b), cursor)

LEMMA AfterIsTransitive ==
  ASSUME NEW j \in [updated_at : Int, device_id : Int],
         NEW k \in [updated_at : Int, device_id : Int],
         NEW l \in [updated_at : Int, device_id : Int],
         After(j, k), After(k, l)
  PROVE  After(j, l)
BY DEF After

(* A key of a station is one the row comparison knows.                     *)
LEMMA KeyIsComparable ==
  ASSUME TypeOK, NEW b \in Bases
  PROVE  Key(b) \in [updated_at : Int, device_id : Int]
BY BasesAreNumbers DEF TypeOK, Key

LEMMA CursorInit == Init => CursorInv
BY DEF Init, CursorInv

LEMMA CursorStep ==
  ASSUME TypeOK, CursorInv, [Next]_vars
  PROVE  CursorInv'
<1>1. ASSUME NEW c \in Bases,
             UNCHANGED <<phase, cursor, page, full, visited>>,
             steady' = steady \ {c},
             \A b \in Bases \ {c} : row'[b] = row[b]
      PROVE  CursorInv'
  <2>1. \A b \in steady' : b \in Bases \ {c} /\ b \in steady
    BY <1>1 DEF TypeOK
  <2>2. \A b \in steady' : row'[b] = row[b] /\ Key(b)' = Key(b)
    BY <1>1, <2>1 DEF Key
  <2>3. QED
    BY <1>1, <2>1, <2>2 DEF CursorInv
<1>2. ASSUME NEW b \in Bases, NEW s \in 0 .. clock, Start(b, s)
      PROVE  CursorInv'
  BY <1>1, <1>2 DEF Start, TypeOK
<1>3. ASSUME NEW b \in Bases, Reset(b)
      PROVE  CursorInv'
  BY <1>1, <1>3 DEF Reset, TypeOK
<1>4. CASE Tick
  BY <1>4 DEF Tick, CursorInv, Key
<1>5. CASE Begin
  BY <1>5 DEF Begin, CursorInv
<1>6. CASE Fetch
  <2>1. PICK p \in Pages, last \in Candidates :
          /\ \A k \in p : ~After(k, last)
          /\ page' = p
          /\ cursor' = last
    BY <1>6 DEF Fetch
  <2>2. UNCHANGED <<row, steady, visited>> /\ phase = "fetch" /\ phase' = "visit"
    BY <1>6 DEF Fetch
  <2>3. \A b : Key(b)' = Key(b)
    BY <2>2 DEF Key
  <2>4. ASSUME NEW k \in page'
        PROVE  /\ ~After(k, cursor')
               /\ k = Key(k.device_id)
    <3>1. k \in Candidates /\ ~After(k, last)
      BY <2>1, <2>4 DEF Pages
    <3>2. PICK c \in Active : k = Key(c)
      BY <3>1 DEF Candidates
    <3>3. k.device_id = c
      BY <3>2 DEF Key
    <3>4. QED
      BY <2>1, <3>1, <3>2, <3>3
  <2>5. ASSUME NEW b \in steady' \cap visited', row'[b].on
        PROVE  ~After(Key(b), last)
    <3>1. ~After(Key(b), cursor) /\ b \in Bases
      BY <2>2, <2>5 DEF CursorInv, TypeOK
    <3>2. PICK c \in Bases : last = Key(c) /\ After(last, cursor)
      BY DEF Candidates, Active
    <3>3. QED
      BY <3>1, <3>2, KeyIsComparable, AfterIsTransitive DEF TypeOK
  <2>6. QED
    BY <2>1, <2>2, <2>3, <2>4, <2>5 DEF CursorInv
<1>7. CASE Visit
  <2>1. PICK k \in page :
          /\ page' = page \ {k}
          /\ visited' = visited \cup {k.device_id}
          /\ IF Overdue(k.device_id)
             THEN row' = [row EXCEPT ![k.device_id] = [on |-> FALSE, since |-> clock]]
             ELSE UNCHANGED row
    BY <1>7 DEF Visit
  <2>2. UNCHANGED <<cursor, full, steady, phase>> /\ phase = "visit"
    BY <1>7 DEF Visit
  <2>3. ASSUME NEW b \in Bases, row'[b].on
        PROVE  row[b].on /\ Key(b)' = Key(b)
    BY <2>1, <2>3 DEF TypeOK, Key
  <2>4. \A b \in steady : b \in Bases
    BY DEF TypeOK
  <2>5. \A l \in page' : l \in page /\ l.device_id \in Bases
    BY <2>1 DEF TypeOK
  <2>6. QED
    BY <2>1, <2>2, <2>3, <2>4, <2>5 DEF CursorInv
<1>8. CASE EndPage
  BY <1>8 DEF EndPage, CursorInv, Key
<1>9. CASE EndScan
  BY <1>9 DEF EndScan, CursorInv, Key
<1>10. CASE Fail
  BY <1>10 DEF Fail, CursorInv
<1>11. CASE UNCHANGED vars
  BY <1>11 DEF vars, CursorInv, Key
<1>12. QED
  BY <1>2, <1>3, <1>4, <1>5, <1>6, <1>7, <1>8, <1>9, <1>10, <1>11
     DEF Next, ScanStep

(* The scan keeps its types: pages hold keys of stations, cursors are      *)
(* before or at one (reconcile_once).                                      *)
THEOREM TypeCorrect == Spec => []TypeOK
<1>1. Init => TypeOK
  BY TypeInit
<1>2. TypeOK /\ [Next]_vars => TypeOK'
  BY TypeStep
<1>3. QED
  BY <1>1, <1>2, PTL DEF Spec

(* A scan of reconcile_once that ends has had in a transaction every       *)
(* trigger that was ON when it began and was not touched since.            *)
THEOREM NothingIsMissed == Spec => []ScanMissesNothing
<1>1. Init => TypeOK /\ ScanInv
  BY TypeInit, ScanInit
<1>2. TypeOK /\ ScanInv /\ [Next]_vars => (TypeOK /\ ScanInv)'
  BY TypeStep, ScanStepKeepsInv
<1>3. ScanInv => ScanMissesNothing
  BY DEF ScanInv, ScanMissesNothing
<1>4. QED
  BY <1>1, <1>2, <1>3, PTL DEF Spec

(* A page reconcile_once fetches has no trigger in it that the scan has    *)
(* handled already, unless it was touched since: the keyset never steps    *)
(* back over a row.                                                        *)
THEOREM NothingIsRevisited == Spec => NoRevisit
<1>1. TypeOK /\ CursorInv /\ [Next]_vars =>
        [\A b \in steady : (b \in visited /\ phase = "fetch") =>
           \A k \in page' : k.device_id # b]_vars
  <2> SUFFICES ASSUME TypeOK, CursorInv, [Next]_vars,
                      NEW b \in steady, b \in visited, phase = "fetch",
                      NEW k \in page', k.device_id = b
               PROVE  FALSE
    OBVIOUS
  <2>1. page = {}
    BY DEF CursorInv
  <2>2. Fetch
    BY <2>1 DEF Next, ScanStep, Start, Reset, Tick, Begin, Visit, EndPage,
                EndScan, Fail, vars
  <2>3. k \in Candidates
    BY <2>2 DEF Fetch, Pages
  <2>4. PICK c \in Active : k = Key(c) /\ After(Key(c), cursor)
    BY <2>3 DEF Candidates
  <2>5. c = b
    BY <2>4 DEF Key
  <2>6. QED
    BY <2>4, <2>5 DEF CursorInv, Active
<1>2. Init => TypeOK /\ CursorInv
  BY TypeInit, CursorInit
<1>3. TypeOK /\ CursorInv /\ [Next]_vars => (TypeOK /\ CursorInv)'
  BY TypeStep, CursorStep
<1>4. QED
  BY <1>1, <1>2, <1>3, PTL DEF Spec, NoRevisit
==============================================================================
