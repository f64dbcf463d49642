--------------------------- MODULE PipelineProofs ---------------------------
(***************************************************************************)
(* What the parts that carry data from a file to an evaluation keep true,  *)
(* for any data: the folds of an evaluation (Evaluation), the manifest of  *)
(* a conversion (RawxConversion), the samples of a dataset (Dataset) and   *)
(* the tables a file leaves (SampleIngest).  All four sort, by the places  *)
(* of Ranking, with which this module begins.                              *)
(***************************************************************************)
EXTENDS Evaluation, RawxConversion, Dataset, SampleIngest, FiniteSetTheorems, TLAPS

-----------------------------------------------------------------------------
(* Sorting (Ranking)                                                       *)

\* What is sorted before i, with i.
UpToPlace(I, key, i) == {j \in I : key[j] < key[i] \/ (key[j] = key[i] /\ j <= i)}

Sortable(I, key) == I \subseteq Int /\ IsFiniteSet(I) /\ key \in [I -> Int]

LEMMA PlaceCounts ==
  ASSUME NEW I, NEW key, Sortable(I, key), NEW i \in I
  PROVE  /\ PlaceOf(I, key, i) = Cardinality(UpToPlace(I, key, i))
         /\ IsFiniteSet(UpToPlace(I, key, i)) /\ i \in UpToPlace(I, key, i)
         /\ PlaceOf(I, key, i) \in 1 .. Cardinality(I)
<1>1. PlaceOf(I, key, i) = Cardinality(UpToPlace(I, key, i))
  BY DEF PlaceOf, UpToPlace
<1>2. UpToPlace(I, key, i) \in SUBSET I
  BY DEF UpToPlace
<1>3. i \in UpToPlace(I, key, i)
  BY DEF UpToPlace, Sortable
<1>4. /\ IsFiniteSet(UpToPlace(I, key, i))
      /\ Cardinality(UpToPlace(I, key, i)) <= Cardinality(I)
      /\ Cardinality(UpToPlace(I, key, i)) \in Nat /\ Cardinality(I) \in Nat
  BY <1>2, FS_Subset, FS_CardinalityType DEF Sortable
<1>5. Cardinality(UpToPlace(I, key, i)) # 0
  BY <1>3, <1>4, FS_EmptySet
<1>6. QED
  BY <1>1, <1>3, <1>4, <1>5

\* Of two members the one sorted first has the lower place.
LEMMA PlacesOrder ==
  ASSUME NEW I, NEW key, Sortable(I, key), NEW i \in I, NEW j \in I, i # j,
         i \in UpToPlace(I, key, j)
  PROVE  PlaceOf(I, key, i) < PlaceOf(I, key, j)
<1>1. i \in Int /\ j \in Int /\ key[i] \in Int /\ key[j] \in Int
  BY DEF Sortable
<1>2. key[i] < key[j] \/ (key[i] = key[j] /\ i <= j)
  BY DEF UpToPlace
<1>3. UpToPlace(I, key, i) \in SUBSET UpToPlace(I, key, j)
  <2>1. ASSUME NEW g \in UpToPlace(I, key, i)
        PROVE  g \in UpToPlace(I, key, j)
    <3>1. g \in I /\ (key[g] < key[i] \/ (key[g] = key[i] /\ g <= i))
      BY DEF UpToPlace
    <3>2. g \in Int /\ key[g] \in Int
      BY <3>1 DEF Sortable
    <3>3. key[g] < key[j] \/ (key[g] = key[j] /\ g <= j)
      BY <1>1, <1>2, <3>1, <3>2
    <3>4. QED
      BY <3>1, <3>3 DEF UpToPlace
  <2>2. QED
    BY <2>1
<1>4. j \notin UpToPlace(I, key, i)
  BY <1>1, <1>2 DEF UpToPlace
<1>5. /\ j \in UpToPlace(I, key, j) /\ IsFiniteSet(UpToPlace(I, key, j))
      /\ PlaceOf(I, key, j) = Cardinality(UpToPlace(I, key, j))
      /\ PlaceOf(I, key, i) = Cardinality(UpToPlace(I, key, i))
      /\ PlaceOf(I, key, i) \in Int /\ PlaceOf(I, key, j) \in Int
  BY PlaceCounts
<1>6. /\ Cardinality(UpToPlace(I, key, i)) <= Cardinality(UpToPlace(I, key, j))
      /\ Cardinality(UpToPlace(I, key, j)) = Cardinality(UpToPlace(I, key, i))
           => UpToPlace(I, key, j) = UpToPlace(I, key, i)
  BY <1>3, <1>5, FS_Subset
<1>7. QED
  BY <1>4, <1>5, <1>6

LEMMA OneIsFirst ==
  ASSUME NEW I, NEW key, Sortable(I, key), NEW i \in I, NEW j \in I
  PROVE  i \in UpToPlace(I, key, j) \/ j \in UpToPlace(I, key, i)
<1>1. i \in Int /\ j \in Int /\ key[i] \in Int /\ key[j] \in Int
  BY DEF Sortable
<1>2. QED
  BY <1>1 DEF UpToPlace

\* Places follow the keys, and members of one key their order.
LEMMA PlacesFollowKeys ==
  ASSUME NEW I, NEW key, Sortable(I, key), NEW i \in I, NEW j \in I,
         PlaceOf(I, key, i) <= PlaceOf(I, key, j)
  PROVE  key[i] < key[j] \/ (key[i] = key[j] /\ i <= j)
<1>1. CASE i = j
  BY <1>1 DEF Sortable
<1>2. CASE i # j
  <2>1. PlaceOf(I, key, i) \in Int /\ PlaceOf(I, key, j) \in Int
    BY PlaceCounts
  <2>2. j \notin UpToPlace(I, key, i)
    BY <1>2, <2>1, PlacesOrder
  <2>3. i \in UpToPlace(I, key, j)
    BY <2>2, OneIsFirst
  <2>4. QED
    BY <2>3 DEF UpToPlace
<1>3. QED
  BY <1>1, <1>2

LEMMA PlacesDiffer ==
  ASSUME NEW I, NEW key, Sortable(I, key), NEW i \in I, NEW j \in I,
         PlaceOf(I, key, i) = PlaceOf(I, key, j)
  PROVE  i = j
<1>1. PlaceOf(I, key, i) \in Int
  BY PlaceCounts
<1>2. i # j => \/ PlaceOf(I, key, i) < PlaceOf(I, key, j)
               \/ PlaceOf(I, key, j) < PlaceOf(I, key, i)
  BY OneIsFirst, PlacesOrder
<1>3. QED
  BY <1>1, <1>2

LEMMA EveryPlaceIsTaken ==
  ASSUME NEW I, NEW key, Sortable(I, key), NEW n \in 1 .. Cardinality(I)
  PROVE  \E i \in I : PlaceOf(I, key, i) = n
<1> DEFINE f == [i \in I |-> PlaceOf(I, key, i)]
           D == 1 .. Cardinality(I)
<1>1. f \in [I -> D]
  BY PlaceCounts
<1>2. \A x, y \in I : f[x] = f[y] => x = y
  BY PlacesDiffer
<1>3. f \in Injection(I, D)
  BY <1>1, <1>2 DEF Injection, IsInjective
<1>4. IsFiniteSet(D) /\ Cardinality(D) = Cardinality(I)
  BY FS_Interval, FS_CardinalityType DEF Sortable
<1>5. f \in Surjection(I, D)
  BY <1>3, <1>4, FS_Injection
<1>6. \A m \in D : \E i \in I : f[i] = m
  BY <1>5 DEF Surjection
<1>7. QED
  BY <1>6

\* What SortedBy returns: every member once, in the order of the keys.
LEMMA SortedByOrders ==
  ASSUME NEW I, NEW key, Sortable(I, key)
  PROVE  LET at == SortedBy(I, key) IN
           /\ Cardinality(I) \in Nat
           /\ at \in [1 .. Cardinality(I) -> I]
           /\ \A i \in I : \E k \in 1 .. Cardinality(I) : at[k] = i
           /\ \A j, k \in 1 .. Cardinality(I) :
                j < k => \/ key[at[j]] < key[at[k]]
                         \/ key[at[j]] = key[at[k]] /\ at[j] < at[k]
<1> DEFINE at == SortedBy(I, key)
           D == 1 .. Cardinality(I)
<1>1. Cardinality(I) \in Nat
  BY FS_CardinalityType DEF Sortable
<1>2. ASSUME NEW k \in D
      PROVE  at[k] \in I /\ PlaceOf(I, key, at[k]) = k
  <2>1. \E i \in I : PlaceOf(I, key, i) = k
    BY EveryPlaceIsTaken
  <2>2. QED
    BY <2>1 DEF SortedBy
<1>3. at \in [D -> I]
  BY <1>2 DEF SortedBy
<1>4. ASSUME NEW i \in I
      PROVE  \E k \in D : at[k] = i
  <2>1. PlaceOf(I, key, i) \in D
    BY PlaceCounts
  <2>2. QED
    BY <1>2, <2>1, PlacesDiffer
<1>5. ASSUME NEW j \in D, NEW k \in D, j < k
      PROVE  key[at[j]] < key[at[k]] \/ (key[at[j]] = key[at[k]] /\ at[j] < at[k])
  <2>1. at[j] \in I /\ at[k] \in I /\ at[j] # at[k]
    BY <1>2, <1>5
  <2>2. key[at[j]] < key[at[k]] \/ (key[at[j]] = key[at[k]] /\ at[j] <= at[k])
    BY <1>2, <1>5, <2>1, PlacesFollowKeys
  <2>3. at[j] \in Int /\ at[k] \in Int
    BY <2>1 DEF Sortable
  <2>4. QED
    BY <2>1, <2>2, <2>3
<1>6. QED
  BY <1>1, <1>3, <1>4, <1>5

\* The numbers of a finite set in increasing order.
LEMMA AscendingOrders ==
  ASSUME NEW I \in SUBSET Int, IsFiniteSet(I)
  PROVE  LET at == Ascending(I) IN
           /\ Cardinality(I) \in Nat
           /\ at \in [1 .. Cardinality(I) -> I]
           /\ \A i \in I : \E k \in 1 .. Cardinality(I) : at[k] = i
           /\ \A j, k \in 1 .. Cardinality(I) : j < k => at[j] < at[k]
<1> DEFINE key == [i \in I |-> i]
<1>1. Sortable(I, key)
  BY DEF Sortable
<1>2. Ascending(I) = SortedBy(I, key)
  BY DEF Ascending
<1> HIDE DEF key
<1>3. /\ Cardinality(I) \in Nat
      /\ Ascending(I) \in [1 .. Cardinality(I) -> I]
      /\ \A i \in I : \E k \in 1 .. Cardinality(I) : Ascending(I)[k] = i
      /\ \A j, k \in 1 .. Cardinality(I) :
           j < k => \/ key[Ascending(I)[j]] < key[Ascending(I)[k]]
                    \/ /\ key[Ascending(I)[j]] = key[Ascending(I)[k]]
                       /\ Ascending(I)[j] < Ascending(I)[k]
  BY <1>1, <1>2, SortedByOrders, SMTT(20)
<1>4. \A i \in I : key[i] = i
  BY DEF key
<1>5. QED
  BY <1>3, <1>4

-----------------------------------------------------------------------------
(* The folds of an evaluation (Evaluation)                                 *)

Given == windows \in [Indices -> EventWindows] /\ embargo \in Nat

LEMMA WindowsTyped ==
  ASSUME Given, NEW e \in Indices
  PROVE  Start(e) \in Nat /\ End(e) \in Nat /\ Start(e) <= End(e)
BY EvaluationAssumption DEF Given, Start, End

\* The events sorted by the start of their windows.
LEMMA RanksSort ==
  ASSUME Given
  PROVE  /\ \A e \in Indices : Rank(e) \in 1 .. EventCount
         /\ \A e, f \in Indices : Rank(e) <= Rank(f) => Start(e) <= Start(f)
         /\ \A n \in 1 .. EventCount : \E e \in Indices : Rank(e) = n
<1> DEFINE key == [f \in Indices |-> Start(f)]
<1>1. IsFiniteSet(Indices) /\ Cardinality(Indices) = EventCount /\ Indices \subseteq Int
  BY FS_Interval, EvaluationAssumption DEF Indices
<1>2. Sortable(Indices, key)
  BY <1>1, WindowsTyped DEF Sortable
<1>3. \A e \in Indices : Rank(e) = PlaceOf(Indices, key, e) /\ key[e] = Start(e)
  BY DEF Rank
<1> HIDE DEF key
<1>4. \A e \in Indices : Rank(e) \in 1 .. EventCount
  BY <1>1, <1>2, <1>3, PlaceCounts
<1>5. ASSUME NEW e \in Indices, NEW f \in Indices, Rank(e) <= Rank(f)
      PROVE  Start(e) <= Start(f)
  <2>1. key[e] < key[f] \/ key[e] = key[f]
    BY <1>2, <1>3, <1>5, PlacesFollowKeys
  <2>2. QED
    BY <1>3, <2>1, WindowsTyped
<1>6. ASSUME NEW n \in 1 .. EventCount
      PROVE  \E e \in Indices : Rank(e) = n
  <2>1. \E e \in Indices : PlaceOf(Indices, key, e) = n
    BY <1>1, <1>2, EveryPlaceIsTaken
  <2>2. QED
    BY <1>3, <2>1
<1>7. QED
  BY <1>4, <1>5, <1>6

\* The folds fill the ranks: the test of the last fold starts within them.
LEMMA FoldsFit ==
  /\ FoldSize \in Nat /\ FoldSize >= 1
  /\ \A k \in 1 .. Splits : FoldSize * k \in Nat /\ FoldSize * k + 1 \in 1 .. EventCount
  /\ \A k \in Nat : FoldSize * (k + 1) \in Nat
  /\ \A j, k \in Nat : j < k => FoldSize * (j + 1) <= FoldSize * k
<1>1. FoldSize \in Nat /\ FoldSize >= 1 /\ FoldSize * (Splits + 1) <= EventCount
  BY EvaluationAssumption DEF FoldSize
<1> HIDE DEF FoldSize
<1>2. ASSUME NEW j \in Nat, NEW k \in Nat, j <= k
      PROVE  FoldSize * j \in Nat /\ FoldSize * k \in Nat /\ FoldSize * j <= FoldSize * k
  BY <1>1, <1>2
<1>3. ASSUME NEW k \in 1 .. Splits
      PROVE  FoldSize * k \in Nat /\ FoldSize * k + 1 \in 1 .. EventCount
  <2>1. FoldSize * k \in Nat /\ FoldSize * k <= FoldSize * Splits
    BY <1>2, EvaluationAssumption
  <2>2. FoldSize * (Splits + 1) = FoldSize * Splits + FoldSize /\ FoldSize * Splits \in Nat
    BY <1>1, <1>2, EvaluationAssumption
  <2>3. QED
    BY <1>1, <2>1, <2>2, EvaluationAssumption
<1>4. \A k \in Nat : FoldSize * (k + 1) \in Nat
  BY <1>2
<1>5. \A j, k \in Nat : j < k => FoldSize * (j + 1) <= FoldSize * k
  BY <1>2
<1>6. QED
  BY <1>1, <1>3, <1>4, <1>5

\* What a fold trains on ends an embargo before what it tests starts.
LEMMA FoldIsPurged ==
  ASSUME Given, NEW k \in 1 .. Splits, NEW e \in TrainEvents(k), NEW f \in TestEvents(k)
  PROVE  End(e) + embargo <= Start(f)
<1>1. e \in Indices /\ End(e) + embargo <= TestStart(k)
  BY DEF TrainEvents, TrainCandidates
<1>2. PICK first \in Indices : TestStart(k) = Start(first) /\ Rank(first) = FoldSize * k + 1
  <2>1. \E x \in Indices : Rank(x) = FoldSize * k + 1
    BY FoldsFit, RanksSort
  <2>2. QED
    BY <2>1 DEF TestStart
<1>3. f \in Indices /\ FoldSize * k < Rank(f) /\ Rank(f) \in Nat /\ FoldSize * k \in Nat
  BY FoldsFit, RanksSort DEF TestEvents
<1>4. Rank(first) <= Rank(f)
  BY <1>2, <1>3
<1>5. Start(first) <= Start(f) /\ Start(first) \in Nat /\ Start(f) \in Nat /\ End(e) \in Nat
  BY <1>1, <1>2, <1>3, <1>4, RanksSort, WindowsTyped
<1>6. QED
  BY <1>1, <1>2, <1>5 DEF Given

LEMMA TestsAreApart ==
  ASSUME Given, NEW j \in 1 .. Splits, NEW k \in 1 .. Splits, j < k
  PROVE  TestEvents(j) \cap TestEvents(k) = {}
<1> SUFFICES ASSUME NEW e \in Indices, Rank(e) <= FoldSize * (j + 1), FoldSize * k < Rank(e)
             PROVE  FALSE
  BY DEF TestEvents
<1>1. FoldSize * (j + 1) <= FoldSize * k
  BY FoldsFit, EvaluationAssumption
<1>2. FoldSize * (j + 1) \in Nat /\ FoldSize * k \in Nat /\ Rank(e) \in Nat
  BY FoldsFit, RanksSort
<1>3. QED
  BY <1>1, <1>2

\* A fold's result is of its own training and test events, the model at hand
\* of the fold at hand.
EvaluationInv ==
  /\ fold \in 0 .. Splits + 1
  /\ fold = 0 => results = <<>> /\ model = {}
  /\ fold > 0 => Given /\ Len(results) = fold - 1
  /\ results \in Seq([skipped : BOOLEAN, fitted : SUBSET Indices, tested : SUBSET Indices])
  /\ \A i \in DOMAIN results : /\ results[i].fitted \subseteq TrainEvents(i)
                               /\ results[i].tested \subseteq TestEvents(i)
  /\ model # {} => fold \in 1 .. Splits /\ model \subseteq TrainEvents(fold)

LEMMA EvaluationStarts == EvaluationInit => EvaluationInv
BY EvaluationAssumption DEF EvaluationInit, EvaluationInv

\* A fold ends with a result of its own.
LEMMA FoldEnds ==
  ASSUME EvaluationInv, fold \in 1 .. Splits,
         NEW r \in [skipped : BOOLEAN, fitted : SUBSET Indices, tested : SUBSET Indices],
         r.fitted \subseteq TrainEvents(fold), r.tested \subseteq TestEvents(fold),
         results' = Append(results, r), fold' = fold + 1, model' = {},
         UNCHANGED <<windows, embargo>>
  PROVE  EvaluationInv'
<1>1. /\ \A k : TrainEvents(k)' = TrainEvents(k) /\ TestEvents(k)' = TestEvents(k)
      /\ Given' = Given
  BY DEF TrainEvents, TestEvents, TrainCandidates, TestStart, Rank, Start, End, Given
<1>2. Given /\ Len(results) = fold - 1
  BY DEF EvaluationInv
<1>3. /\ results' \in Seq([skipped : BOOLEAN, fitted : SUBSET Indices, tested : SUBSET Indices])
      /\ Len(results') = fold /\ DOMAIN results' = 1 .. fold
      /\ results'[fold] = r /\ \A i \in 1 .. fold - 1 : results'[i] = results[i]
      /\ DOMAIN results = 1 .. fold - 1
  BY <1>2, EvaluationAssumption DEF EvaluationInv
<1>4. \A i \in 1 .. fold : /\ results'[i].fitted \subseteq TrainEvents(i)
                           /\ results'[i].tested \subseteq TestEvents(i)
  <2>1. ASSUME NEW i \in 1 .. fold
        PROVE  results'[i].fitted \subseteq TrainEvents(i) /\ results'[i].tested \subseteq TestEvents(i)
    <3>1. i = fold \/ i \in 1 .. fold - 1
      BY EvaluationAssumption
    <3>2. QED
      BY <1>3, <3>1 DEF EvaluationInv
  <2>2. QED
    BY <2>1
<1>5. fold' \in 0 .. Splits + 1 /\ fold' > 0 /\ Len(results') = fold' - 1
  BY <1>3, EvaluationAssumption
<1>6. QED
  BY <1>1, <1>2, <1>3, <1>4, <1>5 DEF EvaluationInv

LEMMA EvaluationContinues ==
  ASSUME EvaluationInv, [EvaluationNext]_evaluationVars
  PROVE  EvaluationInv'
<1>1. CASE Called
  <2>1. /\ fold' = 1 /\ model' = {} /\ results' = <<>> /\ Given'
    BY <1>1, EvaluationAssumption DEF Called, EvaluationInv, Given, Indices
  <2>2. QED
    BY <2>1, EvaluationAssumption DEF EvaluationInv
<1>2. CASE Skips
  <2> DEFINE r == [skipped |-> TRUE, fitted |-> {}, tested |-> {}]
  <2>1. r \in [skipped : BOOLEAN, fitted : SUBSET Indices, tested : SUBSET Indices]
    OBVIOUS
  <2>2. QED
    BY <1>2, <2>1, FoldEnds DEF Skips
<1>3. CASE Trains
  <2>1. /\ \A k : TrainEvents(k)' = TrainEvents(k) /\ TestEvents(k)' = TestEvents(k)
        /\ Given' = Given
    BY <1>3 DEF Trains, TrainEvents, TestEvents, TrainCandidates, TestStart, Rank, Start, End, Given
  <2>2. model' \subseteq TrainEvents(fold) /\ fold \in 1 .. Splits /\ UNCHANGED <<fold, results>>
    BY <1>3 DEF Trains, Batches
  <2>3. QED
    BY <2>1, <2>2 DEF EvaluationInv
<1>4. CASE Tests
  <2>1. PICK r : r = [skipped |-> FALSE, fitted |-> model, tested |-> Batches(TestEvents(fold))]
    OBVIOUS
  <2>2. fold \in 1 .. Splits /\ model \subseteq TrainEvents(fold)
    BY <1>4 DEF Tests, EvaluationInv
  <2>3. /\ r \in [skipped : BOOLEAN, fitted : SUBSET Indices, tested : SUBSET Indices]
        /\ r.fitted \subseteq TrainEvents(fold) /\ r.tested \subseteq TestEvents(fold)
    BY <2>1, <2>2 DEF TrainEvents, TrainCandidates, TestEvents, Batches
  <2>4. QED
    BY <1>4, <2>1, <2>2, <2>3, FoldEnds DEF Tests
<1>5. CASE UNCHANGED evaluationVars
  <2>1. /\ \A k : TrainEvents(k)' = TrainEvents(k) /\ TestEvents(k)' = TestEvents(k)
        /\ Given' = Given
    BY <1>5 DEF evaluationVars, TrainEvents, TestEvents, TrainCandidates, TestStart, Rank, Start,
                End, Given
  <2>2. QED
    BY <1>5, <2>1 DEF evaluationVars, EvaluationInv
<1>6. QED
  BY <1>1, <1>2, <1>3, <1>4, <1>5 DEF EvaluationNext

\* However many events and folds there are, in whatever order the events are
\* listed and however their windows overlap: no model is tested on what its
\* training reaches into, and no event is tested twice.
THEOREM NoLeak == EvaluationSpec => []EvaluationNeverLeaks
<1>1. EvaluationInv => EvaluationNeverLeaks
  <2> SUFFICES ASSUME EvaluationInv, NEW i \in DOMAIN results
               PROVE  /\ \A e \in results[i].fitted, f \in results[i].tested :
                           End(e) + embargo <= Start(f)
                      /\ \A j \in DOMAIN results :
                           i # j => results[i].tested \cap results[j].tested = {}
    BY DEF EvaluationNeverLeaks
  <2>1. /\ DOMAIN results \subseteq 1 .. Splits /\ Given
        /\ \A k \in DOMAIN results : /\ results[k].fitted \subseteq TrainEvents(k)
                                     /\ results[k].tested \subseteq TestEvents(k)
    BY EvaluationAssumption DEF EvaluationInv
  <2>2. \A e \in results[i].fitted, f \in results[i].tested : End(e) + embargo <= Start(f)
    BY <2>1, FoldIsPurged
  <2>3. ASSUME NEW j \in DOMAIN results, i # j
        PROVE  results[i].tested \cap results[j].tested = {}
    <3>1. TestEvents(i) \cap TestEvents(j) = {}
      <4>1. i \in 1 .. Splits /\ j \in 1 .. Splits /\ (i < j \/ j < i)
        BY <2>1, <2>3, EvaluationAssumption
      <4>2. QED
        BY <2>1, <4>1, TestsAreApart
    <3>2. QED
      BY <2>1, <3>1
  <2>4. QED
    BY <2>2, <2>3
<1>2. EvaluationInv /\ [EvaluationNext]_evaluationVars => EvaluationInv'
  BY EvaluationContinues
<1>3. QED
  BY <1>1, <1>2, EvaluationStarts, PTL DEF EvaluationSpec

-----------------------------------------------------------------------------
(* The conversion of retained streams (RawxConversion)                     *)

LEMMA PickedTyped ==
  ASSUME NEW S, NEW s \in Seq(S), NEW I \in SUBSET DOMAIN s
  PROVE  /\ IsFiniteSet(I) /\ I \subseteq Int
         /\ Picked(s, I) \in Seq(S)
<1>1. I \in SUBSET (1 .. Len(s)) /\ Len(s) \in Nat
  OBVIOUS
<1>2. IsFiniteSet(I) /\ I \in SUBSET Int
  <2>1. IsFiniteSet(1 .. Len(s))
    BY <1>1, FS_Interval
  <2>2. QED
    BY <1>1, <2>1, FS_Subset
<1>3. Cardinality(I) \in Nat /\ Ascending(I) \in [1 .. Cardinality(I) -> I]
  BY <1>2, AscendingOrders
<1>4. Picked(s, I) \in [1 .. Cardinality(I) -> S]
  BY <1>1, <1>3 DEF Picked
<1>5. QED
  BY <1>2, <1>3, <1>4

LEMMA EpochsTyped ==
  ASSUME NEW s \in DOMAIN Streams
  PROVE  Epochs(s) \in Seq(Nat) /\ IsFiniteSet(Measured(s)) /\ Measured(s) \subseteq Int
<1>1. Streams[s] \in Seq(RawxRow)
  BY ConversionAssumption
<1>2. [i \in DOMAIN Streams[s] |-> Streams[s][i].epoch] \in Seq(Nat)
  <2>1. /\ DOMAIN Streams[s] = 1 .. Len(Streams[s]) /\ Len(Streams[s]) \in Nat
        /\ \A i \in DOMAIN Streams[s] : Streams[s][i] \in RawxRow
    BY <1>1
  <2>2. \A i \in DOMAIN Streams[s] : Streams[s][i].epoch \in Nat
    BY <2>1 DEF RawxRow
  <2>3. [i \in 1 .. Len(Streams[s]) |-> Streams[s][i].epoch] \in [1 .. Len(Streams[s]) -> Nat]
    BY <2>1, <2>2
  <2>4. QED
    BY <2>1, <2>3
<1>3. Measured(s) \in SUBSET DOMAIN [i \in DOMAIN Streams[s] |-> Streams[s][i].epoch]
  BY DEF Measured
<1>4. QED
  BY <1>2, <1>3, PickedTyped DEF Epochs

LEMMA LeastOf ==
  ASSUME NEW I \in SUBSET Int, IsFiniteSet(I), I # {}
  PROVE  \E i \in I : \A j \in I : i <= j
<1>1. /\ Cardinality(I) \in Nat
      /\ Ascending(I) \in [1 .. Cardinality(I) -> I]
      /\ \A i \in I : \E k \in 1 .. Cardinality(I) : Ascending(I)[k] = i
      /\ \A j, k \in 1 .. Cardinality(I) : j < k => Ascending(I)[j] < Ascending(I)[k]
  BY AscendingOrders
<1>2. 1 \in 1 .. Cardinality(I)
  BY <1>1, FS_EmptySet
<1>3. Ascending(I)[1] \in I
  BY <1>1, <1>2
<1>4. ASSUME NEW j \in I
      PROVE  Ascending(I)[1] <= j
  <2>1. PICK k \in 1 .. Cardinality(I) : Ascending(I)[k] = j
    BY <1>1
  <2>2. Ascending(I)[1] \in Int /\ j \in Int
    BY <1>3
  <2>3. CASE 1 < k
    <3>1. Ascending(I)[1] < Ascending(I)[k]
      BY <1>1, <1>2, <2>3
    <3>2. QED
      BY <2>1, <2>2, <3>1
  <2>4. CASE k = 1
    BY <2>1, <2>2, <2>4
  <2>5. QED
    BY <1>1, <2>3, <2>4
<1>5. QED
  BY <1>3, <1>4

\* Who only asks neighbours knows the whole sequence.
LEMMA NeighboursSort ==
  ASSUME NEW e \in Seq(Int), \A i \in Steps(e) : e[i] <= e[i + 1]
  PROVE  Sorted(e)
<1> SUFFICES ASSUME NEW i \in DOMAIN e, NEW j \in DOMAIN e, i <= j, ~(e[i] <= e[j])
             PROVE  FALSE
  BY DEF Sorted
<1> DEFINE S == {k \in i .. Len(e) : e[k] < e[i]}
<1>1. /\ DOMAIN e = 1 .. Len(e) /\ Len(e) \in Nat /\ i \in 1 .. Len(e) /\ j \in 1 .. Len(e)
      /\ \A k \in 1 .. Len(e) : e[k] \in Int
  OBVIOUS
<1>2. j \in S
  BY <1>1
<1>3. S \in SUBSET Int /\ IsFiniteSet(S)
  <2>1. IsFiniteSet(i .. Len(e)) /\ S \in SUBSET (i .. Len(e))
    BY <1>1, FS_Interval
  <2>2. QED
    BY <1>1, <2>1, FS_Subset
<1>4. PICK k \in S : \A l \in S : k <= l
  BY <1>2, <1>3, LeastOf
<1>5. k \in i .. Len(e) /\ e[k] < e[i] /\ k # i
  BY <1>1
<1>6. k - 1 \in i .. Len(e) /\ k - 1 \in Steps(e) /\ k - 1 + 1 = k
  BY <1>1, <1>5 DEF Steps
<1>7. ~(e[k - 1] < e[i])
  BY <1>1, <1>4, <1>6
<1>8. e[k - 1] <= e[k]
  BY <1>6
<1>9. QED
  BY <1>1, <1>5, <1>6, <1>7, <1>8

LEMMA NoneBackward ==
  ASSUME NEW e \in Seq(Int), NonMonotonic(e) = 0
  PROVE  Sorted(e)
<1> DEFINE B == {i \in Steps(e) : e[i + 1] < e[i]}
<1>1. IsFiniteSet(B)
  <2>1. B \in SUBSET (1 .. Len(e))
    BY DEF Steps
  <2>2. IsFiniteSet(1 .. Len(e))
    BY FS_Interval
  <2>3. QED
    BY <2>1, <2>2, FS_Subset
<1>2. B = {}
  BY <1>1, FS_EmptySet DEF NonMonotonic
<1>3. ASSUME NEW i \in Steps(e)
      PROVE  e[i] <= e[i + 1]
  <2>1. i \in 1 .. Len(e) /\ i + 1 \in 1 .. Len(e)
    BY DEF Steps
  <2>2. e[i] \in Int /\ e[i + 1] \in Int
    BY <2>1
  <2>3. QED
    BY <1>2, <2>2
<1>4. QED
  BY <1>3, NeighboursSort

\* Counting equal neighbours of a sorted sequence counts what is repeated.
LEMMA RepeatsAreCounted ==
  ASSUME NEW e \in Seq(Int), Sorted(e)
  PROVE  Duplicates(e) = Len(e) - Cardinality(ToSet(e))
<1> DEFINE D == 1 .. Len(e)
           First == {i \in D : \A j \in D : j + 1 = i => e[j] # e[i]}
           Again == {i \in Steps(e) : e[i + 1] = e[i]}
<1>1. /\ DOMAIN e = D /\ Len(e) \in Nat /\ IsFiniteSet(D) /\ Cardinality(D) = Len(e)
      /\ \A k \in D : e[k] \in Int
      /\ \A i, j \in D : i <= j => e[i] <= e[j]
  <2>1. DOMAIN e = D /\ Len(e) \in Nat /\ \A k \in D : e[k] \in Int
    OBVIOUS
  <2>2. \A n \in Nat : IsFiniteSet(1 .. n) /\ Cardinality(1 .. n) = n
    BY FS_Interval
  <2>3. QED
    BY <2>1, <2>2 DEF Sorted
<1>2. First \in SUBSET D /\ Again \in SUBSET D /\ IsFiniteSet(First) /\ IsFiniteSet(Again)
  <2>1. First \in SUBSET D /\ Again \in SUBSET D
    BY DEF Steps
  <2>2. QED
    BY <1>1, <2>1, FS_Subset
<1>3. Cardinality(First) = Cardinality(ToSet(e))
  <2> DEFINE f == [i \in First |-> e[i]]
  <2>1. f \in [First -> ToSet(e)]
    BY <1>1, <1>2 DEF ToSet
  <2>2. ASSUME NEW i \in First, NEW j \in First, i < j, e[i] = e[j]
        PROVE  FALSE
    <3>1. i \in D /\ j \in D /\ j - 1 \in D /\ i <= j - 1 /\ j - 1 + 1 = j
      BY <1>1, <2>2
    <3>2. e[i] <= e[j - 1] /\ e[j - 1] <= e[j] /\ e[j - 1] # e[j]
      BY <1>1, <3>1
    <3>3. QED
      BY <1>1, <2>2, <3>1, <3>2
  <2>3. \A i, j \in First : f[i] = f[j] => i = j
    <3>1. ASSUME NEW i \in First, NEW j \in First, f[i] = f[j]
          PROVE  i = j
      <4>1. e[i] = e[j] /\ i \in Int /\ j \in Int
        BY <3>1
      <4>2. QED
        BY <2>2, <4>1
    <3>2. QED
      BY <3>1
  <2>4. ASSUME NEW v \in ToSet(e)
        PROVE  \E i \in First : f[i] = v
    <3> DEFINE V == {i \in D : e[i] = v}
    <3>1. V \in SUBSET D /\ V # {}
      BY <1>1 DEF ToSet
    <3>2. IsFiniteSet(V) /\ V \in SUBSET Int
      BY <1>1, <3>1, FS_Subset
    <3>3. PICK i \in V : \A j \in V : i <= j
      BY <3>1, <3>2, LeastOf
    <3>4. i \in First
      BY <1>1, <3>3
    <3>5. QED
      BY <3>3, <3>4
  <2>5. f \in Bijection(First, ToSet(e))
    BY <2>1, <2>3, <2>4 DEF Bijection, Injection, Surjection, IsInjective
  <2>6. QED
    BY <1>2, <2>5, FS_Bijection DEF ExistsBijection
<1>4. Cardinality(Again) = Cardinality(D \ First)
  <2> DEFINE f == [i \in Again |-> i + 1]
  <2>1. ASSUME NEW i \in Again
        PROVE  f[i] \in D \ First
    BY <1>1, <2>1 DEF Steps
  <2>2. \A i, j \in Again : f[i] = f[j] => i = j
    BY <1>2
  <2>3. ASSUME NEW k \in D \ First
        PROVE  \E i \in Again : f[i] = k
    BY <1>1, <2>3 DEF Steps
  <2>4. f \in Bijection(Again, D \ First)
    BY <2>1, <2>2, <2>3 DEF Bijection, Injection, Surjection, IsInjective
  <2>5. QED
    BY <1>2, <2>4, FS_Bijection DEF ExistsBijection
<1>5. Cardinality(D \ First) = Cardinality(D) - Cardinality(First)
  <2>1. D \cap First = First
    BY <1>2
  <2>2. Cardinality(D \ First) = Cardinality(D) - Cardinality(D \cap First)
    BY <1>1, FS_Difference
  <2>3. QED
    BY <2>1, <2>2
<1>6. QED
  BY <1>1, <1>3, <1>4, <1>5 DEF Duplicates

LEMMA FilesTyped ==
  ASSUME NEW c
  PROVE  FilesOf(c) \in Seq(Files)
<1>1. /\ <<"rover.ubx">> \in Seq(Files) /\ <<"base.ubx">> \in Seq(Files)
      /\ <<"rover.obs">> \in Seq(Files) /\ <<"base.obs">> \in Seq(Files)
      /\ <<"navigation.rnx", "solution.pos">> \in Seq(Files) /\ <<>> \in Seq(Files)
  BY DEF Files
<1>2. \A s, t \in Seq(Files) : s \o t \in Seq(Files)
  OBVIOUS
<1>3. QED
  BY <1>1, <1>2 DEF FilesOf

\* A call that passes has solved a pair.
LEMMA PassSolves ==
  ASSUME NEW c, Status(c) = "PASS"
  PROVE  c.base # NoStream /\ "solution.pos" \in ToSet(FilesOf(c))
<1>1. c.base # NoStream /\ c.convbin /\ c.solver
  BY DEF Status
<1>2. PICK s \in Seq(Files) : FilesOf(c) = s \o <<"navigation.rnx", "solution.pos">>
  <2>1. /\ <<"rover.ubx">> \in Seq(Files) /\ <<"base.ubx">> \in Seq(Files)
        /\ <<"rover.obs">> \in Seq(Files) /\ <<"base.obs">> \in Seq(Files)
    BY DEF Files
  <2>2. \A t, u \in Seq(Files) : t \o u \in Seq(Files)
    OBVIOUS
  <2>3. <<"rover.ubx">> \o <<"base.ubx">> \o <<"rover.obs">> \o <<"base.obs">> \in Seq(Files)
    BY <2>1, <2>2
  <2>4. QED
    BY <1>1, <2>3 DEF FilesOf
<1>3. \A t : t = s \o <<"navigation.rnx", "solution.pos">>
        => Len(s) + 2 \in DOMAIN t /\ t[Len(s) + 2] = "solution.pos"
  OBVIOUS
<1>4. QED
  BY <1>1, <1>2, <1>3 DEF ToSet

LEMMA EndsOfSorted ==
  ASSUME NEW s \in DOMAIN Streams, Epochs(s) # <<>>, Sorted(Epochs(s))
  PROVE  /\ Earliest(s) \in Nat /\ Latest(s) \in Nat
         /\ Earliest(s) <= Latest(s)
<1> DEFINE e == Epochs(s)
<1>1. e \in Seq(Nat)
  BY EpochsTyped
<1> HIDE DEF e
<1>2. /\ Len(e) \in Nat /\ Len(e) >= 1 /\ DOMAIN e = 1 .. Len(e)
      /\ \A k \in 1 .. Len(e) : e[k] \in Nat
  BY <1>1 DEF e
<1>3. \A k \in 1 .. Len(e) : e[1] <= e[k] /\ e[k] <= e[Len(e)]
  BY <1>2 DEF Sorted, e
<1>4. /\ e[1] \in ToSet(e) /\ \A o \in ToSet(e) : e[1] <= o
      /\ e[Len(e)] \in ToSet(e) /\ \A o \in ToSet(e) : e[Len(e)] >= o
  BY <1>2, <1>3 DEF ToSet
<1>5. Earliest(s) \in ToSet(e) /\ \A o \in ToSet(e) : Earliest(s) <= o
  BY <1>4 DEF Earliest, e
<1>6. Latest(s) \in ToSet(e) /\ \A o \in ToSet(e) : Latest(s) >= o
  BY <1>4 DEF Latest, e
<1>7. \A o \in ToSet(e) : o \in Nat
  BY <1>2 DEF ToSet
<1>8. QED
  BY <1>5, <1>6, <1>7

\* The deltas of a stream from the least to the greatest.
LEMMA DeltasOrder ==
  ASSUME NEW s \in DOMAIN Streams
  PROVE  /\ Deltas(s) \in Seq(Int)
         /\ \A i, j \in DOMAIN Deltas(s) : i <= j => Deltas(s)[i] <= Deltas(s)[j]
<1> DEFINE known == {i \in Measured(s) : Streams[s][i].utc}
           delta == [i \in known |-> 2 * (Streams[s][i].time - Streams[s][i].epoch)]
           order == SortedBy(known, delta)
           n == Cardinality(known)
<1>1. IsFiniteSet(known) /\ known \subseteq Int
  <2>1. IsFiniteSet(Measured(s)) /\ Measured(s) \subseteq Int
    BY EpochsTyped
  <2>2. known \in SUBSET Measured(s)
    OBVIOUS
  <2>3. QED
    BY <2>1, <2>2, FS_Subset
<1>2. ASSUME NEW i \in known
      PROVE  delta[i] \in Int
  <2>1. Streams[s] \in Seq(RawxRow) /\ i \in DOMAIN Streams[s]
    BY ConversionAssumption DEF Measured
  <2>2. Streams[s][i] \in RawxRow
    BY <2>1
  <2>3. QED
    BY <2>2 DEF RawxRow
<1>3. Sortable(known, delta)
  BY <1>1, <1>2 DEF Sortable
<1>4. Deltas(s) = [k \in DOMAIN order |-> delta[order[k]]]
  BY DEF Deltas
<1> HIDE DEF known, delta
<1>5. /\ n \in Nat /\ order \in [1 .. n -> known]
      /\ \A j, k \in 1 .. n :
           j < k => \/ delta[order[j]] < delta[order[k]]
                    \/ delta[order[j]] = delta[order[k]] /\ order[j] < order[k]
  BY <1>3, SortedByOrders
<1> HIDE DEF order, n
<1>6. Deltas(s) = [k \in 1 .. n |-> delta[order[k]]]
  BY <1>4, <1>5
<1>7. \A k \in 1 .. n : delta[order[k]] \in Int
  BY <1>2, <1>5
<1>8. Deltas(s) \in [1 .. n -> Int]
  BY <1>6, <1>7
<1>9. \A i, j \in 1 .. n : i <= j => delta[order[i]] <= delta[order[j]]
  <2>1. ASSUME NEW i \in 1 .. n, NEW j \in 1 .. n, i <= j
        PROVE  delta[order[i]] <= delta[order[j]]
    <3>1. i = j \/ i < j
      BY <1>5, <2>1
    <3>2. delta[order[i]] \in Int /\ delta[order[j]] \in Int
      BY <1>7
    <3>3. i < j => delta[order[i]] < delta[order[j]] \/ delta[order[i]] = delta[order[j]]
      BY <1>5
    <3>4. QED
      BY <3>1, <3>2, <3>3
  <2>2. QED
    BY <2>1
<1>10. QED
  BY <1>5, <1>6, <1>8, <1>9

\* Rows that are close to one another, around a median close to no offset.
LEMMA AlignedIsNear ==
  ASSUME NEW s \in DOMAIN Streams, ClockStatus(s) = "ALIGNED", NEW i \in DOMAIN Deltas(s)
  PROVE  Deltas(s)[i] \in -8 .. 8
<1> DEFINE d == Deltas(s)
           n == Len(d)
<1>1. d \in Seq(Int) /\ \A j, k \in DOMAIN d : j <= k => d[j] <= d[k]
  BY DeltasOrder
<1>2. d # <<>> /\ ~(d[n] - d[1] > 2 * 2) /\ Median(d) \in -2 * 2 .. 2 * 2
  BY DEF ClockStatus
<1> HIDE DEF d
<1>3. n \in Nat /\ n >= 1 /\ DOMAIN d = 1 .. n /\ i \in 1 .. n
  BY <1>1, <1>2 DEF d
<1>4. (n + 1) \div 2 \in 1 .. n /\ n \div 2 + 1 \in 1 .. n
  BY <1>3
<1> DEFINE a == (n + 1) \div 2
           b == n \div 2 + 1
<1>5. /\ d[1] \in Int /\ d[i] \in Int /\ d[n] \in Int /\ d[a] \in Int /\ d[b] \in Int
      /\ d[1] <= d[i] /\ d[i] <= d[n] /\ d[1] <= d[a] /\ d[a] <= d[n]
      /\ d[1] <= d[b] /\ d[b] <= d[n]
  BY <1>1, <1>3, <1>4
<1>6. (d[a] + d[b]) \div 2 \in -4 .. 4 /\ d[n] - d[1] <= 4
  BY <1>2, <1>5 DEF Median
<1> HIDE DEF a, b, n
<1>7. d[i] \in -8 .. 8
  <2>1. \A x, y, u, v, w \in Int :
          /\ u <= x /\ x <= w /\ u <= y /\ y <= w /\ u <= v /\ v <= w
          /\ (x + y) \div 2 \in -4 .. 4 /\ w - u <= 4
          => v \in -8 .. 8
    OBVIOUS
  <2>2. QED
    BY <1>5, <1>6, <2>1
<1>8. QED
  BY <1>7 DEF d

WrittenFiles == {FilesOf(call)[i] : i \in 1 .. step}

\* A call that runs was accepted, and found the directory empty: what is there
\* is what it has written so far.
RunInv ==
  step # -1 =>
    /\ call \in Calls /\ Accepts(call) /\ calls > 0 /\ manifest = NoManifest
    /\ step \in 0 .. Len(FilesOf(call))
    /\ \A f \in Files : output[f] = IF f \in WrittenFiles THEN calls ELSE 0
    /\ "solution.pos" \in WrittenFiles => solution \in Outcomes /\ Parses(solution)

\* What the manifest says was so when it was written.
ManifestInv ==
  manifest # NoManifest =>
    /\ manifest.of \in Calls /\ Accepts(manifest.of) /\ manifest.by > 0
    /\ manifest.status = Status(manifest.of) /\ manifest.files = ToSet(FilesOf(manifest.of))
    /\ "solution.pos" \in manifest.files
         => manifest.epochs \in Outcomes /\ Parses(manifest.epochs)
    /\ manifest.duplicates = Duplicates(Epochs(manifest.of.rover))
    /\ manifest.clock = ClockStatus(manifest.of.rover)
    /\ \A f \in Files : output[f] = IF f \in manifest.files THEN manifest.by ELSE 0

ConversionInv ==
  /\ step \in Int /\ calls \in Nat /\ output \in [Files -> Nat]
  /\ RunInv /\ ManifestInv

LEMMA ConversionStarts == ConversionInit => ConversionInv
BY DEF ConversionInit, ConversionInv, RunInv, ManifestInv

\* A call that stops leaves the directory as it is.
LEMMA StopKeeps ==
  ASSUME ConversionInv, step # -1, step' = -1, UNCHANGED <<manifest, calls>>,
         output' \in [Files -> Nat]
  PROVE  ConversionInv'
<1>1. manifest' = NoManifest
  BY DEF ConversionInv, RunInv
<1>2. QED
  BY <1>1 DEF ConversionInv, RunInv, ManifestInv

LEMMA ExecuteKeeps ==
  ASSUME ConversionInv, NEW c \in Calls, Execute(c)
  PROVE  ConversionInv'
<1>1. ManifestInv'
  BY DEF Execute, ConversionInv, ManifestInv
<1>2. CASE step' = -1
  BY <1>1, <1>2 DEF Execute, ConversionInv, RunInv
<1>3. CASE step' # -1
  <2>1. step' = 0 /\ call' = c /\ Accepts(c) /\ Empty /\ calls' = calls + 1
    BY <1>3 DEF Execute
  <2>2. WrittenFiles' = {}
    BY <2>1 DEF WrittenFiles
  <2>3. Len(FilesOf(c)) \in Nat
    BY FilesTyped
  <2>4. Accepts(call)' /\ FilesOf(call)' = FilesOf(c)
    BY <2>1 DEF Accepts, FilesOf
  <2>5. RunInv'
    BY <2>1, <2>2, <2>3, <2>4 DEF Execute, ConversionInv, RunInv, Empty
  <2>6. QED
    BY <1>1, <2>1, <2>5 DEF Execute, ConversionInv
<1>4. QED
  BY <1>2, <1>3

\* The call writes its next file and goes on.
LEMMA FileKeeps ==
  ASSUME ConversionInv, Running, output' = [output EXCEPT ![Next_file] = calls],
         step' = step + 1, UNCHANGED <<manifest, call, calls>>,
         IF Next_file = "solution.pos" THEN solution' \in Outcomes /\ Parses(solution')
                                       ELSE solution' = solution
  PROVE  ConversionInv'
<1>1. /\ step \in 0 .. Len(FilesOf(call)) - 1 /\ Len(FilesOf(call)) \in Nat
      /\ FilesOf(call) \in Seq(Files) /\ step # -1
  BY FilesTyped DEF Running
<1>2. Next_file \in Files
  BY <1>1 DEF Next_file
<1>3. WrittenFiles' = WrittenFiles \cup {Next_file}
  <2>1. 1 .. step + 1 = (1 .. step) \cup {step + 1}
    BY <1>1
  <2>2. FilesOf(call)' = FilesOf(call)
    OBVIOUS
  <2>3. QED
    BY <2>1, <2>2 DEF WrittenFiles, Next_file
<1>4. /\ calls \in Nat /\ calls > 0 /\ output \in [Files -> Nat] /\ manifest = NoManifest
      /\ call \in Calls /\ Accepts(call)
      /\ \A f \in Files : output[f] = IF f \in WrittenFiles THEN calls ELSE 0
      /\ "solution.pos" \in WrittenFiles => solution \in Outcomes /\ Parses(solution)
  BY <1>1 DEF ConversionInv, RunInv
<1>5. \A f \in Files : output'[f] = IF f \in WrittenFiles' THEN calls' ELSE 0
  BY <1>2, <1>3, <1>4
<1>6. "solution.pos" \in WrittenFiles' => solution' \in Outcomes /\ Parses(solution')
  BY <1>3, <1>4
<1>7. output' \in [Files -> Nat]
  BY <1>2, <1>4
<1>8. Accepts(call)' /\ Parses(solution)' = Parses(solution') /\ FilesOf(call)' = FilesOf(call)
  BY <1>4 DEF Parses
<1>9. RunInv'
  BY <1>1, <1>4, <1>5, <1>6, <1>8 DEF RunInv
<1>10. ManifestInv'
  BY <1>4 DEF ManifestInv
<1>11. QED
  BY <1>1, <1>4, <1>7, <1>9, <1>10 DEF ConversionInv

LEMMA SolvesKeeps ==
  ASSUME ConversionInv, NEW epochs \in Outcomes, Solves(epochs)
  PROVE  ConversionInv'
<1>1. /\ Running /\ Next_file = "solution.pos" /\ UNCHANGED <<manifest, call, calls>>
      /\ output' = [output EXCEPT ![Next_file] = calls]
  BY DEF Solves
<1>2. CASE Parses(epochs)
  <2>1. step' = step + 1 /\ solution' = epochs
    BY <1>2 DEF Solves
  <2>2. QED
    BY <1>1, <1>2, <2>1, FileKeeps
<1>3. CASE ~Parses(epochs)
  <2>1. step' = -1 /\ step # -1
    BY <1>1, <1>3, FilesTyped DEF Solves, Running
  <2>2. output' \in [Files -> Nat]
    BY <1>1 DEF ConversionInv, Files
  <2>3. QED
    BY <1>1, <2>1, <2>2, StopKeeps
<1>4. QED
  BY <1>2, <1>3

LEMMA ManifestKeeps ==
  ASSUME ConversionInv, WritesManifest_json
  PROVE  ConversionInv'
<1>1. /\ step = Len(FilesOf(call)) /\ FilesOf(call) \in Seq(Files) /\ step # -1
      /\ step' = -1 /\ UNCHANGED <<output, calls>>
  BY FilesTyped DEF WritesManifest_json
<1>2. PICK m : /\ m = manifest'
               /\ m = [status |-> Status(call), of |-> call, by |-> calls,
                       files |-> ToSet(FilesOf(call)), epochs |-> solution,
                       duplicates |-> Duplicates(Epochs(call.rover)),
                       clock |-> ClockStatus(call.rover)]
  BY DEF WritesManifest_json
<1>3. /\ m.status = Status(call) /\ m.of = call /\ m.by = calls
      /\ m.files = ToSet(FilesOf(call)) /\ m.epochs = solution
      /\ m.duplicates = Duplicates(Epochs(call.rover)) /\ m.clock = ClockStatus(call.rover)
  BY <1>2
<1>4. WrittenFiles = ToSet(FilesOf(call))
  BY <1>1 DEF WrittenFiles, ToSet
<1>5. /\ call \in Calls /\ Accepts(call) /\ calls > 0
      /\ \A f \in Files : output[f] = IF f \in WrittenFiles THEN calls ELSE 0
      /\ "solution.pos" \in WrittenFiles => solution \in Outcomes /\ Parses(solution)
  BY <1>1 DEF ConversionInv, RunInv
<1>6. /\ m.of \in Calls /\ Accepts(m.of) /\ m.by > 0
      /\ m.status = Status(m.of) /\ m.files = ToSet(FilesOf(m.of))
      /\ "solution.pos" \in m.files => m.epochs \in Outcomes /\ Parses(m.epochs)
      /\ m.duplicates = Duplicates(Epochs(m.of.rover))
      /\ m.clock = ClockStatus(m.of.rover)
      /\ \A f \in Files : output'[f] = IF f \in m.files THEN m.by ELSE 0
  BY <1>1, <1>3, <1>4, <1>5
<1>7. ManifestInv'
  BY <1>2, <1>6 DEF ManifestInv
<1>8. QED
  BY <1>1, <1>7 DEF ConversionInv, RunInv

LEMMA ConversionContinues ==
  ASSUME ConversionInv, [ConversionNext]_conversionVars
  PROVE  ConversionInv'
<1>1. CASE WritesFile
  BY <1>1, FileKeeps DEF WritesFile
<1>2. CASE ConversionFails
  <2>1. step # -1
    BY <1>2, FilesTyped DEF ConversionFails, Running
  <2>2. output' \in [Files -> Nat]
    BY <1>2 DEF ConversionFails, ConversionInv
  <2>3. QED
    BY <1>2, <2>1, <2>2, StopKeeps DEF ConversionFails
<1>3. CASE FailsLate
  <2>1. step # -1
    BY <1>3, FilesTyped DEF FailsLate
  <2>2. QED
    BY <1>3, <2>1, StopKeeps DEF FailsLate, ConversionInv
<1>4. CASE UNCHANGED conversionVars
  BY <1>4 DEF conversionVars, ConversionInv, RunInv, ManifestInv, WrittenFiles
<1>5. QED
  BY <1>1, <1>2, <1>3, <1>4, ExecuteKeeps, SolvesKeeps, ManifestKeeps DEF ConversionNext

\* A pair that was accepted, and whose solution was parsed, is sound.
LEMMA PairsAreSound ==
  ASSUME ManifestInv, manifest # NoManifest, manifest.status = "PASS"
  PROVE  PairIsSound(manifest)
<1>1. PICK m, rover, base : m = manifest /\ rover = m.of.rover /\ base = m.of.base
  OBVIOUS
<1>2. /\ m.of \in Calls /\ Accepts(m.of) /\ Status(m.of) = "PASS"
      /\ m.files = ToSet(FilesOf(m.of))
      /\ "solution.pos" \in m.files => m.epochs \in Outcomes /\ Parses(m.epochs)
      /\ m.duplicates = Duplicates(Epochs(rover))
  BY <1>1 DEF ManifestInv
<1>3. base # NoStream /\ m.epochs \in Seq(Nat) /\ Parses(m.epochs)
  BY <1>1, <1>2, PassSolves, ConversionAssumption
<1>4. rover \in DOMAIN Streams /\ base \in DOMAIN Streams
  BY <1>1, <1>2, <1>3, ConversionAssumption
<1>5. /\ Epochs(rover) # <<>> /\ Epochs(base) # <<>>
      /\ NonMonotonic(Epochs(base)) = 0 /\ NonMonotonic(Epochs(rover)) = 0
      /\ Device(base) # Device(rover) /\ Overlap(base, rover)
  BY <1>1, <1>2, <1>3 DEF Accepts, Readable
<1>6. Epochs(rover) \in Seq(Int) /\ Epochs(base) \in Seq(Int)
  <2>1. \A e \in Seq(Nat) : e \in Seq(Int)
    OBVIOUS
  <2>2. QED
    BY <1>4, <2>1, EpochsTyped
<1>7. Sorted(Epochs(rover)) /\ Sorted(Epochs(base))
  BY <1>5, <1>6, NoneBackward
<1>8. m.duplicates = Len(Epochs(rover)) - Cardinality(ToSet(Epochs(rover)))
  BY <1>2, <1>6, <1>7, RepeatsAreCounted
<1>9. /\ Earliest(rover) \in Nat /\ Latest(rover) \in Nat /\ Earliest(rover) <= Latest(rover)
      /\ Earliest(base) \in Nat /\ Latest(base) \in Nat /\ Earliest(base) <= Latest(base)
  BY <1>4, <1>5, <1>7, EndsOfSorted
<1>10. \E e \in 0 .. Latest(rover) : /\ Earliest(rover) <= e
                                     /\ e \in Earliest(base) .. Latest(base)
  <2>1. CASE Earliest(base) <= Earliest(rover)
    <3>1. Earliest(rover) <= Latest(base)
      BY <1>5, <1>9, <2>1 DEF Overlap
    <3>2. QED
      BY <1>9, <2>1, <3>1
  <2>2. CASE Earliest(rover) <= Earliest(base)
    <3>1. Earliest(base) <= Latest(rover)
      BY <1>5, <1>9, <2>2 DEF Overlap
    <3>2. QED
      BY <1>9, <2>2, <3>1
  <2>3. QED
    BY <1>9, <2>1, <2>2
<1>11. m.epochs # <<>> /\ Sorted(m.epochs) /\ IsInjective(m.epochs)
  <2>1. m.epochs \in Seq(Int)
    BY <1>3
  <2>2. /\ m.epochs # <<>> /\ IsInjective(m.epochs)
        /\ \A i \in Steps(m.epochs) : m.epochs[i] <= m.epochs[i + 1]
    BY <1>3 DEF Parses
  <2>3. QED
    BY <2>1, <2>2, NeighboursSort
<1>12. QED
  BY <1>1, <1>5, <1>7, <1>8, <1>10, <1>11 DEF PairIsSound

\* A manifest describes its directory, whatever calls were made, refused,
\* failed or killed before, and whatever streams they were given; one that
\* passes is of a sound pair.
THEOREM ManifestsAreTrue == ConversionSpec => []ManifestsDescribe
<1>1. ConversionInv => ManifestsDescribe
  <2> SUFFICES ASSUME ConversionInv, manifest # NoManifest
               PROVE  /\ manifest.by > 0
                      /\ \A f \in Files :
                           output[f] = IF f \in manifest.files THEN manifest.by ELSE 0
                      /\ manifest.status = "PASS" => PairIsSound(manifest)
                      /\ manifest.clock = "ALIGNED" =>
                           \A i \in DOMAIN Deltas(manifest.of.rover) :
                             Deltas(manifest.of.rover)[i] \in -8 .. 8
    BY DEF ManifestsDescribe
  <2>1. /\ manifest.by > 0
        /\ \A f \in Files : output[f] = IF f \in manifest.files THEN manifest.by ELSE 0
        /\ manifest.of \in Calls /\ manifest.clock = ClockStatus(manifest.of.rover)
    BY DEF ConversionInv, ManifestInv
  <2>2. manifest.status = "PASS" => PairIsSound(manifest)
    BY PairsAreSound DEF ConversionInv
  <2>3. manifest.of.rover \in DOMAIN Streams
    BY <2>1, ConversionAssumption
  <2>4. QED
    BY <2>1, <2>2, <2>3, AlignedIsNear
<1>2. ConversionInv /\ [ConversionNext]_conversionVars => ConversionInv'
  BY ConversionContinues
<1>3. QED
  BY <1>1, <1>2, ConversionStarts, PTL DEF ConversionSpec

-----------------------------------------------------------------------------
(* The samples of a dataset (Dataset)                                      *)

RowsRead == measurements \in Seq(Persisted)

Claims(i, external, d, t, q) ==
  /\ Identity(measurements[i]) = <<Site, d, t, q>>
  /\ (measurements[i].source = "external") = external

\* Who an admissible row is from tells whether it is external.
LEMMA IdentityTellsSource ==
  ASSUME NEW i, NEW j, Adapts(measurements[i]), Adapts(measurements[j]),
         Identity(measurements[i]) = Identity(measurements[j])
  PROVE  (measurements[i].source = "external") = (measurements[j].source = "external")
<1>1. measurements[i].device = measurements[j].device
  BY DEF Identity
<1>2. ExternalDevice \notin Nodes
  BY DatasetAssumption
<1>3. QED
  BY <1>1, <1>2 DEF Adapts, ValidExternal, ValidNode

\* Of the admissible rows of one identity the audit accepts the first, and no
\* other.
LEMMA AuditKeepsTheFirst ==
  ASSUME RowsRead, NEW i \in DOMAIN measurements, Adapts(measurements[i])
  PROVE  \E first \in Audit(measurements) :
           /\ Identity(measurements[first]) = Identity(measurements[i])
           /\ \A j \in DOMAIN measurements :
                Adapts(measurements[j]) /\ Identity(measurements[j]) = Identity(measurements[i])
                  => first <= j /\ (j \in Audit(measurements) => j = first)
<1> DEFINE Alike == {j \in DOMAIN measurements :
                       /\ Adapts(measurements[j])
                       /\ Identity(measurements[j]) = Identity(measurements[i])}
<1>1. DOMAIN measurements = 1 .. Len(measurements) /\ Len(measurements) \in Nat
  BY DEF RowsRead
<1>2. IsFiniteSet(Alike) /\ Alike \in SUBSET Int /\ Alike # {}
  <2>1. Alike \in SUBSET (1 .. Len(measurements)) /\ IsFiniteSet(1 .. Len(measurements))
    BY <1>1, FS_Interval
  <2>2. IsFiniteSet(Alike)
    BY <2>1, FS_Subset
  <2>3. QED
    BY <1>1, <2>2
<1>3. PICK first \in Alike : \A j \in Alike : first <= j
  BY <1>2, LeastOf
<1>4. \A j \in 1 .. first - 1 : ~(/\ Adapts(measurements[j])
                                 /\ Identity(measurements[j]) = Identity(measurements[first]))
  <2>1. ASSUME NEW j \in 1 .. first - 1, Adapts(measurements[j]),
               Identity(measurements[j]) = Identity(measurements[first])
        PROVE  FALSE
    <3>1. j \in DOMAIN measurements /\ ~(first <= j)
      BY <1>1, <1>3
    <3>2. j \in Alike
      BY <1>3, <2>1, <3>1
    <3>3. QED
      BY <1>3, <3>1, <3>2
  <2>2. QED
    BY <2>1
<1>5. first \in Audit(measurements)
  BY <1>3, <1>4 DEF Audit
<1>6. ASSUME NEW j \in Alike, j \in Audit(measurements)
      PROVE  j = first
  <2>1. first <= j /\ first \in Int /\ j \in Int /\ 1 <= first
    BY <1>1, <1>3
  <2>2. ~(first \in 1 .. j - 1)
    BY <1>3, <1>6 DEF Audit
  <2>3. QED
    BY <2>1, <2>2
<1>7. QED
  BY <1>3, <1>5, <1>6

\* A cell of an accepted row is that of the first admissible one.
LEMMA CellsAreFirst ==
  ASSUME RowsRead, NEW external \in BOOLEAN, NEW d, NEW t, NEW q
  PROVE  CellOf(Audit(measurements), external, d, t, q) = FirstAdmissible(external, d, t, q)
<1> DEFINE F == {i \in Audit(measurements) : Claims(i, external, d, t, q)}
           G == {i \in DOMAIN measurements :
                   Adapts(measurements[i]) /\ Claims(i, external, d, t, q)}
<1>1. CellOf(Audit(measurements), external, d, t, q)
        = IF F = {} THEN Missing ELSE Cell(measurements[CHOOSE i \in F : TRUE])
  BY DEF CellOf, Claims
<1>2. FirstAdmissible(external, d, t, q)
        = IF G = {} THEN Missing
          ELSE Cell(measurements[CHOOSE i \in G : \A j \in G : i <= j])
  BY DEF FirstAdmissible, Claims
<1>3. F \subseteq G /\ G \subseteq DOMAIN measurements
  BY DEF Audit
<1>4. CASE G = {}
  BY <1>1, <1>2, <1>3, <1>4
<1>5. CASE G # {}
  <2>1. PICK i : i \in G
    BY <1>5
  <2>2. i \in DOMAIN measurements /\ Adapts(measurements[i]) /\ Claims(i, external, d, t, q)
    BY <2>1
  <2>3. PICK first \in Audit(measurements) :
           /\ Identity(measurements[first]) = Identity(measurements[i])
           /\ \A j \in DOMAIN measurements :
                Adapts(measurements[j]) /\ Identity(measurements[j]) = Identity(measurements[i])
                  => first <= j /\ (j \in Audit(measurements) => j = first)
    BY <2>2, AuditKeepsTheFirst
  <2>4. first \in DOMAIN measurements /\ Adapts(measurements[first])
    BY DEF Audit
  <2>5. Claims(first, external, d, t, q)
    BY <2>2, <2>3, <2>4, IdentityTellsSource DEF Claims
  <2>6. first \in F /\ first \in G
    BY <2>3, <2>4, <2>5
  <2>7. \A j \in G : first <= j /\ (j \in Audit(measurements) => j = first)
    BY <2>2, <2>3 DEF Claims
  <2>8. F = {first}
    BY <1>3, <2>6, <2>7
  <2>9. (CHOOSE j \in G : \A k \in G : j <= k) = first
    <3>1. G \subseteq Int
      BY <1>3 DEF RowsRead
    <3>2. \A j \in G : (\A k \in G : j <= k) => j = first
      BY <2>6, <2>7, <3>1
    <3>3. QED
      BY <2>6, <2>7, <3>2
  <2>10. (CHOOSE j \in F : TRUE) = first
    BY <2>8
  <2>11. QED
    BY <1>1, <1>2, <1>5, <2>8, <2>9, <2>10
<1>6. QED
  BY <1>4, <1>5


\* The instants of the frames: the observed ones in increasing order.
Instants == Ascending(Observed)

LEMMA InstantsOrder ==
  ASSUME RowsRead
  PROVE  /\ Observed = {measurements[i].time : i \in Audit(measurements)}
         /\ Observed \subseteq Nat /\ IsFiniteSet(Observed) /\ Cardinality(Observed) \in Nat
         /\ Instants \in [1 .. Cardinality(Observed) -> Observed]
         /\ \A t \in Observed : \E k \in 1 .. Cardinality(Observed) : Instants[k] = t
         /\ \A j, k \in 1 .. Cardinality(Observed) : j < k => Instants[j] < Instants[k]
<1>1. \A i \in DOMAIN measurements : measurements[i] \in Persisted /\ measurements[i].time \in Nat
  <2>1. \A i \in DOMAIN measurements : measurements[i] \in Persisted
    BY DEF RowsRead
  <2>2. QED
    BY <2>1, DatasetAssumption DEF Times
<1>2. Observed \subseteq Nat
  BY <1>1 DEF Observed
<1>3. Observed = {measurements[i].time : i \in Audit(measurements)}
  <2>1. Audit(measurements) \subseteq {j \in DOMAIN measurements : Adapts(measurements[j])}
    BY DEF Audit
  <2>2. ASSUME NEW t \in Observed
        PROVE  \E i \in Audit(measurements) : measurements[i].time = t
    <3>1. PICK i \in DOMAIN measurements : Adapts(measurements[i]) /\ measurements[i].time = t
      BY <2>2 DEF Observed
    <3>2. PICK first \in Audit(measurements) :
            Identity(measurements[first]) = Identity(measurements[i])
      BY <3>1, AuditKeepsTheFirst
    <3>3. QED
      BY <3>1, <3>2 DEF Identity
  <2>3. QED
    BY <2>1, <2>2 DEF Observed
<1>4. IsFiniteSet(Observed)
  <2>1. IsFiniteSet(Audit(measurements))
    <3>1. Audit(measurements) \in SUBSET (1 .. Len(measurements)) /\ Len(measurements) \in Nat
      BY DEF RowsRead, Audit
    <3>2. IsFiniteSet(1 .. Len(measurements))
      BY <3>1, FS_Interval
    <3>3. QED
      BY <3>1, <3>2, FS_Subset
  <2> DEFINE time == [i \in Audit(measurements) |-> measurements[i].time]
  <2>2. time \in Surjection(Audit(measurements), Observed)
    BY <1>3 DEF Surjection
  <2>3. QED
    BY <2>1, <2>2, FS_Surjection
<1>5. Observed \in SUBSET Int
  BY <1>2
<1>6. QED
  BY <1>2, <1>3, <1>4, <1>5, AscendingOrders DEF Instants

\* Up to the n-th instant there are n.
LEMMA InstantsCount ==
  ASSUME RowsRead, NEW n \in 1 .. Cardinality(Observed)
  PROVE  Cardinality({t \in Observed : t <= Instants[n]}) = n
<1> DEFINE D == 1 .. n
           U == {t \in Observed : t <= Instants[n]}
           f == [k \in D |-> Instants[k]]
<1>1. /\ Cardinality(Observed) \in Nat /\ Observed \subseteq Nat
      /\ Instants \in [1 .. Cardinality(Observed) -> Observed]
      /\ \A t \in Observed : \E k \in 1 .. Cardinality(Observed) : Instants[k] = t
      /\ \A j, k \in 1 .. Cardinality(Observed) : j < k => Instants[j] < Instants[k]
  BY InstantsOrder
<1>2. \A k \in D : k \in 1 .. Cardinality(Observed) /\ Instants[k] \in Observed
  BY <1>1
<1>3. ASSUME NEW k \in D
      PROVE  Instants[k] \in U
  <2>1. k < n => Instants[k] < Instants[n]
    BY <1>1, <1>2
  <2>2. Instants[k] \in Nat /\ Instants[n] \in Nat
    BY <1>1, <1>2
  <2>3. k = n \/ k < n
    BY <1>1
  <2>4. Instants[k] <= Instants[n]
    BY <2>1, <2>2, <2>3
  <2>5. QED
    BY <1>2, <2>4
<1>4. ASSUME NEW t \in U
      PROVE  \E k \in D : Instants[k] = t
  <2>1. PICK k \in 1 .. Cardinality(Observed) : Instants[k] = t
    BY <1>1
  <2>2. n < k => Instants[n] < Instants[k]
    BY <1>1
  <2>3. t \in Nat /\ Instants[n] \in Nat /\ t <= Instants[n]
    BY <1>1
  <2>4. ~(n < k)
    BY <2>1, <2>2, <2>3
  <2>5. QED
    BY <1>1, <2>1, <2>4
<1>5. ASSUME NEW j \in D, NEW k \in D, Instants[j] = Instants[k]
      PROVE  j = k
  <2>1. /\ j < k => Instants[j] < Instants[k]
        /\ k < j => Instants[k] < Instants[j]
    BY <1>1, <1>2
  <2>2. Instants[j] \in Nat
    BY <1>1, <1>2
  <2>3. ~(j < k) /\ ~(k < j)
    BY <1>5, <2>1, <2>2
  <2>4. QED
    BY <1>1, <2>3
<1>6. f \in Surjection(D, U)
  BY <1>3, <1>4 DEF Surjection
<1>7. f \in Injection(D, U)
  BY <1>3, <1>5 DEF Injection, IsInjective
<1>8. f \in Bijection(D, U)
  BY <1>6, <1>7 DEF Bijection
<1>9. IsFiniteSet(D) /\ Cardinality(D) = n
  BY <1>1, FS_Interval
<1>10. QED
  BY <1>8, <1>9, FS_Bijection DEF ExistsBijection


\* The frames are those of the observed instants, from the accepted rows.
FramesAlign ==
  frames = [k \in 1 .. Cardinality(Observed) |-> Frame(Audit(measurements), Instants[k])]

\* The sample is built from the window that was asked for.
SampleIsBuilt ==
  /\ asked.end \in 1 .. MaxPersisted /\ asked.length \in 1 .. MaxPersisted
  /\ Selectable(asked.end, asked.length)
  /\ \E devices \in SUBSET Nodes, target \in Targets :
       LET window == select_trailing_frames(asked.end, asked.length)
       IN /\ ValidSample(window, devices, target)
          /\ sample = build_temporal_graph_sample(window, devices, target)

DatasetInv ==
  /\ RowsRead
  /\ stage \in {"audited", "aligned", "sampled"} => accepted = Audit(measurements)
  /\ stage \in {"aligned", "sampled"} => FramesAlign
  /\ stage = "sampled" => SampleIsBuilt

LEMMA DatasetStarts == DatasetInit => DatasetInv
BY DEF DatasetInit, DatasetInv, RowsRead

\* Nothing about the rows changes once they are read.
LEMMA RowsStay ==
  ASSUME UNCHANGED measurements
  PROVE  /\ Audit(measurements)' = Audit(measurements)
         /\ RowsRead' = RowsRead
         /\ FramesAlign' = (frames' = [k \in 1 .. Cardinality(Observed) |->
                                        Frame(Audit(measurements), Instants[k])])
         /\ UNCHANGED frames => FramesAlign' = FramesAlign
<1>1. Audit(measurements)' = Audit(measurements) /\ RowsRead' = RowsRead
  BY DEF Audit, RowsRead
<1>2. Observed' = Observed
  BY DEF Observed
<1>3. Instants' = Instants
  BY <1>2 DEF Instants, Ascending, SortedBy, PlaceOf
<1>4. \A I, t : Frame(I, t)' = Frame(I, t)
  BY DEF Frame, CellOf
<1>5. FramesAlign' = (frames' = [k \in 1 .. Cardinality(Observed) |->
                                  Frame(Audit(measurements), Instants[k])])
  BY <1>1, <1>2, <1>3, <1>4 DEF FramesAlign
<1>6. QED
  BY <1>1, <1>5 DEF FramesAlign

LEMMA AlignsKeeps ==
  ASSUME DatasetInv, Aligns
  PROVE  DatasetInv'
<1>1. /\ accepted = Audit(measurements) /\ RowsRead
      /\ stage' = "aligned" /\ UNCHANGED <<measurements, accepted>>
  BY DEF DatasetInv, Aligns
<1>2. Ascending({measurements[i].time : i \in accepted}) = Instants
  BY <1>1, InstantsOrder DEF Instants
<1>3. DOMAIN Instants = 1 .. Cardinality(Observed)
  BY <1>1, InstantsOrder
<1>4. PICK fs : /\ fs = frames'
                /\ fs = [k \in DOMAIN Instants |-> Frame(Audit(measurements), Instants[k])]
  BY <1>1, <1>2 DEF Aligns
<1>5. fs = [k \in 1 .. Cardinality(Observed) |-> Frame(Audit(measurements), Instants[k])]
  BY <1>3, <1>4
<1>6. FramesAlign'
  BY <1>1, <1>4, <1>5, RowsStay
<1>7. accepted' = Audit(measurements)' /\ RowsRead'
  BY <1>1, RowsStay
<1>8. QED
  BY <1>1, <1>6, <1>7 DEF DatasetInv

LEMMA SamplesKeeps ==
  ASSUME DatasetInv,
         NEW end \in 1 .. MaxPersisted, NEW length \in 1 .. MaxPersisted,
         NEW devices \in SUBSET Nodes, NEW target \in Targets,
         Samples(end, length, devices, target)
  PROVE  DatasetInv'
<1>1. /\ stage = "aligned" /\ stage' \in {"sampled", "refused"}
      /\ UNCHANGED <<measurements, accepted, frames>>
      /\ asked' = [end |-> end, length |-> length]
  BY DEF Samples
<1>2. /\ accepted' = Audit(measurements)' /\ RowsRead' /\ FramesAlign'
  BY <1>1, RowsStay DEF DatasetInv
<1>3. CASE stage' = "sampled"
  <2>1. PICK window : window = select_trailing_frames(end, length)
    OBVIOUS
  <2>2. /\ Selectable(end, length) /\ ValidSample(window, devices, target)
        /\ sample' = build_temporal_graph_sample(window, devices, target)
    BY <1>3, <2>1 DEF Samples
  <2>3. asked'.end = end /\ asked'.length = length
    BY <1>1
  <2>4. /\ Selectable(asked.end, asked.length)' = Selectable(end, length)
        /\ select_trailing_frames(asked.end, asked.length)' = window
    BY <1>1, <2>1, <2>3 DEF Selectable, select_trailing_frames
  <2>5. SampleIsBuilt'
    BY <2>2, <2>3, <2>4 DEF SampleIsBuilt
  <2>6. QED
    BY <1>2, <2>5 DEF DatasetInv
<1>4. CASE stage' = "refused"
  BY <1>2, <1>4 DEF DatasetInv
<1>5. QED
  BY <1>1, <1>3, <1>4

LEMMA DatasetContinues ==
  ASSUME DatasetInv, [DatasetNext]_datasetVars
  PROVE  DatasetInv'
<1>1. CASE Persists
  BY <1>1 DEF Persists, DatasetInv, RowsRead
<1>2. CASE Audits
  BY <1>2, RowsStay DEF Audits, DatasetInv
<1>3. CASE AdaptsAll
  BY <1>3, RowsStay DEF AdaptsAll, DatasetInv
<1>4. CASE Aligns
  BY <1>4, AlignsKeeps
<1>5. CASE \E end, length \in 1 .. MaxPersisted, devices \in SUBSET Nodes \ {{}},
              target \in Targets : Samples(end, length, devices, target)
  BY <1>5, SamplesKeeps
<1>6. CASE UNCHANGED datasetVars
  <2>1. SampleIsBuilt' = SampleIsBuilt
    BY <1>6 DEF datasetVars, SampleIsBuilt, Selectable, select_trailing_frames
  <2>2. QED
    BY <1>6, <2>1, RowsStay DEF datasetVars, DatasetInv
<1>7. QED
  BY <1>1, <1>2, <1>3, <1>4, <1>5, <1>6 DEF DatasetNext


\* The i-th frame of a window is that of the i-th instant asked for.
LEMMA WindowsShift ==
  ASSUME RowsRead, FramesAlign, NEW end \in Nat, NEW length \in Nat, length >= 1,
         Selectable(end, length)
  PROVE  LET window == select_trailing_frames(end, length) IN
           /\ end \in 1 .. Cardinality(Observed) /\ length <= end
           /\ Len(window) = length /\ DOMAIN window = 1 .. length
           /\ \A i \in 1 .. length :
                /\ end - length + i \in 1 .. Cardinality(Observed)
                /\ window[i] = Frame(Audit(measurements), Instants[end - length + i])
<1> DEFINE n == Cardinality(Observed)
           F == {Frame(Audit(measurements), Instants[k]) : k \in 1 .. n}
           window == select_trailing_frames(end, length)
<1>1. n \in Nat
  BY InstantsOrder
<1> HIDE DEF n
<1>2. frames = [k \in 1 .. n |-> Frame(Audit(measurements), Instants[k])]
  BY DEF FramesAlign, n
<1>3. frames \in [1 .. n -> F]
  BY <1>2
<1> HIDE DEF F
<1>4. frames \in Seq(F) /\ Len(frames) = n
  BY <1>1, <1>3
<1>5. end \in 1 .. n /\ length <= end
  BY <1>1, <1>4 DEF Selectable
<1>6. /\ window \in Seq(F) /\ Len(window) = length /\ DOMAIN window = 1 .. length
      /\ \A i \in 1 .. length : window[i] = frames[end - length + i]
  BY <1>1, <1>4, <1>5 DEF select_trailing_frames
<1>7. \A i \in 1 .. length : end - length + i \in 1 .. n
  BY <1>1, <1>5
<1>8. QED
  BY <1>2, <1>5, <1>6, <1>7 DEF n


LEMMA FrameHolds ==
  ASSUME NEW I, NEW t
  PROVE  /\ Frame(I, t).time = t
         /\ \A d \in Nodes, q \in Quantities :
              Frame(I, t).values[d][q] = CellOf(I, FALSE, d, t, q)
         /\ \A q \in Quantities :
              Frame(I, t).context[q] = CellOf(I, TRUE, ExternalDevice, t, q)
BY DEF Frame

\* What SamplesInventNothing says of a sample.
InventsNothing(made, end, length) ==
  LET ts == made.times
      within == {t \in Observed : ts[1] <= t /\ t <= ts[Len(ts)]}
  IN /\ Len(ts) = length /\ within = {ts[i] : i \in DOMAIN ts}
     /\ Cardinality({t \in Observed : t <= ts[Len(ts)]}) = end
     /\ \A t \in within : t < made.target.time
     /\ \A i \in DOMAIN ts :
          /\ \A d \in DOMAIN made.values[i], q \in NodeFeatures :
               made.values[i][d][q] = FirstAdmissible(FALSE, d, ts[i], q)
          /\ \A q \in SiteFeatures :
               made.context[i][q] = FirstAdmissible(TRUE, ExternalDevice, ts[i], q)

\* A sample that is built from its window invents nothing.
LEMMA BuiltInventsNothing ==
  ASSUME RowsRead, FramesAlign, NEW end \in Nat, NEW length \in Nat, length >= 1,
         Selectable(end, length), NEW devices \in SUBSET Nodes, NEW target \in Targets,
         ValidSample(select_trailing_frames(end, length), devices, target),
         NEW made,
         made = build_temporal_graph_sample(select_trailing_frames(end, length), devices, target)
  PROVE  InventsNothing(made, end, length)
<1>1. PICK window : window = select_trailing_frames(end, length)
  OBVIOUS
<1>2. PICK ts : ts = made.times
  OBVIOUS
<1> DEFINE n == Cardinality(Observed)
           K(i) == end - length + i
           within == {t \in Observed : ts[1] <= t /\ t <= ts[Len(ts)]}
<1>3. /\ end \in 1 .. n /\ length <= end
      /\ Len(window) = length /\ DOMAIN window = 1 .. length
      /\ \A i \in 1 .. length :
           K(i) \in 1 .. n /\ window[i] = Frame(Audit(measurements), Instants[K(i)])
  BY <1>1, WindowsShift
<1>4. /\ n \in Nat /\ Observed \subseteq Nat
      /\ Instants \in [1 .. n -> Observed]
      /\ \A t \in Observed : \E k \in 1 .. n : Instants[k] = t
      /\ \A j, k \in 1 .. n : j < k => Instants[j] < Instants[k]
  BY InstantsOrder
<1>5. /\ made.target = target
      /\ ts = [i \in 1 .. length |-> window[i].time]
      /\ made.values = [i \in 1 .. length |->
                          [d \in devices |-> [q \in NodeFeatures |-> window[i].values[d][q]]]]
      /\ made.context = [i \in 1 .. length |-> [q \in SiteFeatures |-> window[i].context[q]]]
  BY <1>1, <1>2, <1>3 DEF build_temporal_graph_sample
<1> HIDE DEF n
<1>6. \A i \in 1 .. length : /\ ts[i] = Instants[K(i)] /\ K(i) \in 1 .. n
                             /\ ts[i] \in Observed /\ ts[i] \in Nat
  <2>1. ASSUME NEW i \in 1 .. length
        PROVE  window[i].time = Instants[K(i)]
    <3>1. window[i] = Frame(Audit(measurements), Instants[K(i)])
      BY <1>3
    <3>2. Frame(Audit(measurements), Instants[K(i)]).time = Instants[K(i)]
      BY FrameHolds
    <3>3. QED
      BY <3>1, <3>2
  <2>2. \A i \in 1 .. length : ts[i] = Instants[K(i)] /\ K(i) \in 1 .. n
    BY <1>3, <1>5, <2>1
  <2>3. QED
    BY <1>4, <2>2
<1>7. ts \in Seq(Nat) /\ Len(ts) = length /\ DOMAIN ts = 1 .. length
  <2>1. ts \in [1 .. length -> Nat]
    BY <1>5, <1>6
  <2>2. QED
    BY <2>1
<1>8. ts[length] = Instants[end] /\ ts[length] \in Nat /\ ts[1] \in Nat
  BY <1>6
<1>9. within = {ts[i] : i \in 1 .. length}
  <2>1. ASSUME NEW i \in 1 .. length
        PROVE  ts[i] \in within
    <3>1. /\ 1 < i => ts[1] < ts[i]
          /\ i < length => ts[i] < ts[length]
      <4>1. /\ 1 \in 1 .. length /\ length \in 1 .. length
            /\ 1 < i => K(1) < K(i)
            /\ i < length => K(i) < K(length)
        BY <1>3
      <4>2. QED
        BY <1>4, <1>6, <4>1
    <3>2. ts[1] <= ts[i] /\ ts[i] <= ts[length]
      <4>1. (i = 1 \/ 1 < i) /\ (i = length \/ i < length)
        OBVIOUS
      <4>2. ts[1] \in Nat /\ ts[i] \in Nat /\ ts[length] \in Nat
        BY <1>6, <1>8
      <4>3. QED
        BY <3>1, <4>1, <4>2
    <3>3. QED
      BY <1>6, <1>7, <3>2
  <2>2. ASSUME NEW t \in within
        PROVE  \E i \in 1 .. length : ts[i] = t
    <3>1. PICK k \in 1 .. n : Instants[k] = t
      BY <1>4
    <3>2. K(1) <= k
      <4>1. K(1) \in 1 .. n /\ ts[1] = Instants[K(1)] /\ ts[1] <= t
        BY <1>6, <2>2
      <4>2. k < K(1) => Instants[k] < Instants[K(1)]
        BY <1>4, <4>1
      <4>3. Instants[k] \in Nat /\ Instants[K(1)] \in Nat
        BY <1>4, <4>1
      <4>4. ~(k < K(1))
        BY <3>1, <4>1, <4>2, <4>3
      <4>5. QED
        BY <1>4, <4>1, <4>4
    <3>3. k <= end
      <4>1. end \in 1 .. n /\ t <= Instants[end]
        BY <1>3, <1>7, <1>8, <2>2
      <4>2. end < k => Instants[end] < Instants[k]
        BY <1>4, <4>1
      <4>3. Instants[k] \in Nat /\ Instants[end] \in Nat
        BY <1>4, <4>1
      <4>4. ~(end < k)
        BY <3>1, <4>1, <4>2, <4>3
      <4>5. QED
        BY <1>4, <4>1, <4>4
    <3>4. k - (end - length) \in 1 .. length /\ K(k - (end - length)) = k
      BY <1>3, <1>4, <3>2, <3>3
    <3>5. QED
      BY <1>6, <3>1, <3>4
  <2>3. QED
    BY <2>1, <2>2
<1>10. Cardinality({t \in Observed : t <= ts[Len(ts)]}) = end
  BY <1>3, <1>7, <1>8, InstantsCount DEF n
<1>11. \A t \in within : t < made.target.time
  <2>1. target.time > window[Len(window)].time /\ target.time \in Nat
    BY <1>1, DatasetAssumption DEF ValidSample
  <2>2. window[Len(window)].time = ts[length]
    BY <1>3, <1>5
  <2>3. QED
    BY <1>4, <1>5, <1>7, <1>8, <2>1, <2>2
<1>12. ASSUME NEW i \in 1 .. length
       PROVE  /\ \A d \in DOMAIN made.values[i], q \in NodeFeatures :
                   made.values[i][d][q] = FirstAdmissible(FALSE, d, ts[i], q)
              /\ \A q \in SiteFeatures :
                   made.context[i][q] = FirstAdmissible(TRUE, ExternalDevice, ts[i], q)
  <2>1. window[i] = Frame(Audit(measurements), ts[i])
    BY <1>3, <1>6
  <2>2. PICK I : I = Audit(measurements)
    OBVIOUS
  <2>3. /\ \A d \in Nodes, q \in Quantities :
             window[i].values[d][q] = CellOf(I, FALSE, d, ts[i], q)
        /\ \A q \in Quantities :
             window[i].context[q] = CellOf(I, TRUE, ExternalDevice, ts[i], q)
    <3>1. window[i] = Frame(I, ts[i])
      BY <2>1, <2>2
    <3>2. PICK f : f = Frame(I, ts[i])
      OBVIOUS
    <3>3. /\ \A d \in Nodes, q \in Quantities : f.values[d][q] = CellOf(I, FALSE, d, ts[i], q)
          /\ \A q \in Quantities : f.context[q] = CellOf(I, TRUE, ExternalDevice, ts[i], q)
      <4>1. ASSUME NEW d \in Nodes, NEW q \in Quantities
            PROVE  f.values[d][q] = CellOf(I, FALSE, d, ts[i], q)
        BY <3>2 DEF Frame
      <4>2. ASSUME NEW q \in Quantities
            PROVE  f.context[q] = CellOf(I, TRUE, ExternalDevice, ts[i], q)
        BY <3>2 DEF Frame
      <4>3. QED
        BY <4>1, <4>2
    <3>4. QED
      BY <3>1, <3>2, <3>3
  <2>4. ASSUME NEW d \in DOMAIN made.values[i], NEW q \in NodeFeatures
        PROVE  made.values[i][d][q] = FirstAdmissible(FALSE, d, ts[i], q)
    <3>1. d \in devices /\ made.values[i][d][q] = window[i].values[d][q]
      BY <1>5
    <3>2. d \in Nodes /\ q \in Quantities
      BY <3>1, DatasetAssumption
    <3>3. made.values[i][d][q] = CellOf(Audit(measurements), FALSE, d, ts[i], q)
      BY <2>2, <2>3, <3>1, <3>2
    <3>4. QED
      BY <3>3, CellsAreFirst
  <2>5. ASSUME NEW q \in SiteFeatures
        PROVE  made.context[i][q] = FirstAdmissible(TRUE, ExternalDevice, ts[i], q)
    <3>1. made.context[i][q] = window[i].context[q]
      BY <1>5
    <3>2. q \in Quantities
      BY DatasetAssumption
    <3>3. made.context[i][q] = CellOf(Audit(measurements), TRUE, ExternalDevice, ts[i], q)
      BY <2>2, <2>3, <3>1, <3>2
    <3>4. QED
      BY <3>3, CellsAreFirst
  <2>6. QED
    BY <2>4, <2>5
<1>13. /\ Len(made.times) = length
       /\ within = {t \in Observed : made.times[1] <= t /\ t <= made.times[Len(made.times)]}
       /\ within = {made.times[i] : i \in DOMAIN made.times}
       /\ Cardinality({t \in Observed : t <= made.times[Len(made.times)]}) = end
  BY <1>2, <1>7, <1>9, <1>10
<1>14. \A i \in DOMAIN made.times :
         /\ \A d \in DOMAIN made.values[i], q \in NodeFeatures :
              made.values[i][d][q] = FirstAdmissible(FALSE, d, made.times[i], q)
         /\ \A q \in SiteFeatures :
              made.context[i][q] = FirstAdmissible(TRUE, ExternalDevice, made.times[i], q)
  BY <1>2, <1>7, <1>12
<1> HIDE DEF within
<1>15. QED
  BY <1>11, <1>13, <1>14 DEF InventsNothing

\* Whatever rows are read, however often and in whatever order, and whatever
\* window and target are asked for: a sample that is built has every instant
\* observed in its window and no other, before its target, and in each cell
\* what the first admissible row says.
THEOREM NothingIsInvented == DatasetSpec => []SamplesInventNothing
<1>1. DatasetInv => SamplesInventNothing
  <2> SUFFICES ASSUME DatasetInv, stage = "sampled"
               PROVE  SamplesInventNothing
    BY DEF SamplesInventNothing
  <2>1. RowsRead /\ FramesAlign /\ SampleIsBuilt /\ MaxPersisted \in Nat
    BY DatasetAssumption DEF DatasetInv
  <2>2. PICK devices \in SUBSET Nodes, target \in Targets :
          LET window == select_trailing_frames(asked.end, asked.length)
          IN /\ ValidSample(window, devices, target)
             /\ sample = build_temporal_graph_sample(window, devices, target)
    BY <2>1 DEF SampleIsBuilt
  <2>3. /\ Selectable(asked.end, asked.length)
        /\ asked.end \in Nat /\ asked.length \in Nat /\ asked.length >= 1
    BY <2>1 DEF SampleIsBuilt
  <2>4. PICK end, length : end = asked.end /\ length = asked.length
    OBVIOUS
  <2>5. PICK made : made = sample
    OBVIOUS
  <2>6. /\ Selectable(end, length) /\ end \in Nat /\ length \in Nat /\ length >= 1
        /\ ValidSample(select_trailing_frames(end, length), devices, target)
        /\ made = build_temporal_graph_sample(select_trailing_frames(end, length),
                                              devices, target)
    BY <2>2, <2>3, <2>4, <2>5
  <2>7. InventsNothing(made, end, length)
    BY <2>1, <2>6, BuiltInventsNothing
  <2>8. InventsNothing(sample, asked.end, asked.length)
    BY <2>4, <2>5, <2>7
  <2>9. QED
    BY <2>8 DEF InventsNothing, SamplesInventNothing
<1>2. DatasetInv /\ [DatasetNext]_datasetVars => DatasetInv'
  BY DatasetContinues
<1>3. QED
  BY <1>1, <1>2, DatasetStarts, PTL DEF DatasetSpec


-----------------------------------------------------------------------------
(* What a file leaves (SampleIngest)                                       *)

Occurs(s, x) == \E k \in DOMAIN s : s[k] = x

LEMMA OccursInBoth ==
  ASSUME NEW S, NEW s \in Seq(S), NEW t \in Seq(S), NEW x, Occurs(s, x) \/ Occurs(t, x)
  PROVE  Occurs(s \o t, x)
<1>1. /\ DOMAIN s = 1 .. Len(s) /\ DOMAIN t = 1 .. Len(t) /\ Len(s) \in Nat /\ Len(t) \in Nat
      /\ DOMAIN (s \o t) = 1 .. Len(s) + Len(t)
      /\ \A k \in 1 .. Len(s) : (s \o t)[k] = s[k]
      /\ \A k \in 1 .. Len(t) : (s \o t)[Len(s) + k] = t[k]
  OBVIOUS
<1>2. CASE Occurs(s, x)
  BY <1>1, <1>2 DEF Occurs
<1>3. CASE Occurs(t, x)
  <2>1. PICK k \in 1 .. Len(t) : t[k] = x
    BY <1>1, <1>3 DEF Occurs
  <2>2. Len(s) + k \in DOMAIN (s \o t) /\ (s \o t)[Len(s) + k] = x
    BY <1>1, <2>1
  <2>3. QED
    BY <2>2 DEF Occurs
<1>4. QED
  BY <1>2, <1>3

\* What is picked occurs.
LEMMA PickedOccurs ==
  ASSUME NEW S, NEW s \in Seq(S), NEW I \in SUBSET DOMAIN s, NEW i \in I
  PROVE  Occurs(Picked(s, I), s[i])
<1>1. IsFiniteSet(I) /\ I \in SUBSET Int
  BY PickedTyped
<1>2. PICK k \in 1 .. Cardinality(I) : Ascending(I)[k] = i
  BY <1>1, AscendingOrders
<1>3. DOMAIN Ascending(I) = 1 .. Cardinality(I)
  BY <1>1, AscendingOrders
<1>4. QED
  BY <1>2, <1>3 DEF Occurs, Picked

\* The files that are served: validated and parsed.
Served(u) == u \in Uploads /\ validate_headers(u) /\ route_and_parse(u)

LEMMA FilesAreTyped ==
  ASSUME NEW u, Served(u)
  PROVE  /\ u.rows \in Seq(ToSet(u.rows))
         /\ Positions(u) \in Seq(ToSet(u.rows)) /\ AccelRows(u) \in Seq(ToSet(u.rows))
         /\ u.type = "accel" => AccelRows(u) # <<>>
<1>1. u.rows \in Seq(ToSet(u.rows)) /\ DOMAIN u.rows = 1 .. Len(u.rows) /\ Len(u.rows) \in Nat
  BY SampleAssumption DEF Served
<1>2. \/ u.mode = "lora" /\ u.type = "gnss" /\ u.rows # <<>>
      \/ u.type = "accel" /\ Len(u.rows) >= 2
  <2>1. CASE Route(u) = <<"lora", "gnss", "base">> /\ parse_combined_gnss_csv(u)
    BY <2>1 DEF Route, parse_combined_gnss_csv
  <2>2. CASE Route(u) = <<"lora", "accel", "rover">> /\ parse_lora_accel_csv(u)
    BY <2>2 DEF Route, parse_lora_accel_csv
  <2>3. CASE Route(u) = <<"4g", "accel", "rover">> /\ parse_accel_csv_single_auxiliary_rawx(u)
    <3>1. PICK i \in 1 .. Len(u.rows) : ~u.rows[i].marked
      BY <1>1, <2>3 DEF parse_accel_csv_single_auxiliary_rawx
    <3>2. Len(u.rows) \in {j \in DOMAIN u.rows : u.rows[j].marked}
      BY <2>3 DEF parse_accel_csv_single_auxiliary_rawx
    <3>3. Len(u.rows) >= 2
      BY <1>1, <3>1, <3>2
    <3>4. QED
      BY <2>3, <3>3 DEF Route
  <2>4. QED
    BY <2>1, <2>2, <2>3 DEF Served, route_and_parse
<1>3. Positions(u) \in Seq(ToSet(u.rows))
  <2>1. CASE u.type = "gnss"
    BY <1>1, <2>1 DEF Positions
  <2>2. CASE u.type # "gnss"
    <3>1. LastRow(u) \in ToSet(u.rows)
      <4>1. Len(u.rows) \in 1 .. Len(u.rows)
        BY <1>1, <1>2, <2>2
      <4>2. QED
        BY <1>1, <4>1 DEF LastRow
    <3>2. Positions(u) = <<LastRow(u)>> \/ Positions(u) = <<>>
      BY <2>2 DEF Positions
    <3>3. \A S : \A x \in S : <<x>> \in Seq(S) /\ <<>> \in Seq(S)
      OBVIOUS
    <3>4. <<LastRow(u)>> \in Seq(ToSet(u.rows)) /\ <<>> \in Seq(ToSet(u.rows))
      BY <3>1, <3>3
    <3>5. QED
      BY <3>2, <3>4
  <2>3. QED
    BY <2>1, <2>2
<1>4. AccelRows(u) \in Seq(ToSet(u.rows)) /\ (u.type = "accel" => AccelRows(u) # <<>>)
  <2>1. CASE u.type = "accel"
    <3>1. AccelRows(u) = SubSeq(u.rows, 1, Len(u.rows) - 1) /\ Len(u.rows) >= 2
      BY <1>2, <2>1 DEF AccelRows
    <3>2. \A S : \A s \in Seq(S) : Len(s) >= 2 =>
            SubSeq(s, 1, Len(s) - 1) \in Seq(S) /\ Len(SubSeq(s, 1, Len(s) - 1)) = Len(s) - 1
      OBVIOUS
    <3>3. /\ AccelRows(u) \in Seq(ToSet(u.rows))
          /\ Len(AccelRows(u)) = Len(u.rows) - 1
      BY <1>1, <3>1, <3>2
    <3>4. Len(AccelRows(u)) # 0
      BY <1>1, <3>1, <3>3
    <3>5. Len(<<>>) = 0
      OBVIOUS
    <3>6. AccelRows(u) # <<>>
      BY <3>4, <3>5
    <3>7. QED
      BY <3>3, <3>6
  <2>2. CASE u.type # "accel"
    BY <2>2 DEF AccelRows
  <2>3. QED
    BY <2>1, <2>2
<1>5. QED
  BY <1>1, <1>3, <1>4


\* The statements a handler may execute before the file is processed.
MapStep(row) == [do |-> "map", device |-> row.device, time |-> row.time]
EventStep(u) == [do |-> "event", gate |-> analyze_accel_window(AccelRows(u))]
AccelStep == [do |-> "accel"]
Ended == [do |-> "processed"]

FrontSteps(u) ==
  {Raising, AccelStep, EventStep(u), Reading("battery", u.device, u.received),
   [do |-> "observation", device |-> LastRow(u).device, time |-> LastRow(u).time]}
    \cup {Reading(quantity, u.device, AccelRows(u)[1].time) : quantity \in {"vibration", "tilt"}}
    \cup {Reading(quantity, row.device, row.time) :
            quantity \in {"battery", "displacement"}, row \in ToSet(u.rows)}
    \cup {MapStep(row) : row \in ToSet(u.rows)}

LEMMA FrontIsBeforeTheEnd ==
  ASSUME NEW u, NEW x \in FrontSteps(u)
  PROVE  x.do # "processed" /\ (x.do = "event" => x = EventStep(u))
BY DEF FrontSteps, Raising, AccelStep, EventStep, Reading, MapStep

\* A sequence with a step for each row of s.
LEMMA OneStepEach ==
  ASSUME NEW R, NEW s \in Seq(R), NEW S, NEW each,
         each = [i \in DOMAIN s |-> each[i]], \A i \in DOMAIN s : each[i] \in S
  PROVE  each \in Seq(S) /\ \A i \in DOMAIN s : Occurs(each, each[i])
<1>1. DOMAIN s = 1 .. Len(s) /\ Len(s) \in Nat
  OBVIOUS
<1>2. each \in [1 .. Len(s) -> S]
  BY <1>1
<1>3. QED
  BY <1>1, <1>2 DEF Occurs


\* The statements for the positions of a file, unless a device is elsewhere.
LEMMA PositionsPlanned ==
  ASSUME NEW u, Served(u)
  PROVE  LET p == handle_position_rows(u) IN
           /\ p \in Seq(FrontSteps(u))
           /\ \/ Occurs(p, Raising)
              \/ \A i \in DOMAIN Positions(u) :
                   LET row == Positions(u)[i] IN
                     /\ u.type = "gnss" => Occurs(p, Reading("battery", row.device, row.time))
                     /\ row.fix > 0 /\ row.located => Occurs(p, MapStep(row))
                     /\ Displaces(u, row) => Occurs(p, Reading("displacement", row.device, row.time))
<1> DEFINE p == handle_position_rows(u)
           R == ToSet(u.rows)
           S == FrontSteps(u)
           rows == Positions(u)
           OneSite == \A i \in DOMAIN rows : rows[i].device \in DOMAIN Stations
                        /\ Stations[rows[i].device] = Stations[u.device]
           battery == [i \in DOMAIN rows |-> Reading("battery", rows[i].device, rows[i].time)]
           Fixes == {i \in DOMAIN rows : rows[i].fix > 0 /\ rows[i].located}
           fixes == Picked(rows, Fixes)
           places == [i \in DOMAIN fixes |-> MapStep(fixes[i])]
           Moved == {i \in DOMAIN rows : Displaces(u, rows[i])}
           moved == Picked(rows, Moved)
           displacements == [i \in DOMAIN moved |->
                               Reading("displacement", moved[i].device, moved[i].time)]
           first == IF u.type = "gnss" THEN battery ELSE <<>>
<1>1. p = IF ~OneSite THEN <<Raising>> ELSE first \o places \o displacements
  BY DEF handle_position_rows, MapStep
<1>2. rows \in Seq(R) /\ fixes \in Seq(R) /\ moved \in Seq(R)
  <2>1. rows \in Seq(R)
    BY FilesAreTyped
  <2>2. Fixes \in SUBSET DOMAIN rows /\ Moved \in SUBSET DOMAIN rows
    OBVIOUS
  <2> HIDE DEF rows, R, Fixes, Moved
  <2>3. QED
    BY <2>1, <2>2, PickedTyped
<1>3. /\ Raising \in S /\ \A row \in R : MapStep(row) \in S
      /\ \A row \in R, quantity \in {"battery", "displacement"} :
           Reading(quantity, row.device, row.time) \in S
  BY DEF FrontSteps
<1>4. battery \in Seq(S) /\ \A i \in DOMAIN rows : Occurs(battery, battery[i])
  <2>1. \A i \in DOMAIN rows : rows[i] \in R
    BY <1>2
  <2>2. \A i \in DOMAIN rows : battery[i] \in S
    BY <1>3, <2>1
  <2>3. battery = [i \in DOMAIN rows |-> battery[i]]
    OBVIOUS
  <2> HIDE DEF battery, rows, S, R
  <2>4. QED
    BY <1>2, <2>2, <2>3, OneStepEach
<1>5. places \in Seq(S) /\ \A i \in DOMAIN fixes : Occurs(places, places[i])
  <2>1. \A i \in DOMAIN fixes : fixes[i] \in R
    BY <1>2
  <2>2. \A i \in DOMAIN fixes : places[i] \in S
    BY <1>3, <2>1
  <2>3. places = [i \in DOMAIN fixes |-> places[i]]
    OBVIOUS
  <2> HIDE DEF places, fixes, S, R
  <2>4. QED
    BY <1>2, <2>2, <2>3, OneStepEach
<1>6. displacements \in Seq(S) /\ \A i \in DOMAIN moved : Occurs(displacements, displacements[i])
  <2>1. \A i \in DOMAIN moved : moved[i] \in R
    BY <1>2
  <2>2. \A i \in DOMAIN moved : displacements[i] \in S
    BY <1>3, <2>1
  <2>3. displacements = [i \in DOMAIN moved |-> displacements[i]]
    OBVIOUS
  <2> HIDE DEF displacements, moved, S, R
  <2>4. QED
    BY <1>2, <2>2, <2>3, OneStepEach
<1>7. first \in Seq(S) /\ first \o places \in Seq(S) /\ first \o places \o displacements \in Seq(S)
  <2>1. first \in Seq(S)
    BY <1>4
  <2> HIDE DEF first, places, displacements, S
  <2>2. QED
    BY <1>5, <1>6, <2>1
<1>8. ASSUME OneSite, NEW i \in DOMAIN rows
      PROVE  /\ u.type = "gnss" => Occurs(p, Reading("battery", rows[i].device, rows[i].time))
             /\ rows[i].fix > 0 /\ rows[i].located => Occurs(p, MapStep(rows[i]))
             /\ Displaces(u, rows[i])
                  => Occurs(p, Reading("displacement", rows[i].device, rows[i].time))
  <2>1. p = first \o places \o displacements
    BY <1>1, <1>8
  <2>2. \A x : Occurs(first, x) \/ Occurs(places, x) \/ Occurs(displacements, x) => Occurs(p, x)
    <3> HIDE DEF first, places, displacements, S, p
    <3>1. \A x : Occurs(first, x) \/ Occurs(places, x) => Occurs(first \o places, x)
      BY <1>5, <1>7, OccursInBoth
    <3>2. \A x : Occurs(first \o places, x) \/ Occurs(displacements, x) => Occurs(p, x)
      BY <1>6, <1>7, <2>1, OccursInBoth
    <3>3. QED
      BY <3>1, <3>2
  <2>3. ASSUME u.type = "gnss"
        PROVE  Occurs(p, Reading("battery", rows[i].device, rows[i].time))
    <3>1. first = battery /\ battery[i] = Reading("battery", rows[i].device, rows[i].time)
      BY <2>3
    <3> HIDE DEF first, battery, places, displacements, p
    <3>2. QED
      BY <1>4, <2>2, <3>1
  <2>4. ASSUME rows[i].fix > 0 /\ rows[i].located
        PROVE  Occurs(p, MapStep(rows[i]))
    <3>1. i \in Fixes /\ Fixes \in SUBSET DOMAIN rows
      BY <2>4
    <3>2. Occurs(fixes, rows[i])
      <4> HIDE DEF rows, R, Fixes
      <4>1. QED
        BY <1>2, <3>1, PickedOccurs
    <3>3. PICK k \in DOMAIN fixes : fixes[k] = rows[i]
      BY <3>2 DEF Occurs
    <3>4. places[k] = MapStep(rows[i])
      BY <3>3
    <3> HIDE DEF first, fixes, places, displacements, p
    <3>5. QED
      BY <1>5, <2>2, <3>3, <3>4
  <2>5. ASSUME Displaces(u, rows[i])
        PROVE  Occurs(p, Reading("displacement", rows[i].device, rows[i].time))
    <3>1. i \in Moved /\ Moved \in SUBSET DOMAIN rows
      BY <2>5
    <3>2. Occurs(moved, rows[i])
      <4> HIDE DEF rows, R, Moved
      <4>1. QED
        BY <1>2, <3>1, PickedOccurs
    <3>3. PICK k \in DOMAIN moved : moved[k] = rows[i]
      BY <3>2 DEF Occurs
    <3>4. displacements[k] = Reading("displacement", rows[i].device, rows[i].time)
      BY <3>3
    <3> HIDE DEF first, moved, places, displacements, p
    <3>5. QED
      BY <1>6, <2>2, <3>3, <3>4
  <2>6. QED
    BY <2>3, <2>4, <2>5
<1>9. CASE OneSite
  <2>1. p \in Seq(S)
    <3>1. p = first \o places \o displacements
      BY <1>1, <1>9
    <3> HIDE DEF p, first, places, displacements, S
    <3>2. QED
      BY <1>7, <3>1
  <2>2. QED
    BY <1>8, <1>9, <2>1
<1>10. CASE ~OneSite
  <2>1. p = <<Raising>>
    BY <1>1, <1>10
  <2>2. Occurs(<<Raising>>, Raising)
    BY DEF Occurs
  <2> HIDE DEF p, S
  <2>3. p \in Seq(S) /\ Occurs(p, Raising)
    BY <1>3, <2>1, <2>2
  <2>4. QED
    BY <2>3 DEF p, S
<1>11. QED
  BY <1>9, <1>10


\* The statements for the samples of a file, unless one is of another device
\* or the event would end before it starts.
LEMMA AccelPlanned ==
  ASSUME NEW u, Served(u)
  PROVE  LET p == handle_accel_rows(u) IN
           /\ p \in Seq(FrontSteps(u))
           /\ \/ u.type # "accel" \/ Occurs(p, Raising)
              \/ /\ Occurs(p, AccelStep) /\ Occurs(p, EventStep(u))
                 /\ \A quantity \in {"vibration", "tilt"} :
                      analyze_accel_window(AccelRows(u)) # "rejected"
                        => Occurs(p, Reading(quantity, u.device, AccelRows(u)[1].time))
<1> DEFINE p == handle_accel_rows(u)
           S == FrontSteps(u)
           gate == analyze_accel_window(AccelRows(u))
           start == AccelRows(u)[1].time
           Foreign == \E i \in DOMAIN AccelRows(u) : AccelRows(u)[i].device # u.device
           Backward == AccelRows(u)[Len(AccelRows(u))].time < start
           event == IF Backward THEN <<Raising>> ELSE <<EventStep(u)>>
           measured == IF gate = "rejected" THEN <<>>
                       ELSE <<Reading("vibration", u.device, start), Reading("tilt", u.device, start)>>
<1>1. p = IF AccelRows(u) = <<>> THEN <<>>
          ELSE IF Foreign THEN <<Raising>>
          ELSE <<AccelStep>> \o event \o measured
  BY DEF handle_accel_rows, AccelStep, EventStep
<1>2. /\ Raising \in S /\ AccelStep \in S /\ EventStep(u) \in S
      /\ Reading("vibration", u.device, start) \in S /\ Reading("tilt", u.device, start) \in S
  BY DEF FrontSteps
<1>3. \A x, y : /\ Occurs(<<x>>, x)
                /\ Occurs(<<x, y>>, x) /\ Occurs(<<x, y>>, y)
  <2>1. ASSUME NEW x, NEW y
        PROVE  /\ Occurs(<<x>>, x) /\ Occurs(<<x, y>>, x) /\ Occurs(<<x, y>>, y)
    <3>1. 1 \in DOMAIN <<x>> /\ <<x>>[1] = x
      OBVIOUS
    <3>2. 1 \in DOMAIN <<x, y>> /\ <<x, y>>[1] = x /\ 2 \in DOMAIN <<x, y>> /\ <<x, y>>[2] = y
      OBVIOUS
    <3>3. QED
      BY <3>1, <3>2 DEF Occurs
  <2>2. QED
    BY <2>1
<1>4. \A x \in S, y \in S : <<x>> \in Seq(S) /\ <<x, y>> \in Seq(S) /\ <<>> \in Seq(S)
  <2> HIDE DEF S
  <2>1. QED
    OBVIOUS
<1>5. <<AccelStep>> \in Seq(S) /\ event \in Seq(S) /\ measured \in Seq(S)
  BY <1>2, <1>4
<1> HIDE DEF S
<1>6. <<AccelStep>> \o event \in Seq(S) /\ <<AccelStep>> \o event \o measured \in Seq(S)
  <2> HIDE DEF event, measured
  <2>1. QED
    BY <1>5
<1>7. \A x : Occurs(<<AccelStep>>, x) \/ Occurs(event, x) \/ Occurs(measured, x)
               => Occurs(<<AccelStep>> \o event \o measured, x)
  <2> HIDE DEF event, measured
  <2>1. \A x : Occurs(<<AccelStep>>, x) \/ Occurs(event, x) => Occurs(<<AccelStep>> \o event, x)
    BY <1>5, OccursInBoth
  <2>2. \A x : Occurs(<<AccelStep>> \o event, x) \/ Occurs(measured, x)
                 => Occurs(<<AccelStep>> \o event \o measured, x)
    BY <1>5, <1>6, OccursInBoth
  <2>3. QED
    BY <2>1, <2>2
<1>8. Occurs(<<AccelStep>>, AccelStep)
  BY <1>3
<1>9. IF Backward THEN Occurs(event, Raising) ELSE Occurs(event, EventStep(u))
  BY <1>3
<1>10. ASSUME NEW quantity \in {"vibration", "tilt"}, gate # "rejected"
       PROVE  Occurs(measured, Reading(quantity, u.device, start))
  BY <1>3, <1>10
<1> HIDE DEF p, event, measured, Foreign
<1>11. CASE AccelRows(u) = <<>>
  <2>1. u.type # "accel" /\ p = <<>>
    BY <1>1, <1>11, FilesAreTyped
  <2>2. p \in Seq(S)
    BY <1>2, <1>4, <2>1
  <2>3. QED
    BY <2>1, <2>2 DEF p, S
<1>12. CASE AccelRows(u) # <<>> /\ Foreign
  <2>1. p = <<Raising>>
    BY <1>1, <1>12
  <2>2. p \in Seq(S) /\ Occurs(p, Raising)
    BY <1>2, <1>3, <1>4, <2>1
  <2>3. QED
    BY <2>2 DEF p, S
<1>13. CASE AccelRows(u) # <<>> /\ ~Foreign
  <2>1. p = <<AccelStep>> \o event \o measured
    BY <1>1, <1>13
  <2>2. p \in Seq(S) /\ Occurs(p, AccelStep)
    BY <1>6, <1>7, <1>8, <2>1
  <2>3. Occurs(p, Raising) \/ Occurs(p, EventStep(u))
    BY <1>7, <1>9, <2>1
  <2>4. \A quantity \in {"vibration", "tilt"} :
          gate # "rejected" => Occurs(p, Reading(quantity, u.device, start))
    BY <1>7, <1>10, <2>1
  <2>5. QED
    BY <2>2, <2>3, <2>4 DEF p, S
<1>14. QED
  BY <1>11, <1>12, <1>13

ObservationStep(u) ==
  [do |-> "observation", device |-> LastRow(u).device, time |-> LastRow(u).time]

LEMMA FourGPlanned ==
  ASSUME NEW u
  PROVE  /\ FourG(u) \in Seq(FrontSteps(u))
         /\ u.mode = "4g" => Occurs(FourG(u), ObservationStep(u))
         /\ u.mode = "4g" /\ u.battery => Occurs(FourG(u), Reading("battery", u.device, u.received))
<1> DEFINE S == FrontSteps(u)
           seen == ObservationStep(u)
           volts == Reading("battery", u.device, u.received)
           after == IF u.battery THEN <<volts>> ELSE <<>>
<1>1. FourG(u) = IF u.mode = "4g" THEN <<seen>> \o after ELSE <<>>
  BY DEF FourG, ObservationStep
<1>2. seen \in S /\ volts \in S
  BY DEF FrontSteps, ObservationStep
<1> HIDE DEF S, seen, volts
<1>3. <<seen>> \in Seq(S) /\ <<volts>> \in Seq(S) /\ <<>> \in Seq(S)
  BY <1>2
<1>4. after \in Seq(S)
  BY <1>3
<1>5. FourG(u) \in Seq(S)
  <2> HIDE DEF after
  <2>1. QED
    BY <1>1, <1>3, <1>4
<1>6. ASSUME u.mode = "4g", u.battery
      PROVE  Occurs(FourG(u), volts)
  <2>1. FourG(u) = <<seen>> \o <<volts>>
    BY <1>1, <1>6
  <2>2. 1 \in DOMAIN <<volts>> /\ <<volts>>[1] = volts
    OBVIOUS
  <2>3. Occurs(<<volts>>, volts)
    BY <2>2 DEF Occurs
  <2>4. QED
    BY <1>3, <2>1, <2>3, OccursInBoth
<1>7. ASSUME u.mode = "4g"
      PROVE  Occurs(FourG(u), seen)
  <2>1. 1 \in DOMAIN <<seen>> /\ <<seen>>[1] = seen
    OBVIOUS
  <2>2. Occurs(<<seen>>, seen)
    BY <2>1 DEF Occurs
  <2>3. FourG(u) = <<seen>> \o after
    BY <1>1, <1>7
  <2> HIDE DEF after
  <2>4. QED
    BY <1>3, <1>4, <2>2, <2>3, OccursInBoth
<1>8. QED
  BY <1>5, <1>6, <1>7 DEF S, seen, volts

\* A file reads processed after its last statement, and every other comes
\* before.
LEMMA PlanEnds ==
  ASSUME NEW u, Served(u)
  PROVE  /\ Len(Plan(u)) \in Nat \ {0} /\ DOMAIN Plan(u) = 1 .. Len(Plan(u))
         /\ Plan(u) \in Seq(FrontSteps(u) \cup {Ended})
         /\ Plan(u)[Len(Plan(u))] = Ended
         /\ \A i \in 1 .. Len(Plan(u)) - 1 : Plan(u)[i] \in FrontSteps(u)
         /\ \A x : (\/ Occurs(handle_position_rows(u), x) \/ Occurs(handle_accel_rows(u), x)
                    \/ Occurs(FourG(u), x))
                  => Occurs(Plan(u), x)
<1> DEFINE S == FrontSteps(u)
           T == S \cup {Ended}
           p == handle_position_rows(u)
           a == handle_accel_rows(u)
           g == FourG(u)
           front == p \o a \o g
<1>1. p \in Seq(S) /\ a \in Seq(S) /\ g \in Seq(S)
  BY PositionsPlanned, AccelPlanned, FourGPlanned
<1>2. Plan(u) = front \o <<Ended>>
  BY DEF Plan, Ended
<1> HIDE DEF S, p, a, g
<1>3. p \o a \in Seq(S) /\ front \in Seq(S)
  BY <1>1
<1>4. \A x : Occurs(p, x) \/ Occurs(a, x) \/ Occurs(g, x) => Occurs(front, x)
  <2>1. \A x : Occurs(p, x) \/ Occurs(a, x) => Occurs(p \o a, x)
    BY <1>1, OccursInBoth
  <2>2. \A x : Occurs(p \o a, x) \/ Occurs(g, x) => Occurs(front, x)
    BY <1>1, <1>3, OccursInBoth
  <2>3. QED
    BY <2>1, <2>2
<1> HIDE DEF front
<1>5. front \in Seq(T) /\ <<Ended>> \in Seq(T)
  BY <1>3
<1>6. /\ Plan(u) \in Seq(T) /\ Len(front) \in Nat /\ Len(Plan(u)) = Len(front) + 1
      /\ Plan(u)[Len(front) + 1] = Ended
      /\ \A i \in 1 .. Len(front) : Plan(u)[i] = front[i] /\ front[i] \in S
  <2>1. Len(<<Ended>>) = 1 /\ <<Ended>>[1] = Ended
    OBVIOUS
  <2>2. QED
    BY <1>2, <1>3, <1>5, <2>1
<1>7. \A x : Occurs(front, x) => Occurs(Plan(u), x)
  BY <1>2, <1>5, OccursInBoth
<1>8. QED
  BY <1>4, <1>6, <1>7 DEF S, p, a, g

-----------------------------------------------------------------------------
(* A statement has been executed: what it stores is there. *)
Done(f, u, x) ==
  /\ x.do # "raise"
  /\ x.do = "reading" => Stored(x.device, x.quantity, x.time)
  /\ x.do = "map" => <<x.device, x.time>> \in map
  /\ x.do = "observation" => <<x.device, x.time>> \in observations
  /\ x.do = "event" => events[f] = analyze_accel_window(AccelRows(u))
  /\ x.do = "accel" => \A s \in ToSet(AccelRows(u)) : <<u.device, s.time, s.index>> \in accel

\* The content kept under a name is of a file that was served.
Kept(f, u) == Served(u) /\ u.name = f /\ retained[f] = {u}

\* The statements of the file are executed but for those that remain.
Progressed(f, u) ==
  \E n \in 0 .. Len(Plan(u)) :
    /\ todo[f] = SubSeq(Plan(u), n + 1, Len(Plan(u)))
    /\ \A i \in 1 .. n : Done(f, u, Plan(u)[i])

FileInv(f) ==
  /\ retained[f] = {} \/ \E u \in Uploads : Kept(f, u)
  /\ status[f] \in {"processing", "processed"} =>
       \E u \in Uploads : Kept(f, u) /\ Progressed(f, u)
  /\ status[f] = "processed" => todo[f] = <<>>

SampleInv ==
  /\ DOMAIN status = FileNames /\ DOMAIN todo = FileNames
  /\ DOMAIN retained = FileNames /\ DOMAIN events = FileNames
  /\ \A f \in FileNames : FileInv(f)

LEMMA SampleStarts == SampleInit => SampleInv
BY DEF SampleInit, SampleInv, FileInv

\* What is stored is never taken away, and an event never changes but to what
\* its file says.
LEMMA DoneStays ==
  ASSUME NEW f, NEW u, NEW x, Done(f, u, x),
         readings \subseteq readings', map \subseteq map', accel \subseteq accel',
         observations \subseteq observations',
         events'[f] \in {events[f], analyze_accel_window(AccelRows(u))}
  PROVE  Done(f, u, x)'
<1>1. ASSUME x.do = "event"
      PROVE  events'[f] = analyze_accel_window(AccelRows(u))
  BY <1>1 DEF Done
<1>2. ASSUME x.do = "reading"
      PROVE  Stored(x.device, x.quantity, x.time)'
  BY <1>2 DEF Done, Stored
<1>3. ASSUME x.do = "map"
      PROVE  <<x.device, x.time>> \in map'
  BY <1>3 DEF Done
<1>4. ASSUME x.do = "accel"
      PROVE  \A s \in ToSet(AccelRows(u)) : <<u.device, s.time, s.index>> \in accel'
  BY <1>4 DEF Done
<1>5. ASSUME x.do = "observation"
      PROVE  <<x.device, x.time>> \in observations'
  BY <1>5 DEF Done
<1>6. x.do # "raise"
  BY DEF Done
<1>7. QED
  BY <1>1, <1>2, <1>3, <1>4, <1>5, <1>6 DEF Done

\* A file that no step is about goes on as before.
LEMMA OthersStay ==
  ASSUME NEW f, FileInv(f),
         status'[f] = status[f], todo'[f] = todo[f], retained'[f] = retained[f],
         events'[f] = events[f],
         readings \subseteq readings', map \subseteq map', accel \subseteq accel',
         observations \subseteq observations'
  PROVE  FileInv(f)'
<1>1. \A u : Kept(f, u) => Kept(f, u)'
  BY DEF Kept
<1>2. ASSUME NEW u, Progressed(f, u)
      PROVE  Progressed(f, u)'
  <2>1. PICK n \in 0 .. Len(Plan(u)) :
          /\ todo[f] = SubSeq(Plan(u), n + 1, Len(Plan(u)))
          /\ \A i \in 1 .. n : Done(f, u, Plan(u)[i])
    BY <1>2 DEF Progressed
  <2>2. \A i \in 1 .. n : Done(f, u, Plan(u)[i])'
    BY <2>1, DoneStays
  <2>3. QED
    BY <2>1, <2>2 DEF Progressed
<1>3. QED
  BY <1>1, <1>2 DEF FileInv


LEMMA UploadKeeps ==
  ASSUME SampleInv, NEW u \in Uploads, upload_data(u)
  PROVE  SampleInv'
<1> DEFINE f == u.name
<1>1. f \in FileNames /\ Served(u)
  BY DEF FileNames, upload_data, Served
<1>2. UNCHANGED <<accel, observations, map, events, readings>>
  BY DEF upload_data
<1>3. /\ DOMAIN status' = FileNames /\ DOMAIN todo' = FileNames
      /\ DOMAIN retained' = FileNames /\ DOMAIN events' = FileNames
  BY <1>2 DEF upload_data, SampleInv
<1>4. ASSUME NEW h \in FileNames, h # f
      PROVE  FileInv(h)'
  <2>1. status'[h] = status[h] /\ todo'[h] = todo[h] /\ retained'[h] = retained[h]
    BY <1>4 DEF upload_data, SampleInv
  <2>2. FileInv(h)
    BY DEF SampleInv
  <2>3. QED
    BY <1>2, <2>1, <2>2, OthersStay
<1>5. CASE retained[f] \in {{}, {u}}
  <2>1. status'[f] = "processing" /\ todo'[f] = Plan(u) /\ retained'[f] = {u}
    BY <1>1, <1>5 DEF upload_data, SampleInv
  <2>2. Kept(f, u)'
    BY <1>1, <2>1 DEF Kept
  <2>3. Plan(u) = SubSeq(Plan(u), 0 + 1, Len(Plan(u))) /\ Len(Plan(u)) \in Nat
    <3>1. Plan(u) \in Seq(FrontSteps(u) \cup {Ended})
      BY <1>1, PlanEnds
    <3>2. \A S : \A s \in Seq(S) : s = SubSeq(s, 0 + 1, Len(s)) /\ Len(s) \in Nat
      OBVIOUS
    <3>3. QED
      BY <3>1, <3>2
  <2>4. Progressed(f, u)'
    <3>1. 0 \in 0 .. Len(Plan(u)) /\ \A i \in 1 .. 0 : Done(f, u, Plan(u)[i])'
      BY <2>3
    <3>2. QED
      BY <2>1, <2>3, <3>1 DEF Progressed
  <2>5. FileInv(f)'
    BY <2>1, <2>2, <2>4 DEF FileInv
  <2>6. QED
    BY <1>3, <1>4, <2>5 DEF SampleInv
<1>6. CASE retained[f] \notin {{}, {u}}
  <2>1. status'[f] = "failed" /\ retained'[f] = retained[f]
    BY <1>1, <1>6 DEF upload_data, SampleInv
  <2>2. \A v : Kept(f, v) => Kept(f, v)'
    BY <2>1 DEF Kept
  <2>3. FileInv(f)
    BY <1>1 DEF SampleInv
  <2>4. FileInv(f)'
    BY <2>1, <2>2, <2>3 DEF FileInv
  <2>5. QED
    BY <1>3, <1>4, <2>4 DEF SampleInv
<1>7. QED
  BY <1>5, <1>6

LEMMA FailsKeeps ==
  ASSUME SampleInv, NEW f \in FileNames, Fails(f)
  PROVE  SampleInv'
<1>1. /\ DOMAIN status' = FileNames /\ DOMAIN todo' = FileNames
      /\ DOMAIN retained' = FileNames /\ DOMAIN events' = FileNames
  BY DEF Fails, SampleInv
<1>2. ASSUME NEW h \in FileNames, h # f
      PROVE  FileInv(h)'
  <2>1. /\ status'[h] = status[h] /\ todo'[h] = todo[h]
        /\ UNCHANGED <<retained, accel, observations, map, events, readings>>
    BY <1>2 DEF Fails, SampleInv
  <2>2. FileInv(h)
    BY DEF SampleInv
  <2>3. QED
    BY <2>1, <2>2, OthersStay
<1>3. FileInv(f)'
  <2>1. status'[f] = "failed" /\ UNCHANGED retained
    BY DEF Fails, SampleInv
  <2>2. \A v : Kept(f, v) => Kept(f, v)'
    BY <2>1 DEF Kept
  <2>3. FileInv(f)
    BY DEF SampleInv
  <2>4. QED
    BY <2>1, <2>2, <2>3 DEF FileInv
<1>4. QED
  BY <1>1, <1>2, <1>3 DEF SampleInv

\* A statement that is executed stores what it should.
LEMMA ExecutedIsDone ==
  ASSUME NEW f, NEW u, Kept(f, u), NEW x, x = Head(todo[f]), Executes(f),
         DOMAIN events = FileNames, f \in FileNames,
         x.do = "event" => x = EventStep(u)
  PROVE  Done(f, u, x)'
<1>1. (CHOOSE v \in retained[f] : TRUE) = u
  BY DEF Kept
<1>2. x.do # "raise"
  BY DEF Executes
<1>3. ASSUME x.do = "reading"
      PROVE  Stored(x.device, x.quantity, x.time)'
  <2>1. readings' = InsertReading(f, <<x.device, x.quantity, x.time>>)
    BY <1>3 DEF Executes
  <2>2. PICK key : key = <<x.device, x.quantity, x.time>>
    OBVIOUS
  <2>3. CASE \E r \in readings : r.key = key
    BY <2>1, <2>2, <2>3 DEF InsertReading, Stored
  <2>4. CASE ~\E r \in readings : r.key = key
    <3>1. readings' = readings \cup {[key |-> key, file |-> f]}
      BY <2>1, <2>2, <2>4 DEF InsertReading
    <3>2. [key |-> key, file |-> f] \in readings' /\ [key |-> key, file |-> f].key = key
      BY <3>1
    <3>3. QED
      BY <2>2, <3>2 DEF Stored
  <2>5. QED
    BY <2>3, <2>4
<1>4. ASSUME x.do = "map"
      PROVE  <<x.device, x.time>> \in map'
  BY <1>4 DEF Executes
<1>5. ASSUME x.do = "event"
      PROVE  events'[f] = analyze_accel_window(AccelRows(u))
  <2>1. x.gate = analyze_accel_window(AccelRows(u))
    BY <1>5 DEF EventStep
  <2>2. events' = [events EXCEPT ![f] = x.gate]
    BY <1>5 DEF Executes
  <2>3. QED
    BY <2>1, <2>2
<1>6. ASSUME x.do = "accel"
      PROVE  \A s \in ToSet(AccelRows(u)) : <<u.device, s.time, s.index>> \in accel'
  <2>1. PICK samples : samples = ToSet(AccelRows(u))
    OBVIOUS
  <2>2. accel' = accel \cup {<<u.device, s.time, s.index>> : s \in samples}
    BY <1>1, <1>6, <2>1 DEF Executes
  <2>3. QED
    BY <2>1, <2>2
<1>7. ASSUME x.do = "observation"
      PROVE  <<x.device, x.time>> \in observations'
  BY <1>7 DEF Executes
<1>8. QED
  BY <1>2, <1>3, <1>4, <1>5, <1>6, <1>7 DEF Done

LEMMA ExecutesKeeps ==
  ASSUME SampleInv, NEW f \in FileNames, Executes(f)
  PROVE  SampleInv'
<1>1. /\ DOMAIN status = FileNames /\ DOMAIN todo = FileNames
      /\ DOMAIN retained = FileNames /\ DOMAIN events = FileNames /\ FileInv(f)
  BY DEF SampleInv
<1>2. /\ DOMAIN status' = FileNames /\ DOMAIN todo' = FileNames
      /\ DOMAIN retained' = FileNames /\ DOMAIN events' = FileNames
  <2>1. DOMAIN status' = FileNames
    BY <1>1 DEF Executes
  <2>2. DOMAIN events' = FileNames
    BY <1>1 DEF Executes
  <2>3. DOMAIN todo' = FileNames /\ UNCHANGED retained
    BY <1>1 DEF Executes
  <2>4. QED
    BY <1>1, <2>1, <2>2, <2>3
<1>3. /\ readings \subseteq readings' /\ map \subseteq map'
      /\ accel \subseteq accel' /\ observations \subseteq observations'
  <2>1. readings \subseteq readings'
    BY DEF Executes, InsertReading
  <2>2. map \subseteq map'
    BY DEF Executes
  <2>3. accel \subseteq accel'
    BY DEF Executes
  <2>4. observations \subseteq observations'
    BY DEF Executes
  <2>5. QED
    BY <2>1, <2>2, <2>3, <2>4
<1>4. ASSUME NEW h \in FileNames, h # f
      PROVE  FileInv(h)'
  <2>1. status'[h] = status[h]
    BY <1>1, <1>4 DEF Executes
  <2>2. events'[h] = events[h]
    BY <1>1, <1>4 DEF Executes
  <2>3. todo'[h] = todo[h] /\ UNCHANGED retained
    BY <1>1, <1>4 DEF Executes
  <2>4. FileInv(h)
    BY DEF SampleInv
  <2>5. QED
    BY <1>3, <2>1, <2>2, <2>3, <2>4, OthersStay
<1>5. status[f] = "processing" /\ todo[f] # <<>>
  BY <1>1 DEF Executes, FileInv
<1>6. PICK u \in Uploads : Kept(f, u) /\ Progressed(f, u)
  BY <1>1, <1>5 DEF FileInv
<1>7. PICK n \in 0 .. Len(Plan(u)) : /\ todo[f] = SubSeq(Plan(u), n + 1, Len(Plan(u)))
                                     /\ \A i \in 1 .. n : Done(f, u, Plan(u)[i])
  BY <1>6 DEF Progressed
<1>8. PICK plan : plan = Plan(u)
  OBVIOUS
<1>9. /\ plan \in Seq(FrontSteps(u) \cup {Ended})
      /\ Len(plan) \in Nat /\ plan[Len(plan)] = Ended
      /\ \A i \in 1 .. Len(plan) - 1 : plan[i] \in FrontSteps(u)
  BY <1>6, <1>8, PlanEnds DEF Kept
<1>10. /\ n + 1 \in 1 .. Len(plan) /\ Head(todo[f]) = plan[n + 1]
       /\ Tail(todo[f]) = SubSeq(plan, n + 2, Len(plan))
       /\ n + 1 = Len(plan) => Tail(todo[f]) = <<>>
  <2>1. \A S : \A s \in Seq(S) : \A k \in 0 .. Len(s) : SubSeq(s, k + 1, Len(s)) # <<>> =>
          /\ k + 1 \in 1 .. Len(s)
          /\ Head(SubSeq(s, k + 1, Len(s))) = s[k + 1]
          /\ Tail(SubSeq(s, k + 1, Len(s))) = SubSeq(s, k + 2, Len(s))
          /\ k + 1 = Len(s) => SubSeq(s, k + 2, Len(s)) = <<>>
    OBVIOUS
  <2>2. QED
    BY <1>5, <1>7, <1>8, <1>9, <2>1
<1>11. PICK x : x = plan[n + 1]
  OBVIOUS
<1>12. /\ x.do = "event" => x = EventStep(u)
       /\ x.do = "processed" => n + 1 = Len(plan)
  <2>1. CASE n + 1 = Len(plan)
    BY <1>9, <1>11, <2>1 DEF Ended
  <2>2. CASE n + 1 # Len(plan)
    <3>1. x \in FrontSteps(u)
      BY <1>9, <1>10, <1>11, <2>2
    <3>2. QED
      BY <3>1, FrontIsBeforeTheEnd
  <2>3. QED
    BY <2>1, <2>2
<1>13. /\ todo'[f] = Tail(todo[f]) /\ UNCHANGED retained
       /\ status'[f] = IF x.do = "processed" THEN "processed" ELSE "processing"
       /\ events'[f] \in {events[f], analyze_accel_window(AccelRows(u))}
  <2>1. todo'[f] = Tail(todo[f]) /\ UNCHANGED retained
    BY <1>1 DEF Executes
  <2>2. status'[f] = IF x.do = "processed" THEN "processed" ELSE "processing"
    BY <1>1, <1>5, <1>10, <1>11 DEF Executes
  <2>3. CASE x.do = "event"
    <3>1. x.gate = analyze_accel_window(AccelRows(u))
      BY <1>12, <2>3 DEF EventStep
    <3>2. events' = [events EXCEPT ![f] = x.gate]
      BY <1>10, <1>11, <2>3 DEF Executes
    <3>3. QED
      BY <1>1, <2>1, <2>2, <3>1, <3>2
  <2>4. CASE x.do # "event"
    <3>1. events' = events
      BY <1>10, <1>11, <2>4 DEF Executes
    <3>2. QED
      BY <2>1, <2>2, <3>1
  <2>5. QED
    BY <2>3, <2>4
<1>14. Done(f, u, x)'
  BY <1>1, <1>6, <1>10, <1>11, <1>12, ExecutedIsDone
<1>15. Kept(f, u)'
  BY <1>6, <1>13 DEF Kept
<1>16. Progressed(f, u)'
  <2>1. n + 1 \in 0 .. Len(Plan(u)) /\ n + 1 + 1 = n + 2
    BY <1>8, <1>10
  <2>2. todo'[f] = SubSeq(Plan(u), n + 1 + 1, Len(Plan(u)))
    BY <1>8, <1>10, <1>13, <2>1
  <2>3. ASSUME NEW i \in 1 .. n + 1
        PROVE  Done(f, u, Plan(u)[i])'
    <3>1. CASE i = n + 1
      BY <1>8, <1>11, <1>14, <3>1
    <3>2. CASE i # n + 1
      <4>1. Done(f, u, Plan(u)[i])
        BY <1>7, <3>2
      <4>2. QED
        BY <1>3, <1>13, <4>1, DoneStays
    <3>3. QED
      BY <3>1, <3>2
  <2>4. QED
    BY <2>1, <2>2, <2>3 DEF Progressed
<1>17. status'[f] = "processed" => todo'[f] = <<>>
  BY <1>10, <1>12, <1>13
<1>18. FileInv(f)'
  BY <1>6, <1>15, <1>16, <1>17 DEF FileInv
<1>19. QED
  BY <1>2, <1>4, <1>18 DEF SampleInv


LEMMA SampleContinues ==
  ASSUME SampleInv, [SampleNext]_sampleVars
  PROVE  SampleInv'
<1>1. ASSUME UNCHANGED sampleVars
      PROVE  SampleInv'
  <2>1. \A f \in FileNames : FileInv(f)'
    BY <1>1, OthersStay DEF sampleVars, SampleInv
  <2>2. QED
    BY <1>1, <2>1 DEF sampleVars, SampleInv
<1>2. QED
  BY <1>1, UploadKeeps, FailsKeeps, ExecutesKeeps DEF SampleNext

\* A processed file has executed every statement it has.
LEMMA ProcessedHasDone ==
  ASSUME SampleInv, NEW u \in Uploads, status[u.name] = "processed", retained[u.name] = {u}
  PROVE  Served(u) /\ \A x : Occurs(Plan(u), x) => Done(u.name, u, x)
<1> DEFINE f == u.name
<1>1. f \in FileNames
  BY DEF FileNames
<1>2. FileInv(f)
  BY <1>1 DEF SampleInv
<1>3. PICK v \in Uploads : Kept(f, v) /\ Progressed(f, v)
  BY <1>2 DEF FileInv
<1>4. v = u
  BY <1>3 DEF Kept
<1>5. Served(u) /\ todo[f] = <<>>
  BY <1>2, <1>3, <1>4 DEF Kept, FileInv
<1>6. PICK n \in 0 .. Len(Plan(u)) : /\ todo[f] = SubSeq(Plan(u), n + 1, Len(Plan(u)))
                                     /\ \A i \in 1 .. n : Done(f, u, Plan(u)[i])
  BY <1>3, <1>4 DEF Progressed
<1>7. n = Len(Plan(u)) /\ DOMAIN Plan(u) = 1 .. Len(Plan(u))
  <2>1. /\ Plan(u) \in Seq(FrontSteps(u) \cup {Ended}) /\ Len(Plan(u)) \in Nat
        /\ DOMAIN Plan(u) = 1 .. Len(Plan(u))
    BY <1>5, PlanEnds
  <2>2. \A S : \A s \in Seq(S) : \A k \in 0 .. Len(s) :
          SubSeq(s, k + 1, Len(s)) = <<>> => k = Len(s)
    <3>1. \A S : \A s \in Seq(S) : \A k \in 0 .. Len(s) :
            Len(SubSeq(s, k + 1, Len(s))) = Len(s) - k /\ Len(s) \in Nat
      OBVIOUS
    <3>2. Len(<<>>) = 0
      OBVIOUS
    <3>3. ASSUME NEW S, NEW s \in Seq(S), NEW k \in 0 .. Len(s), SubSeq(s, k + 1, Len(s)) = <<>>
          PROVE  k = Len(s)
      <4>1. Len(s) - k = 0 /\ Len(s) \in Nat
        BY <3>1, <3>2, <3>3
      <4>2. QED
        BY <4>1
    <3>4. QED
      BY <3>3
  <2>3. SubSeq(Plan(u), n + 1, Len(Plan(u))) = <<>>
    BY <1>5, <1>6
  <2>4. QED
    BY <2>1, <2>2, <2>3
<1>8. ASSUME NEW x, Occurs(Plan(u), x)
      PROVE  Done(f, u, x)
  BY <1>6, <1>7, <1>8 DEF Occurs
<1>9. QED
  BY <1>5, <1>8

\* However many files are sent, however often each fails or is sent again and
\* however their statements interleave: a file that reads processed has stored
\* all it holds.
THEOREM ProcessedHoldsAll == SampleSpec => []ProcessedIsComplete
<1>1. SampleInv => ProcessedIsComplete
  <2> SUFFICES ASSUME SampleInv, NEW u \in Uploads,
                      status[u.name] = "processed", retained[u.name] = {u}
               PROVE  /\ \A i \in DOMAIN Positions(u) :
                           LET row == Positions(u)[i] IN
                             /\ u.type = "gnss" => Stored(row.device, "battery", row.time)
                             /\ row.fix > 0 /\ row.located => <<row.device, row.time>> \in map
                             /\ Displaces(u, row) => Stored(row.device, "displacement", row.time)
                      /\ u.mode = "4g" =>
                           <<LastRow(u).device, LastRow(u).time>> \in observations
                      /\ u.mode = "4g" /\ u.battery => Stored(u.device, "battery", u.received)
                      /\ u.type = "accel" =>
                           /\ events[u.name] = analyze_accel_window(AccelRows(u))
                           /\ \A s \in ToSet(AccelRows(u)) :
                                <<u.device, s.time, s.index>> \in accel
                           /\ \A quantity \in {"vibration", "tilt"} :
                                events[u.name] # "rejected"
                                  => Stored(u.device, quantity, AccelRows(u)[1].time)
    BY DEF ProcessedIsComplete
  <2>1. Served(u) /\ \A x : Occurs(Plan(u), x) => Done(u.name, u, x)
    BY ProcessedHasDone
  <2>2. \A x : (\/ Occurs(handle_position_rows(u), x) \/ Occurs(handle_accel_rows(u), x)
                \/ Occurs(FourG(u), x))
              => Done(u.name, u, x)
    BY <2>1, PlanEnds
  <2>3. \A quantity, device, time : Done(u.name, u, Reading(quantity, device, time))
                                      => Stored(device, quantity, time)
    BY DEF Done, Reading
  <2>4. ~Done(u.name, u, Raising)
    BY DEF Done, Raising
  <2>5. ASSUME NEW i \in DOMAIN Positions(u), NEW row, row = Positions(u)[i]
        PROVE  /\ u.type = "gnss" => Stored(row.device, "battery", row.time)
               /\ row.fix > 0 /\ row.located => <<row.device, row.time>> \in map
               /\ Displaces(u, row) => Stored(row.device, "displacement", row.time)
    <3>1. /\ u.type = "gnss"
               => Occurs(handle_position_rows(u), Reading("battery", row.device, row.time))
          /\ row.fix > 0 /\ row.located => Occurs(handle_position_rows(u), MapStep(row))
          /\ Displaces(u, row)
               => Occurs(handle_position_rows(u), Reading("displacement", row.device, row.time))
      <4>1. PICK p : p = handle_position_rows(u)
        OBVIOUS
      <4>2. ~Occurs(p, Raising)
        BY <2>2, <2>4, <4>1
      <4>3. \/ Occurs(p, Raising)
            \/ /\ u.type = "gnss" => Occurs(p, Reading("battery", row.device, row.time))
               /\ row.fix > 0 /\ row.located => Occurs(p, MapStep(row))
               /\ Displaces(u, row) => Occurs(p, Reading("displacement", row.device, row.time))
        BY <2>1, <2>5, <4>1, PositionsPlanned
      <4>4. QED
        BY <4>1, <4>2, <4>3
    <3>2. Done(u.name, u, MapStep(row)) => <<row.device, row.time>> \in map
      BY DEF Done, MapStep
    <3>3. QED
      BY <2>2, <2>3, <3>1, <3>2
  <2>6. /\ u.mode = "4g" => <<LastRow(u).device, LastRow(u).time>> \in observations
        /\ u.mode = "4g" /\ u.battery => Stored(u.device, "battery", u.received)
    <3>1. Done(u.name, u, ObservationStep(u))
            => <<LastRow(u).device, LastRow(u).time>> \in observations
      BY DEF Done, ObservationStep
    <3>2. QED
      BY <2>2, <2>3, <3>1, FourGPlanned
  <2>7. ASSUME u.type = "accel"
        PROVE  /\ events[u.name] = analyze_accel_window(AccelRows(u))
               /\ \A s \in ToSet(AccelRows(u)) : <<u.device, s.time, s.index>> \in accel
               /\ \A quantity \in {"vibration", "tilt"} :
                    events[u.name] # "rejected"
                      => Stored(u.device, quantity, AccelRows(u)[1].time)
    <3>1. /\ Occurs(handle_accel_rows(u), AccelStep) /\ Occurs(handle_accel_rows(u), EventStep(u))
          /\ \A quantity \in {"vibration", "tilt"} :
               analyze_accel_window(AccelRows(u)) # "rejected"
                 => Occurs(handle_accel_rows(u),
                           Reading(quantity, u.device, AccelRows(u)[1].time))
      <4>1. ~Occurs(handle_accel_rows(u), Raising)
        BY <2>2, <2>4
      <4>2. QED
        BY <2>1, <2>7, <4>1, AccelPlanned
    <3>2. Done(u.name, u, EventStep(u)) => events[u.name] = analyze_accel_window(AccelRows(u))
      BY DEF Done, EventStep
    <3>3. Done(u.name, u, AccelStep)
            => \A s \in ToSet(AccelRows(u)) : <<u.device, s.time, s.index>> \in accel
      BY DEF Done, AccelStep
    <3>4. QED
      BY <2>2, <2>3, <3>1, <3>2, <3>3
  <2>8. QED
    BY <2>5, <2>6, <2>7
<1>2. SampleInv /\ [SampleNext]_sampleVars => SampleInv'
  BY SampleContinues
<1>3. QED
  BY <1>1, <1>2, SampleStarts, PTL DEF SampleSpec
=============================================================================
