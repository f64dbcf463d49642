----------------------------- MODULE Evaluation -----------------------------
(***************************************************************************)
(* The purged, grouped evaluation of a model: PurgedGroupTimeSeriesSplit   *)
(* (ml/evaluation/cross_validation.py) and run_purged_evaluation           *)
(* (ml/evaluation/training_pipeline.py), fold by fold.                     *)
(*                                                                         *)
(* A model is the set of events it was fitted on; node features, graphs    *)
(* and the metric are left out.  An event is its index in the caller's     *)
(* list, which is in no order.                                             *)
(***************************************************************************)
EXTENDS Naturals, Sequences, FiniteSets, Ranking

CONSTANTS
  EventWindows,   \* the windows <<start, end>> an event may have
  EventCount,     \* events given
  Splits,         \* n_splits
  Embargoes,      \* embargo
  WithoutData     \* sets of events that node_states_by_event may lack

ASSUME EvaluationAssumption ==
  /\ EventWindows \subseteq Nat \X Nat /\ \A w \in EventWindows : w[1] <= w[2]
  /\ EventCount \in Nat /\ Splits \in Nat /\ Embargoes \subseteq Nat
  /\ Splits >= 2 /\ EventCount > Splits

VARIABLES
  windows,    \* the events' windows, in the caller's order
  embargo,
  lacking,    \* events without node states
  fold,       \* the fold at hand, 0 before the call
  model,      \* events the fold's model was fitted on
  results     \* per fold: events tested, or that it was skipped

evaluationVars == <<windows, embargo, lacking, fold, model, results>>

EvaluationInit ==
  /\ windows = <<>> /\ embargo = 0 /\ lacking = {}
  /\ fold = 0 /\ model = {} /\ results = <<>>

-----------------------------------------------------------------------------
(* PurgedGroupTimeSeriesSplit.split *)

Start(e) == windows[e][1]
End(e) == windows[e][2]

Indices == 1 .. EventCount

\* Position after sorting by start; the sort is stable.
Rank(e) == PlaceOf(Indices, [f \in Indices |-> Start(f)], e)

FoldSize == EventCount \div (Splits + 1)

TrainCandidates(k) == {e \in Indices : Rank(e) <= FoldSize * k}
TestEvents(k) == {e \in Indices : FoldSize * k < Rank(e) /\ Rank(e) <= FoldSize * (k + 1)}
TestStart(k) == Start(CHOOSE e \in Indices : Rank(e) = FoldSize * k + 1)

TrainPurgedByStart(k) == {e \in TrainCandidates(k) : Start(e) + embargo <= TestStart(k)}

\* Purged: what reaches into the embargo before the first event of the test.
TrainEvents(k) ==
  LET before == TestStart(k)
  IN {e \in TrainCandidates(k) : End(e) + embargo <= before}

\* build_fold_batches skips events without node states.
Batches(es) == es \ lacking

-----------------------------------------------------------------------------
(* run_purged_evaluation *)

Called ==
  /\ fold = 0 /\ fold' = 1
  /\ windows' \in [1 .. EventCount -> EventWindows]
  /\ embargo' \in Embargoes /\ lacking' \in WithoutData
  /\ UNCHANGED <<model, results>>

Skips ==
  /\ fold \in 1 .. Splits /\ model = {}
  /\ Batches(TrainEvents(fold)) = {} \/ Batches(TestEvents(fold)) = {}
  /\ results' = Append(results, [skipped |-> TRUE, fitted |-> {}, tested |-> {}])
  /\ fold' = fold + 1
  /\ UNCHANGED <<windows, embargo, lacking, model>>

\* A new model of random weights, fitted on the fold.
Trains ==
  /\ fold \in 1 .. Splits /\ model = {}
  /\ Batches(TrainEvents(fold)) # {} /\ Batches(TestEvents(fold)) # {}
  /\ model' = Batches(TrainEvents(fold))
  /\ UNCHANGED <<windows, embargo, lacking, fold, results>>

Tests ==
  /\ model # {}
  /\ results' = Append(results, [skipped |-> FALSE, fitted |-> model,
                                 tested  |-> Batches(TestEvents(fold))])
  /\ model' = {} /\ fold' = fold + 1
  /\ UNCHANGED <<windows, embargo, lacking>>

EvaluationNext == Called \/ Skips \/ Trains \/ Tests

EvaluationSpec == EvaluationInit /\ [][EvaluationNext]_evaluationVars

-----------------------------------------------------------------------------
(***************************************************************************)
(* No model is tested on an event that its training touches: whatever      *)
(* order the caller lists the events in and however they overlap, every    *)
(* event a model was fitted on ends an embargo before every event it is    *)
(* tested on, and no event is tested in two folds ("a model must never be  *)
(* evaluated on data that precedes what it trained on",                    *)
(* cross_validation.py:44).                                                *)
(***************************************************************************)
EvaluationNeverLeaks ==
  \A i \in DOMAIN results :
    /\ \A e \in results[i].fitted, f \in results[i].tested : End(e) + embargo <= Start(f)
    /\ \A j \in DOMAIN results : i # j => results[i].tested \cap results[j].tested = {}
=============================================================================
