--------------------------- MODULE ModelRegistry ---------------------------
(***************************************************************************)
(* Which model answers: the registry of one API process (ml/registry/      *)
(* model_registry.py), the model_versions table beside it (services/       *)
(* model_ops_service/model_version_repository.py) and the endpoints that   *)
(* change both, one after the other (apps/api/routers/v1/model_ops.py).    *)
(*                                                                         *)
(* A handler changes the registry in one step, for it awaits nothing       *)
(* before; its statements on the table follow at awaits of their own, so   *)
(* two handlers overlap there.  A restart empties the registry, the table  *)
(* stays.                                                                  *)
(***************************************************************************)
EXTENDS Naturals, FiniteSets

CONSTANTS
  VersionIds,
  NoVersionId,
  Operators,      \* administrators' requests in flight at once
  MaxSwaps        \* bound on the instances created

ASSUME RegistryAssumption == NoVersionId \notin VersionIds /\ MaxSwaps \in Nat

\* "gcn" activates; "gcn_slope_v1" expects 10 features where 15 are
\* provided; "temporal" is planned only.
ModelTypes == {"gcn", "gcn_slope_v1", "temporal"}
Statuses == {"registered", "active", "retired"}

VARIABLES
  known,      \* _versions: the model type of each, "none": unknown
  active,     \* _active_model and _active_version
  previous,   \* _previous_model and _previous_version
  row,        \* model_versions.status, "none": no row
  operator,   \* the requests
  disturbed   \* no program state: table and registry may differ

registryVars == <<known, active, previous, row, operator, disturbed>>

\* An instance is told from another of its version by its number.
Nothing == [version |-> NoVersionId, instance |-> 0]

\* todo is what the handler still executes on the table.
IdleOperator == [todo |-> "none", version |-> NoVersionId, retire |-> {}]

RegistryInit ==
  /\ known = [v \in VersionIds |-> "none"] /\ row = [v \in VersionIds |-> "none"]
  /\ active = Nothing /\ previous = Nothing
  /\ operator = [o \in Operators |-> IdleOperator]
  /\ disturbed = FALSE

Busy == {o \in Operators : operator[o].todo # "none"}

\* A request that is served alone, for a version with a row, restores the
\* agreement of table and registry; any other that overlaps may end it.
Overlaps == disturbed' = (disturbed \/ Busy # {})
Restores(v) == disturbed' = (Busy # {} \/ row[v] = "none")
Instances == {active.instance, previous.instance}
NewInstance == 1 + (CHOOSE n \in Instances : \A m \in Instances : m <= n)

Does(o, todo, v) ==
  operator' = [operator EXCEPT ![o] = [todo |-> todo, version |-> v, retire |-> {}]]

-----------------------------------------------------------------------------
\* compatibility_check and the creation of the candidate: both raise before
\* anything is swapped.
Activates(v) == known'[v] = "gcn"

\* The candidate becomes active, what was active previous.
Swap(v) ==
  /\ NewInstance <= MaxSwaps
  /\ previous' = active
  /\ active' = [version |-> v, instance |-> NewInstance]

register_version(o, v, type) ==
  /\ operator[o].todo = "none"
  /\ known' = [known EXCEPT ![v] = type]
  /\ Does(o, "upsert", v)
  /\ Overlaps
  /\ UNCHANGED <<active, previous, row>>

\* A version that is unknown or refused ends the request.
activate_version(o, v) ==
  /\ operator[o].todo = "none"
  /\ UNCHANGED <<known, row>>
  /\ IF Activates(v) THEN Swap(v) /\ Does(o, "retire", v) /\ Restores(v)
                     ELSE UNCHANGED <<active, previous, operator, disturbed>>

\* Registers in the registry whatever then becomes of the activation.
switch_architecture(o, v, type) ==
  /\ operator[o].todo = "none"
  /\ known' = [known EXCEPT ![v] = type]
  /\ UNCHANGED row
  /\ IF Activates(v) THEN Swap(v) /\ Does(o, "upsert_retire", v) /\ disturbed' = (Busy # {})
                     ELSE UNCHANGED <<active, previous, operator, disturbed>>

\* Instance and version change places with the previous ones.
rollback(o) ==
  /\ operator[o].todo = "none" /\ previous # Nothing
  /\ active' = previous /\ previous' = active
  /\ Does(o, "retire", previous.version)
  /\ Restores(previous.version)
  /\ UNCHANGED <<known, row>>

-----------------------------------------------------------------------------
\* upsert_registered: a row that exists keeps its status.
upsert_registered(o) ==
  LET me == operator[o] IN
    /\ me.todo \in {"upsert", "upsert_retire"}
    /\ row' = [row EXCEPT ![me.version] = IF @ = "none" THEN "registered" ELSE @]
    /\ IF me.todo = "upsert" THEN Does(o, "none", NoVersionId)
                             ELSE Does(o, "retire", me.version)
    /\ UNCHANGED <<known, active, previous, disturbed>>

\* First UPDATE of mark_active, in its transaction: rows that read active now
\* will be retired; what another transaction promotes later will not.
Retires(o) ==
  LET me == operator[o] IN
    /\ me.todo = "retire"
    /\ operator' = [operator EXCEPT ![o] = [me EXCEPT !.todo = "promote",
         !.retire = {v \in VersionIds \ {me.version} : row[v] = "active"}]]
    /\ UNCHANGED <<known, active, previous, row, disturbed>>

\* Mutant: the other rows are not retired.
PromotesOnly(o) ==
  LET me == operator[o] IN
    /\ me.todo = "promote"
    /\ row' = [row EXCEPT ![me.version] = IF @ = "none" THEN @ ELSE "active"]
    /\ Does(o, "none", NoVersionId)
    /\ UNCHANGED <<known, active, previous, disturbed>>

\* Second UPDATE and commit.  A version without a row leaves none active.
Promotes(o) ==
  LET me == operator[o] IN
    /\ me.todo = "promote"
    /\ row' = [v \in VersionIds |->
                 IF row[v] # "none" /\ v = me.version THEN "active"
                 ELSE IF v \in me.retire /\ row[v] = "active" THEN "retired"
                 ELSE row[v]]
    /\ Does(o, "none", NoVersionId)
    /\ UNCHANGED <<known, active, previous, disturbed>>

\* A statement raises: the registry has changed already and stays so.
TableFails(o) ==
  /\ operator[o].todo # "none"
  /\ Does(o, "none", NoVersionId)
  /\ disturbed' = TRUE
  /\ UNCHANGED <<known, active, previous, row>>

\* main.py creates an empty registry; nothing reads the table back.
Restarts ==
  /\ known' = [v \in VersionIds |-> "none"]
  /\ active' = Nothing /\ previous' = Nothing
  /\ operator' = [o \in Operators |-> IdleOperator]
  /\ disturbed' = TRUE
  /\ UNCHANGED row

RegistryNext ==
  \/ \E o \in Operators, v \in VersionIds, type \in ModelTypes :
       register_version(o, v, type) \/ switch_architecture(o, v, type)
  \/ \E o \in Operators, v \in VersionIds : activate_version(o, v)
  \/ \E o \in Operators : \/ rollback(o) \/ upsert_registered(o) \/ Retires(o)
                          \/ Promotes(o) \/ TableFails(o)
  \/ Restarts

RegistrySpec == RegistryInit /\ [][RegistryNext]_registryVars

-----------------------------------------------------------------------------
(* Properties *)

\* "At most one version should read as active in the DB, mirroring the
\* in-memory registry" (model_version_repository.py:31): while no request is
\* in flight, exactly the registry's version reads active, unless since the last
\* request that was served alone two overlapped, a statement failed or the
\* process restarted.
QuietTableAgrees ==
  ~disturbed /\ Busy = {}
    => {v \in VersionIds : row[v] = "active"}
         = IF active = Nothing THEN {} ELSE {active.version}
=============================================================================
