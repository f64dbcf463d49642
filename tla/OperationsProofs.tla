-------------------------- MODULE OperationsProofs --------------------------
(***************************************************************************)
(* What the parts that operators work with keep true, for any number of    *)
(* requests in flight: the registry of models beside its table, the        *)
(* accounts, the directory of sites and devices, and the configuration a   *)
(* device is told.                                                         *)
(***************************************************************************)
EXTENDS ModelRegistry, Accounts, Directory, ConfigReply, FiniteSetTheorems,
        NaturalsInduction, WellFoundedInduction, TLAPS

-----------------------------------------------------------------------------
(* The registry and its table (ModelRegistry)                              *)

OperatorType ==
  [todo : {"none", "upsert", "upsert_retire", "retire", "promote"},
   version : VersionIds \cup {NoVersionId}, retire : SUBSET VersionIds]

RegistryTypes ==
  /\ row \in [VersionIds -> Statuses \cup {"none"}]
  /\ operator \in [Operators -> OperatorType]
  /\ active = Nothing \/ active.version \in VersionIds
  /\ previous = Nothing \/ previous.version \in VersionIds

\* The table names the registry's version.
Agrees ==
  {v \in VersionIds : row[v] = "active"}
    = IF active = Nothing THEN {} ELSE {active.version}

\* Since the last disturbance requests were served one at a time; where the
\* request at hand stands tells how far the table is behind the registry.
ServedAlone ==
  /\ \A o, p \in Operators :
       operator[o].todo # "none" /\ operator[p].todo # "none" => o = p
  /\ (\A o \in Operators : operator[o].todo \in {"none", "upsert"}) => Agrees
  /\ \A o \in Operators :
       operator[o].todo \in {"upsert_retire", "retire", "promote"} =>
         /\ active # Nothing /\ active.version = operator[o].version
         /\ operator[o].todo # "upsert_retire" => row[active.version] # "none"
         /\ operator[o].todo = "promote" =>
              operator[o].retire =
                {v \in VersionIds \ {active.version} : row[v] = "active"}

RegistryInv == RegistryTypes /\ (~disturbed => ServedAlone)

LEMMA RegistryStarts == RegistryInit => RegistryInv
BY DEF RegistryInit, RegistryInv, RegistryTypes, OperatorType, IdleOperator,
       Statuses, ServedAlone, Agrees

\* A version in the registry is something.
LEMMA VersionIsSomething ==
  ASSUME NEW v \in VersionIds, NEW n
  PROVE  [version |-> v, instance |-> n] # Nothing
BY RegistryAssumption DEF Nothing

\* A request that starts, alone or not, leaves what it is to do with its
\* version.
LEMMA DoesTyped ==
  ASSUME RegistryTypes, NEW o \in Operators, NEW v \in VersionIds \cup {NoVersionId},
         NEW todo \in {"none", "upsert", "upsert_retire", "retire"}, Does(o, todo, v)
  PROVE  /\ operator' \in [Operators -> OperatorType]
         /\ operator'[o] = [todo |-> todo, version |-> v, retire |-> {}]
         /\ \A p \in Operators \ {o} : operator'[p] = operator[p]
BY DEF RegistryTypes, OperatorType, Does

LEMMA registerKeeps ==
  ASSUME RegistryInv, NEW o \in Operators, NEW v \in VersionIds, NEW type \in ModelTypes,
         register_version(o, v, type)
  PROVE  RegistryInv'
<1>1. /\ operator[o].todo = "none" /\ UNCHANGED <<active, previous, row>>
      /\ Does(o, "upsert", v) /\ disturbed' = (disturbed \/ Busy # {})
  BY DEF register_version, Overlaps
<1>2. RegistryTypes'
  BY <1>1, DoesTyped DEF RegistryInv, RegistryTypes
<1>3. ASSUME ~disturbed' PROVE ServedAlone'
  <2>1. /\ ServedAlone /\ \A p \in Operators : operator[p].todo = "none"
    BY <1>1, <1>3 DEF RegistryInv, Busy
  <2>2. \A p \in Operators : operator'[p].todo = IF p = o THEN "upsert" ELSE "none"
    <3>1. /\ operator'[o] = [todo |-> "upsert", version |-> v, retire |-> {}]
          /\ \A p \in Operators \ {o} : operator'[p] = operator[p]
      BY <1>1, DoesTyped DEF RegistryInv
    <3>2. QED
      BY <2>1, <3>1
  <2>3. Agrees'
    BY <1>1, <2>1 DEF ServedAlone, Agrees
  <2>4. QED
    BY <2>2, <2>3 DEF ServedAlone
<1>4. QED
  BY <1>2, <1>3 DEF RegistryInv

\* The registry's version changes: the request that did it goes on with the
\* table.
LEMMA SwitchKeeps ==
  ASSUME RegistryInv, NEW o \in Operators, NEW v \in VersionIds,
         NEW todo \in {"upsert_retire", "retire"}, operator[o].todo = "none",
         active'.version = v, active' # Nothing,
         previous' = active, UNCHANGED row, Does(o, todo, v),
         ~disturbed' => Busy = {} /\ (todo = "retire" => row[v] # "none")
  PROVE  RegistryInv'
<1>1. /\ operator' \in [Operators -> OperatorType]
      /\ operator'[o] = [todo |-> todo, version |-> v, retire |-> {}]
      /\ \A p \in Operators \ {o} : operator'[p] = operator[p]
  <2>1. RegistryTypes /\ v \in VersionIds \cup {NoVersionId}
    BY DEF RegistryInv
  <2>2. todo \in {"none", "upsert", "upsert_retire", "retire"}
    OBVIOUS
  <2>3. QED
    BY <2>1, <2>2, DoesTyped
<1>2. RegistryTypes'
  BY <1>1 DEF RegistryInv, RegistryTypes
<1>3. ASSUME ~disturbed' PROVE ServedAlone'
  <2>1. \A p \in Operators : operator[p].todo = "none"
    BY <1>3 DEF Busy
  <2>2. /\ \A p \in Operators : p # o => operator'[p].todo = "none"
        /\ operator'[o].todo = todo /\ operator'[o].version = v
    BY <1>1, <2>1
  <2>3. QED
    BY <1>3, <2>2 DEF ServedAlone
<1>4. QED
  BY <1>2, <1>3 DEF RegistryInv

LEMMA activateKeeps ==
  ASSUME RegistryInv, NEW o \in Operators, NEW v \in VersionIds, activate_version(o, v)
  PROVE  RegistryInv'
<1>1. CASE UNCHANGED <<active, previous, operator, disturbed>>
  BY <1>1 DEF activate_version, RegistryInv, RegistryTypes, ServedAlone, Agrees
<1>2. CASE Swap(v) /\ Does(o, "retire", v) /\ Restores(v)
  <2>1. /\ active' = [version |-> v, instance |-> NewInstance] /\ previous' = active
        /\ operator[o].todo = "none" /\ UNCHANGED row
    BY <1>2 DEF activate_version, Swap
  <2>2. active'.version = v /\ active' # Nothing
    BY <2>1, VersionIsSomething
  <2>3. ~disturbed' => Busy = {} /\ row[v] # "none"
    BY <1>2 DEF Restores
  <2>4. QED
    BY <1>2, <2>1, <2>2, <2>3, SwitchKeeps
<1>3. QED
  BY <1>1, <1>2 DEF activate_version

LEMMA switchKeeps ==
  ASSUME RegistryInv, NEW o \in Operators, NEW v \in VersionIds, NEW type \in ModelTypes,
         switch_architecture(o, v, type)
  PROVE  RegistryInv'
<1>1. CASE UNCHANGED <<active, previous, operator, disturbed>>
  BY <1>1 DEF switch_architecture, RegistryInv, RegistryTypes, ServedAlone, Agrees
<1>2. CASE Swap(v) /\ Does(o, "upsert_retire", v) /\ disturbed' = (Busy # {})
  <2>1. /\ active' = [version |-> v, instance |-> NewInstance] /\ previous' = active
        /\ operator[o].todo = "none" /\ UNCHANGED row
    BY <1>2 DEF switch_architecture, Swap
  <2>2. active'.version = v /\ active' # Nothing
    BY <2>1, VersionIsSomething
  <2>3. QED
    BY <1>2, <2>1, <2>2, SwitchKeeps
<1>3. QED
  BY <1>1, <1>2 DEF switch_architecture

LEMMA rollbackKeeps ==
  ASSUME RegistryInv, NEW o \in Operators, rollback(o)
  PROVE  RegistryInv'
<1>1. /\ previous.version \in VersionIds /\ previous # Nothing
      /\ active' = previous /\ previous' = active /\ UNCHANGED row
      /\ operator[o].todo = "none" /\ Does(o, "retire", previous.version)
  BY DEF rollback, RegistryInv, RegistryTypes
<1>2. ~disturbed' => Busy = {} /\ row[previous.version] # "none"
  BY DEF rollback, Restores
<1>3. QED
  BY <1>1, <1>2, SwitchKeeps

LEMMA upsertKeeps ==
  ASSUME RegistryInv, NEW o \in Operators, upsert_registered(o)
  PROVE  RegistryInv'
<1> DEFINE me == operator[o]
<1>1. /\ me.todo \in {"upsert", "upsert_retire"} /\ UNCHANGED <<active, previous, disturbed>>
      /\ row' = [row EXCEPT ![me.version] = IF @ = "none" THEN "registered" ELSE @]
      /\ IF me.todo = "upsert" THEN Does(o, "none", NoVersionId)
                               ELSE Does(o, "retire", me.version)
  BY DEF upsert_registered
<1>2. me.version \in VersionIds \cup {NoVersionId}
  BY DEF RegistryInv, RegistryTypes, OperatorType
<1>3. /\ operator' \in [Operators -> OperatorType]
      /\ operator'[o] = IF me.todo = "upsert"
           THEN [todo |-> "none", version |-> NoVersionId, retire |-> {}]
           ELSE [todo |-> "retire", version |-> me.version, retire |-> {}]
      /\ \A p \in Operators \ {o} : operator'[p] = operator[p]
  BY <1>1, <1>2, DoesTyped DEF RegistryInv
<1>4. /\ row' \in [VersionIds -> Statuses \cup {"none"}]
      /\ \A v \in VersionIds : row'[v] = "active" <=> row[v] = "active"
      /\ me.version \in VersionIds => row'[me.version] # "none"
  BY <1>1 DEF RegistryInv, RegistryTypes, Statuses
<1>5. RegistryTypes'
  BY <1>1, <1>3, <1>4 DEF RegistryInv, RegistryTypes
<1>6. ASSUME ~disturbed' PROVE ServedAlone'
  <2>1. ServedAlone
    BY <1>1, <1>6 DEF RegistryInv
  <2>2. \A p \in Operators : p # o => operator'[p].todo = "none"
    BY <1>1, <1>3, <2>1 DEF ServedAlone
  <2>3. CASE me.todo = "upsert"
    <3>1. \A p \in Operators : operator[p].todo \in {"none", "upsert"}
      BY <1>1, <2>1, <2>3 DEF ServedAlone
    <3>2. Agrees'
      BY <1>1, <1>4, <2>1, <3>1 DEF ServedAlone, Agrees
    <3>3. QED
      BY <1>3, <2>2, <2>3, <3>2 DEF ServedAlone
  <2>4. CASE me.todo = "upsert_retire"
    <3>1. active # Nothing /\ active.version = me.version /\ me.version \in VersionIds
      BY <2>1, <2>4 DEF ServedAlone, RegistryInv, RegistryTypes
    <3>2. QED
      BY <1>1, <1>3, <1>4, <2>2, <2>4, <3>1 DEF ServedAlone
  <2>5. QED
    BY <1>1, <2>3, <2>4
<1>7. QED
  BY <1>5, <1>6 DEF RegistryInv

LEMMA RetiresKeeps ==
  ASSUME RegistryInv, NEW o \in Operators, Retires(o)
  PROVE  RegistryInv'
<1> DEFINE me == operator[o]
           out == {v \in VersionIds \ {me.version} : row[v] = "active"}
<1>1. /\ me.todo = "retire" /\ UNCHANGED <<active, previous, row, disturbed>>
      /\ operator' = [operator EXCEPT ![o] = [me EXCEPT !.todo = "promote", !.retire = out]]
  BY DEF Retires
<1>2. /\ operator' \in [Operators -> OperatorType]
      /\ operator'[o].todo = "promote" /\ operator'[o].version = me.version
      /\ operator'[o].retire = out
      /\ \A p \in Operators \ {o} : operator'[p] = operator[p]
  BY <1>1 DEF RegistryInv, RegistryTypes, OperatorType
<1>3. RegistryTypes'
  BY <1>1, <1>2 DEF RegistryInv, RegistryTypes
<1>4. ASSUME ~disturbed' PROVE ServedAlone'
  <2>1. ServedAlone
    BY <1>1, <1>4 DEF RegistryInv
  <2>2. \A p \in Operators : p # o => operator'[p].todo = "none"
    BY <1>1, <1>2, <2>1 DEF ServedAlone
  <2>3. active # Nothing /\ active.version = me.version /\ row[active.version] # "none"
    BY <1>1, <2>1 DEF ServedAlone
  <2>4. QED
    BY <1>1, <1>2, <2>2, <2>3 DEF ServedAlone
<1>5. QED
  BY <1>3, <1>4 DEF RegistryInv

\* The last statement: of the rows that read active only the version's does.
LEMMA PromotesKeeps ==
  ASSUME RegistryInv, NEW o \in Operators, Promotes(o)
  PROVE  RegistryInv'
<1> DEFINE me == operator[o]
<1>1. /\ me.todo = "promote" /\ UNCHANGED <<active, previous, disturbed>>
      /\ Does(o, "none", NoVersionId)
      /\ row' = [v \in VersionIds |->
                   IF row[v] # "none" /\ v = me.version THEN "active"
                   ELSE IF v \in me.retire /\ row[v] = "active" THEN "retired"
                   ELSE row[v]]
  BY DEF Promotes
<1>2. /\ operator' \in [Operators -> OperatorType] /\ operator'[o].todo = "none"
      /\ \A p \in Operators \ {o} : operator'[p] = operator[p]
  <2>1. /\ operator' \in [Operators -> OperatorType]
        /\ operator'[o] = [todo |-> "none", version |-> NoVersionId, retire |-> {}]
        /\ \A p \in Operators \ {o} : operator'[p] = operator[p]
    BY <1>1, DoesTyped DEF RegistryInv
  <2>2. QED
    BY <2>1
<1>3. row' \in [VersionIds -> Statuses \cup {"none"}]
  BY <1>1 DEF RegistryInv, RegistryTypes, Statuses
<1>4. RegistryTypes'
  BY <1>1, <1>2, <1>3 DEF RegistryInv, RegistryTypes
<1>5. ASSUME ~disturbed' PROVE ServedAlone'
  <2>1. ServedAlone
    BY <1>1, <1>5 DEF RegistryInv
  <2>2. \A p \in Operators : operator'[p].todo = "none"
    BY <1>1, <1>2, <2>1 DEF ServedAlone
  <2>3. /\ active # Nothing /\ active.version = me.version /\ active.version \in VersionIds
        /\ row[active.version] # "none"
        /\ me.retire = {v \in VersionIds \ {active.version} : row[v] = "active"}
    BY <1>1, <2>1 DEF ServedAlone, RegistryInv, RegistryTypes
  <2>4. \A v \in VersionIds : row'[v] = "active" <=> v = active.version
    BY <1>1, <2>3
  <2>5. Agrees'
    BY <1>1, <2>3, <2>4 DEF Agrees
  <2>6. QED
    BY <2>2, <2>5 DEF ServedAlone
<1>6. QED
  BY <1>4, <1>5 DEF RegistryInv

LEMMA RegistryContinues ==
  ASSUME RegistryInv, [RegistryNext]_registryVars
  PROVE  RegistryInv'
<1>1. ASSUME NEW o \in Operators, TableFails(o)
      PROVE  RegistryInv'
  BY <1>1, DoesTyped DEF TableFails, RegistryInv, RegistryTypes
<1>2. CASE Restarts
  BY <1>2 DEF Restarts, RegistryInv, RegistryTypes, OperatorType, IdleOperator
<1>3. CASE UNCHANGED registryVars
  BY <1>3 DEF registryVars, RegistryInv, RegistryTypes, ServedAlone, Agrees
<1>4. QED
  BY <1>1, <1>2, <1>3, registerKeeps, activateKeeps, switchKeeps, rollbackKeeps,
     upsertKeeps, RetiresKeeps, PromotesKeeps DEF RegistryNext

\* Whenever no request is in flight, the row that reads active is the one of
\* the version the process answers with, unless requests overlapped, a
\* statement failed or the process restarted since the last one served alone
\* (model_ops.py; model_version_repository.py:31).
THEOREM TableAgrees == RegistrySpec => []QuietTableAgrees
<1>1. RegistryInv => QuietTableAgrees
  BY DEF RegistryInv, ServedAlone, Agrees, QuietTableAgrees, Busy
<1>2. RegistryInv /\ [RegistryNext]_registryVars => RegistryInv'
  BY RegistryContinues
<1>3. QED
  BY <1>1, <1>2, RegistryStarts, PTL DEF RegistrySpec

-----------------------------------------------------------------------------
(* The last administrator (Accounts)                                       *)

AccountTypes ==
  /\ role \in [Users -> Roles \cup {Absent}]
  /\ sessions \subseteq Session
  /\ request \in [Requests -> Request]
  /\ IsFiniteSet(ActiveAdmins)

\* Users are never deleted: who logged in or asked still has a row.
ActorsExist ==
  /\ role[FirstAdmin] # Absent
  /\ \A s \in sessions : role[s.sub] # Absent
  /\ \A r \in Requests : role[request[r].actor] # Absent

\* Who is about to take the own role away saw another administrator, or was
\* none, and nobody interfered since.
AnotherAdmin(r) ==
  \/ role[request[r].target] # "admin"
  \/ \E u \in ActiveAdmins : u # request[r].target

OwnRoleChecked ==
  \A r \in Requests :
    /\ request[r].pc = "role_write" /\ ~request[r].raced
    /\ request[r].actor = request[r].target /\ request[r].role # "admin"
    => AnotherAdmin(r)

AccountsInv == AccountTypes /\ ActorsExist /\ OwnRoleChecked

LEMMA AbsentIsNoRole == Absent \notin Roles
BY AccountsAssumption DEF Absent

LEMMA AccountsStart == AccountsInit => AccountsInv
<1> SUFFICES ASSUME AccountsInit PROVE AccountsInv
  OBVIOUS
<1>1. IdleRequest \in Request
  BY AccountsAssumption DEF IdleRequest, Request
<1>2. IsFiniteSet(ActiveAdmins)
  <2>1. ActiveAdmins \subseteq {FirstAdmin}
    BY DEF AccountsInit, ActiveAdmins, Absent
  <2>2. QED
    BY <2>1, FS_Singleton, FS_Subset
<1>3. AccountTypes
  BY <1>1, <1>2, AccountsAssumption DEF AccountsInit, AccountTypes
<1>4. ActorsExist /\ OwnRoleChecked
  BY AccountsAssumption, AbsentIsNoRole
     DEF AccountsInit, ActorsExist, OwnRoleChecked, IdleRequest
<1>5. QED
  BY <1>3, <1>4 DEF AccountsInv

\* More than one administrator: another one than any u.
LEMMA OneOfSeveral ==
  ASSUME NEW S, IsFiniteSet(S), ~(Cardinality(S) <= 1), NEW u
  PROVE  \E v \in S : v # u
<1> SUFFICES ASSUME S \subseteq {u} PROVE FALSE
  OBVIOUS
<1>1. Cardinality(S) \in {0, 1}
  BY FS_EmptySet, FS_Singleton
<1>2. QED
  BY <1>1

\* The users change and nobody in flight is told: only new administrators.
LEMMA GrowthKeeps ==
  ASSUME AccountsInv, NEW u \in Users,
         role' \in [Users -> Roles \cup {Absent}],
         \A v \in Users : role[v] # Absent => role'[v] = role[v],
         ActiveAdmins \subseteq ActiveAdmins', ActiveAdmins' \subseteq ActiveAdmins \cup {u},
         sessions' \subseteq Session, \A s \in sessions' : role'[s.sub] # Absent,
         UNCHANGED request
  PROVE  AccountsInv'
<1>1. IsFiniteSet(ActiveAdmins')
  <2>1. IsFiniteSet(ActiveAdmins \cup {u})
    BY FS_AddElement DEF AccountsInv, AccountTypes
  <2>2. QED
    BY <2>1, FS_Subset
<1>2. \A r \in Requests : request[r].actor \in Users /\ request[r].target \in Users
  BY DEF AccountsInv, AccountTypes, Request
<1>3. ActorsExist'
  BY <1>2, AccountsAssumption DEF AccountsInv, ActorsExist
<1>4. OwnRoleChecked'
  BY <1>2 DEF AccountsInv, ActorsExist, OwnRoleChecked, AnotherAdmin
<1>5. QED
  BY <1>1, <1>3, <1>4 DEF AccountsInv, AccountTypes

\* The users change and everyone in flight is marked as raced.
LEMMA RacedKeeps ==
  ASSUME AccountsInv, NEW u \in Users,
         role' \in [Users -> Roles \cup {Absent}],
         \A v \in Users : role[v] # Absent => role'[v] # Absent,
         ActiveAdmins' \subseteq ActiveAdmins \cup {u}, UNCHANGED sessions,
         request' \in [Requests -> Request],
         \A r \in Requests :
           \/ request'[r] = IdleRequest
           \/ /\ request'[r].actor = request[r].actor /\ request'[r].pc = request[r].pc
              /\ request[r].pc # "idle" => request'[r].raced
  PROVE  AccountsInv'
<1>1. IsFiniteSet(ActiveAdmins')
  <2>1. IsFiniteSet(ActiveAdmins \cup {u})
    BY FS_AddElement DEF AccountsInv, AccountTypes
  <2>2. QED
    BY <2>1, FS_Subset
<1>2. ActorsExist'
  <2>1. role'[FirstAdmin] # Absent
    BY AccountsAssumption DEF AccountsInv, ActorsExist
  <2>2. QED
    BY <2>1 DEF AccountsInv, AccountTypes, ActorsExist, IdleRequest, Request, Session
<1>3. OwnRoleChecked'
  BY DEF OwnRoleChecked, IdleRequest
<1>4. QED
  BY <1>1, <1>2, <1>3 DEF AccountsInv, AccountTypes

\* Nothing changes but where one request stands.
LEMMA MoveKeeps ==
  ASSUME AccountsInv, NEW r \in Requests, NEW new \in Request,
         request' = [request EXCEPT ![r] = new],
         UNCHANGED <<role, disabled>>, sessions' \subseteq Session,
         \A s \in sessions' : role[s.sub] # Absent,
         role[new.actor] # Absent,
         /\ new.pc = "role_write" /\ ~new.raced
         /\ new.actor = new.target /\ new.role # "admin"
         => role[new.target] # "admin" \/ \E u \in ActiveAdmins : u # new.target
  PROVE  AccountsInv'
<1>1. ActiveAdmins' = ActiveAdmins
  BY DEF ActiveAdmins
<1>2. AccountTypes'
  BY <1>1 DEF AccountsInv, AccountTypes
<1>3. ActorsExist'
  BY DEF AccountsInv, AccountTypes, ActorsExist
<1>4. ASSUME NEW q \in Requests,
             /\ request'[q].pc = "role_write" /\ ~request'[q].raced
             /\ request'[q].actor = request'[q].target /\ request'[q].role # "admin"
      PROVE  AnotherAdmin(q)'
  <2>1. CASE q = r
    BY <1>1, <1>4, <2>1 DEF AccountsInv, AccountTypes, AnotherAdmin
  <2>2. CASE q # r
    <3>1. request'[q] = request[q]
      BY <2>2 DEF AccountsInv, AccountTypes
    <3>2. AnotherAdmin(q)
      BY <1>4, <3>1 DEF AccountsInv, OwnRoleChecked
    <3>3. QED
      BY <1>1, <3>1, <3>2 DEF AnotherAdmin
  <2>3. QED
    BY <2>1, <2>2
<1>5. QED
  BY <1>2, <1>3, <1>4 DEF AccountsInv, OwnRoleChecked

LEMMA RequestTyped ==
  ASSUME AccountsInv, NEW r \in Requests
  PROVE  /\ request[r] \in Request
         /\ request[r].actor \in Users /\ request[r].target \in Users
         /\ request[r].role \in Roles /\ role[request[r].actor] # Absent
BY DEF AccountsInv, AccountTypes, ActorsExist, Request

LEMMA IdleKeeps ==
  ASSUME AccountsInv, NEW r \in Requests, request' = [request EXCEPT ![r] = IdleRequest],
         UNCHANGED <<role, disabled, sessions>>
  PROVE  AccountsInv'
<1>1. IdleRequest \in Request /\ IdleRequest.pc = "idle" /\ IdleRequest.actor = FirstAdmin
  BY AccountsAssumption DEF IdleRequest, Request
<1>2. role[FirstAdmin] # Absent /\ sessions \subseteq Session
  BY DEF AccountsInv, AccountTypes, ActorsExist
<1>3. QED
  BY <1>1, <1>2, MoveKeeps DEF AccountsInv, ActorsExist

\* What a request read of its target, and what it counted, is what it will
\* have checked when it writes.
LEMMA ReadsKeeps ==
  ASSUME AccountsInv, NEW r \in Requests, ReadsTarget(r)
  PROVE  AccountsInv'
<1> DEFINE me == request[r]
           To(pc) == [me EXCEPT !.pc = pc]
<1>1. \A pc \in {"role_count", "role_write", "disable_count", "disable_audit"} :
        /\ To(pc) \in Request /\ To(pc).actor = me.actor
        /\ To(pc).pc = pc /\ To(pc).target = me.target
  BY RequestTyped DEF Request
<1>2. PICK pc \in {"role_count", "role_write", "disable_count", "disable_audit"} :
        /\ request' = [request EXCEPT ![r] = To(pc)]
        /\ pc = "role_write" => role[me.target] # "admin"
  <2>1. request' = [request EXCEPT ![r] = [me EXCEPT !.pc = request'[r].pc]]
    BY DEF ReadsTarget, AccountsInv, AccountTypes, Request
  <2>2. /\ request'[r].pc \in {"role_count", "role_write", "disable_count", "disable_audit"}
        /\ request'[r].pc = "role_write" => role[me.target] # "admin"
    BY DEF ReadsTarget, AccountsInv, AccountTypes, Request
  <2>3. QED
    BY <2>1, <2>2
<1>3. UNCHANGED <<role, disabled, sessions>>
  BY DEF ReadsTarget
<1>4. /\ sessions' \subseteq Session
      /\ \A s \in sessions' : role[s.sub] # Absent
  BY <1>3 DEF AccountsInv, AccountTypes, ActorsExist
<1> HIDE DEF To
<1>5. QED
  BY <1>1, <1>2, <1>3, <1>4, RequestTyped, MoveKeeps

LEMMA CountsKeeps ==
  ASSUME AccountsInv, NEW r \in Requests, CountsAdmins(r)
  PROVE  AccountsInv'
<1> DEFINE me == request[r]
           new == [me EXCEPT !.pc = IF me.pc = "role_count" THEN "role_write" ELSE "disable_audit"]
<1>1. CASE Cardinality(ActiveAdmins) <= 1
  BY <1>1, IdleKeeps DEF CountsAdmins
<1>2. CASE ~(Cardinality(ActiveAdmins) <= 1)
  <2>1. /\ request' = [request EXCEPT ![r] = new]
        /\ UNCHANGED <<role, disabled, sessions>>
    <3>1. /\ request' = [request EXCEPT ![r] =
                 IF Cardinality(ActiveAdmins) <= 1 THEN IdleRequest ELSE new]
          /\ UNCHANGED <<role, disabled, sessions>>
      BY DEF CountsAdmins
    <3>2. QED
      BY <1>2, <3>1
  <2>2. new \in Request /\ new.actor = me.actor /\ new.target = me.target
    BY RequestTyped DEF Request
  <2>3. \E u \in ActiveAdmins : u # new.target
    BY <1>2, OneOfSeveral DEF AccountsInv, AccountTypes
  <2>4. /\ sessions' \subseteq Session
        /\ \A s \in sessions' : role[s.sub] # Absent
    BY <2>1 DEF AccountsInv, AccountTypes, ActorsExist
  <2> HIDE DEF new
  <2>5. QED
    BY <2>1, <2>2, <2>3, <2>4, RequestTyped, MoveKeeps
<1>3. QED
  BY <1>1, <1>2

LEMMA SessionKeeps ==
  ASSUME AccountsInv, NEW s \in sessions, SessionSteps(s)
  PROVE  AccountsInv'
<1>1. s \in Session /\ s.sub \in Users /\ s.role \in Roles /\ role[s.sub] # Absent
  BY DEF AccountsInv, AccountTypes, ActorsExist, Session
<1>2. sessions \subseteq Session /\ \A t \in sessions : role[t.sub] # Absent /\ t.sub \in Users
  BY DEF AccountsInv, AccountTypes, ActorsExist, Session
<1>3. CASE SessionExpires(s)
  <2>1. ActiveAdmins' = ActiveAdmins /\ UNCHANGED <<role, request>>
    BY <1>3 DEF SessionExpires, ActiveAdmins
  <2>2. sessions' \subseteq sessions
    BY <1>3 DEF SessionExpires
  <2>3. QED
    BY <1>1, <1>2, <2>1, <2>2, GrowthKeeps DEF AccountsInv, AccountTypes
<1>4. ASSUME NEW u \in Users, enable_user(s, u)
      PROVE  AccountsInv'
  <2>1. /\ ActiveAdmins \subseteq ActiveAdmins' /\ ActiveAdmins' \subseteq ActiveAdmins \cup {u}
        /\ UNCHANGED <<role, request, sessions>>
    BY <1>4 DEF enable_user, ActiveAdmins
  <2>2. QED
    BY <1>2, <2>1, GrowthKeeps DEF AccountsInv, AccountTypes
<1>5. ASSUME NEW u \in Users, NEW new \in Roles, create_user(s, u, new)
      PROVE  AccountsInv'
  <2>1. role' = [role EXCEPT ![u] = new] /\ role[u] = Absent /\ UNCHANGED <<disabled, sessions, request>>
    BY <1>5 DEF create_user
  <2>2. /\ role' \in [Users -> Roles \cup {Absent}]
        /\ \A v \in Users : role[v] # Absent => role'[v] = role[v]
    BY <2>1 DEF AccountsInv, AccountTypes
  <2>3. ActiveAdmins \subseteq ActiveAdmins' /\ ActiveAdmins' \subseteq ActiveAdmins \cup {u}
    BY <2>1, AbsentIsNoRole, AccountsAssumption DEF ActiveAdmins, AccountsInv, AccountTypes
  <2>4. QED
    BY <1>2, <2>1, <2>2, <2>3, GrowthKeeps
<1>6. ASSUME NEW r \in Requests, NEW u \in Users, AskDisable(r, s, u)
      PROVE  AccountsInv'
  <2> DEFINE new == [pc |-> "disable_get", actor |-> s.sub, target |-> u,
                     role |-> "admin", raced |-> FALSE]
  <2>1. request' = [request EXCEPT ![r] = new] /\ UNCHANGED <<role, disabled, sessions>>
    BY <1>6 DEF AskDisable, Begin
  <2>2. new \in Request
    BY <1>1, AccountsAssumption DEF Request
  <2>3. QED
    BY <1>1, <1>2, <2>1, <2>2, MoveKeeps
<1>7. ASSUME NEW r \in Requests, NEW u \in Users, NEW given \in Roles, AskRole(r, s, u, given)
      PROVE  AccountsInv'
  <2> DEFINE new == [pc |-> IF u = s.sub /\ given # "admin" THEN "role_get" ELSE "role_write",
                     actor |-> s.sub, target |-> u, role |-> given, raced |-> FALSE]
  <2>1. request' = [request EXCEPT ![r] = new] /\ UNCHANGED <<role, disabled, sessions>>
    BY <1>7 DEF AskRole, Begin
  <2>2. new \in Request
    BY <1>1 DEF Request
  <2>3. QED
    BY <1>1, <1>2, <2>1, <2>2, MoveKeeps
<1>8. QED
  BY <1>3, <1>4, <1>5, <1>6, <1>7 DEF SessionSteps

LEMMA RacesTyped ==
  ASSUME AccountsInv, NEW r \in Requests, request' = Races(r)
  PROVE  /\ request' \in [Requests -> Request]
         /\ \A q \in Requests :
              \/ request'[q] = IdleRequest
              \/ /\ request'[q].actor = request[q].actor /\ request'[q].pc = request[q].pc
                 /\ request[q].pc # "idle" => request'[q].raced
<1>1. \A q \in Requests : request[q] \in Request
  BY RequestTyped
<1>2. IdleRequest \in Request
  BY AccountsAssumption DEF IdleRequest, Request
<1>3. ASSUME NEW q \in Requests
      PROVE  LET marked == [request[q] EXCEPT !.raced = request[q].pc # "idle"] IN
             /\ marked \in Request /\ marked.actor = request[q].actor
             /\ marked.pc = request[q].pc
             /\ request[q].pc # "idle" => marked.raced
  BY <1>1 DEF Request
<1>4. QED
  BY <1>2, <1>3 DEF Races

LEMMA WritesKeeps ==
  ASSUME AccountsInv, NEW r \in Requests, update_role(r)
  PROVE  AccountsInv'
<1> DEFINE u == request[r].target
<1>1. /\ role' = IF role[u] = Absent THEN role ELSE [role EXCEPT ![u] = request[r].role]
      /\ request' = Races(r) /\ UNCHANGED <<disabled, sessions>>
  BY DEF update_role
<1>2. u \in Users /\ request[r].role \in Roles
  BY RequestTyped
<1>3. /\ role' \in [Users -> Roles \cup {Absent}]
      /\ \A v \in Users : role[v] # Absent => role'[v] # Absent
      /\ \A v \in Users \ {u} : role'[v] = role[v]
  BY <1>1, <1>2, AbsentIsNoRole DEF AccountsInv, AccountTypes
<1>4. ActiveAdmins' \subseteq ActiveAdmins \cup {u}
  BY <1>1, <1>3 DEF ActiveAdmins
<1>5. QED
  BY <1>1, <1>2, <1>3, <1>4, RacesTyped, RacedKeeps

\* The audit row of a disable is refused: nobody is disabled by a request.
LEMMA DisableKeeps ==
  ASSUME AccountsInv, NEW r \in Requests, disable_user(r)
  PROVE  AccountsInv' /\ UNCHANGED <<role, disabled>>
<1>1. UNCHANGED <<role, disabled, sessions>>
  BY DEF disable_user, AuditAccepts
<1>2. request' = [request EXCEPT ![r] = IdleRequest]
  BY <1>1 DEF disable_user
<1>3. QED
  BY <1>1, <1>2, IdleKeeps

LEMMA ByHandKeeps ==
  ASSUME AccountsInv, NEW u \in Users, DisabledByHand(u)
  PROVE  AccountsInv'
<1>1. UNCHANGED <<role, sessions>> /\ disabled' = disabled \cup {u}
  BY DEF DisabledByHand
<1>2. \A q \in Requests : request[q] \in Request
  BY RequestTyped
<1>3. ASSUME NEW q \in Requests
      PROVE  /\ request'[q] \in Request
             /\ request'[q].actor = request[q].actor /\ request'[q].pc = request[q].pc
             /\ request[q].pc # "idle" => request'[q].raced
  BY <1>2 DEF DisabledByHand, Request
<1>4. request' \in [Requests -> Request]
  BY <1>3 DEF DisabledByHand
<1>5. ActiveAdmins' \subseteq ActiveAdmins \cup {u}
  BY <1>1 DEF ActiveAdmins
<1>6. role' \in [Users -> Roles \cup {Absent}] /\ \A v \in Users : role'[v] = role[v]
  BY <1>1 DEF AccountsInv, AccountTypes
<1>7. QED
  BY <1>1, <1>3, <1>4, <1>5, <1>6, RacedKeeps

LEMMA AccountsContinue ==
  ASSUME AccountsInv, [AccountsNext]_accountsVars
  PROVE  AccountsInv'
<1>1. ASSUME NEW u \in Users, Login(u)
      PROVE  AccountsInv'
  <2>1. [sub |-> u, role |-> role[u]] \in Session
    BY <1>1 DEF Login, Session, AccountsInv, AccountTypes
  <2>2. /\ sessions' \subseteq Session /\ \A s \in sessions' : role[s.sub] # Absent
        /\ UNCHANGED <<role, request>> /\ ActiveAdmins' = ActiveAdmins
    BY <1>1, <2>1 DEF Login, ActiveAdmins, AccountsInv, AccountTypes, ActorsExist
  <2>3. QED
    BY <2>2, GrowthKeeps DEF AccountsInv, AccountTypes
<1>2. CASE UNCHANGED accountsVars
  BY <1>2 DEF accountsVars, AccountsInv, AccountTypes, ActorsExist, OwnRoleChecked,
              AnotherAdmin, ActiveAdmins
<1>3. QED
  BY <1>1, <1>2, SessionKeeps, ReadsKeeps, CountsKeeps, WritesKeeps, DisableKeeps,
     ByHandKeeps DEF AccountsNext

\* The only step after which no administrator is left is an update_role that
\* overlapped another change or was asked by a session that outlived the
\* actor's own role: the check of users.py:82 holds against everything else.
THEOREM LockoutIsRaced == AccountsSpec => LockoutNeedsRace
<1> DEFINE Lockout == \E r \in Requests :
             /\ request[r].pc = "role_write" /\ request'[r].pc = "idle"
             /\ request[r].raced \/ request[r].actor \notin ActiveAdmins
<1>1. AccountsInv /\ [AccountsNext]_accountsVars =>
        [ActiveAdmins # {} /\ ActiveAdmins' = {} => Lockout]_accountsVars
  <2> SUFFICES ASSUME AccountsInv, AccountsNext, ActiveAdmins # {}, ActiveAdmins' = {}
               PROVE  Lockout
    BY DEF accountsVars, ActiveAdmins
  <2>1. ASSUME NEW u \in Users, Login(u) \/ DisabledByHand(u)
        PROVE  FALSE
    BY <2>1 DEF Login, DisabledByHand, ActiveAdmins
  <2>2. ASSUME NEW s \in sessions, SessionSteps(s)
        PROVE  FALSE
    <3>1. PICK u \in ActiveAdmins : TRUE
      OBVIOUS
    <3>2. u \in Users /\ role[u] = "admin" /\ u \notin disabled
      BY <3>1 DEF ActiveAdmins
    <3>3. role'[u] = "admin" /\ u \notin disabled'
      BY <2>2, <3>2 DEF SessionSteps, SessionExpires, enable_user, create_user, AskDisable,
                        AskRole, Absent, AccountsInv, AccountTypes
    <3>4. QED
      BY <3>2, <3>3 DEF ActiveAdmins
  <2>3. ASSUME NEW r \in Requests, ReadsTarget(r) \/ CountsAdmins(r) \/ disable_user(r)
        PROVE  FALSE
    BY <2>3, DisableKeeps DEF ReadsTarget, CountsAdmins, ActiveAdmins
  <2>4. PICK r \in Requests : update_role(r)
    BY <2>1, <2>2, <2>3 DEF AccountsNext
  <2> DEFINE u == request[r].target
  <2>5. /\ request[r].pc = "role_write" /\ UNCHANGED disabled
        /\ role' = IF role[u] = Absent THEN role ELSE [role EXCEPT ![u] = request[r].role]
        /\ request'[r] = IdleRequest
    BY <2>4 DEF update_role, Races
  <2>6. request[r].actor \in ActiveAdmins => request[r].raced
    <3> SUFFICES ASSUME request[r].actor \in ActiveAdmins, ~request[r].raced PROVE FALSE
      OBVIOUS
    <3>1. \A v \in ActiveAdmins : v = u
      BY <2>5 DEF ActiveAdmins, AccountsInv, AccountTypes
    <3>2. request[r].actor = u /\ role[u] = "admin" /\ u \in Users /\ u \notin disabled
      BY <3>1 DEF ActiveAdmins
    <3>3. request[r].role # "admin"
      BY <2>5, <3>2 DEF ActiveAdmins, Absent, AccountsInv, AccountTypes
    <3>4. AnotherAdmin(r)
      BY <2>5, <3>2, <3>3 DEF AccountsInv, OwnRoleChecked
    <3>5. QED
      BY <3>1, <3>2, <3>4 DEF AnotherAdmin
  <2>7. QED
    BY <2>5, <2>6 DEF IdleRequest
<1>2. AccountsInv /\ [AccountsNext]_accountsVars => AccountsInv'
  BY AccountsContinue
<1>3. QED
  BY <1>1, <1>2, AccountsStart, PTL DEF AccountsSpec, LockoutNeedsRace

-----------------------------------------------------------------------------
(* Sites of measurements and numbers of positions (Directory)              *)

EditorType ==
  [pc : {"idle", "audit", "delete", "write", "lock", "insert"},
   device : Devices \cup {NoSite}, site : Sites \cup {NoSite},
   purge : BOOLEAN, version : Nat, stale : BOOLEAN]

DirectoryTypes ==
  /\ siteOf \in [Devices -> Sites \cup {NoSite}]
  /\ measured \subseteq [device : Devices, site : Sites, stale : BOOLEAN]
  /\ positions \subseteq Devices \X Sites \X Nat
  /\ editor \in [Editors -> EditorType]
  /\ \A e \in Editors :
       /\ editor[e].pc # "idle" => editor[e].device \in Devices
       /\ editor[e].pc \in {"write", "lock", "insert"} => editor[e].site \in Sites

\* Who is to write a measurement has the site the device is at, unless its
\* row has changed since.
SiteIsKnown ==
  \A e \in Editors : editor[e].pc = "write" =>
    editor[e].stale \/ siteOf[editor[e].device] = editor[e].site

UpTo(d, s, n) == {<<d, s, k>> : k \in 1 .. n}

\* Positions of a base at a site are numbered from 1 without a gap, and one
\* request at most has a number of that base and site: the next one.
NumbersInv ==
  /\ \A d \in Devices, s \in Sites : \E n \in Nat : Submitted(d, s) = UpTo(d, s, n)
  /\ \A e, o \in Editors :
       /\ editor[e].pc = "insert" /\ editor[o].pc = "insert"
       /\ editor[e].device = editor[o].device /\ editor[e].site = editor[o].site
       => e = o
  /\ \A e \in Editors : editor[e].pc = "insert" =>
       \E n \in Nat : /\ editor[e].version = n + 1
                      /\ Submitted(editor[e].device, editor[e].site)
                           = UpTo(editor[e].device, editor[e].site, n)

DirectoryInv == DirectoryTypes /\ HistoryKeepsItsSite /\ SiteIsKnown /\ NumbersInv

LEMMA IdleEditorTyped == IdleEditor \in EditorType /\ IdleEditor.pc = "idle"
BY DEF IdleEditor, EditorType

LEMMA DirectoryStarts == DirectoryInit => DirectoryInv
<1> SUFFICES ASSUME DirectoryInit PROVE DirectoryInv
  OBVIOUS
<1>1. \A e \in Editors : editor[e] = IdleEditor
  BY DEF DirectoryInit
<1>2. DirectoryTypes /\ HistoryKeepsItsSite /\ SiteIsKnown
  BY <1>1, IdleEditorTyped
     DEF DirectoryInit, DirectoryTypes, HistoryKeepsItsSite, SiteIsKnown
<1>3. \A d \in Devices, s \in Sites : Submitted(d, s) = UpTo(d, s, 0)
  BY DEF DirectoryInit, Submitted, UpTo
<1>4. QED
  BY <1>1, <1>2, <1>3, IdleEditorTyped DEF DirectoryInv, NumbersInv

LEMMA UpToCounts ==
  ASSUME NEW d, NEW s, NEW n \in Nat
  PROVE  Cardinality(UpTo(d, s, n)) = n
<1> DEFINE f == [k \in 1 .. n |-> <<d, s, k>>]
<1>1. f \in Bijection(1 .. n, UpTo(d, s, n))
  <2>1. f \in [1 .. n -> UpTo(d, s, n)]
    BY DEF UpTo
  <2>2. \A j, k \in 1 .. n : f[j] = f[k] => j = k
    OBVIOUS
  <2>3. \A p \in UpTo(d, s, n) : \E k \in 1 .. n : f[k] = p
    BY DEF UpTo
  <2>4. QED
    BY <2>1, <2>2, <2>3 DEF Bijection, Injection, Surjection, IsInjective
<1>2. ExistsBijection(1 .. n, UpTo(d, s, n))
  BY <1>1 DEF ExistsBijection
<1>3. IsFiniteSet(1 .. n) /\ Cardinality(1 .. n) = n
  BY FS_Interval
<1>4. QED
  BY <1>2, <1>3, FS_Bijection

\* MAX(version_no) + 1.
LEMMA NextVersionFollows ==
  ASSUME NEW d, NEW s, NEW n \in Nat, Submitted(d, s) = UpTo(d, s, n)
  PROVE  NextVersion(d, s) = n + 1
<1> DEFINE numbers == {p[3] : p \in Submitted(d, s)} \cup {0}
<1>1. numbers = 0 .. n
  <2>1. \A p \in UpTo(d, s, n) : \E k \in 1 .. n : p = <<d, s, k>> /\ p[3] = k
    BY DEF UpTo
  <2>2. \A k \in 1 .. n : <<d, s, k>> \in UpTo(d, s, n) /\ <<d, s, k>>[3] = k
    BY DEF UpTo
  <2>3. \A k \in 1 .. n : k \in numbers
    BY <2>2
  <2>4. \A k \in numbers : k \in 0 .. n
    BY <2>1
  <2>5. QED
    BY <2>3, <2>4
<1>2. NextVersion(d, s) = 1 + (CHOOSE m \in 0 .. n : \A k \in 0 .. n : k <= m)
  BY <1>1 DEF NextVersion
<1>3. (CHOOSE m \in 0 .. n : \A k \in 0 .. n : k <= m) = n
  OBVIOUS
<1>4. QED
  BY <1>2, <1>3

\* The parts about numbers hold as long as no position is stored and nobody
\* takes a number.
LEMMA NumbersStay ==
  ASSUME DirectoryInv, UNCHANGED positions,
         \A e \in Editors : editor'[e].pc = "insert" =>
           /\ editor[e].pc = "insert" /\ editor'[e].device = editor[e].device
           /\ editor'[e].site = editor[e].site /\ editor'[e].version = editor[e].version
  PROVE  NumbersInv'
<1>1. \A d, s : Submitted(d, s)' = Submitted(d, s)
  BY DEF Submitted
<1>2. \A d \in Devices, s \in Sites : \E n \in Nat : Submitted(d, s)' = UpTo(d, s, n)
  BY <1>1 DEF DirectoryInv, NumbersInv
<1>3. ASSUME NEW e \in Editors, editor'[e].pc = "insert"
      PROVE  \E n \in Nat :
               /\ editor'[e].version = n + 1
               /\ Submitted(editor[e].device, editor[e].site)
                    = UpTo(editor[e].device, editor[e].site, n)
  BY <1>3 DEF DirectoryInv, NumbersInv
<1>4. ASSUME NEW e \in Editors, editor'[e].pc = "insert"
      PROVE  /\ Submitted(editor[e].device, editor[e].site)'
                  = Submitted(editor[e].device, editor[e].site)
             /\ \A n : UpTo(editor[e].device, editor[e].site, n)'
                       = UpTo(editor[e].device, editor[e].site, n)
  BY <1>4 DEF Submitted, UpTo
<1>5. \A e, o \in Editors :
        /\ editor'[e].pc = "insert" /\ editor'[o].pc = "insert"
        /\ editor'[e].device = editor'[o].device /\ editor'[e].site = editor'[o].site
        => e = o
  BY DEF DirectoryInv, NumbersInv
<1>6. QED
  BY <1>2, <1>3, <1>4, <1>5 DEF NumbersInv

\* One request moves on without a number.
LEMMA EditorMoves ==
  ASSUME DirectoryInv, NEW e \in Editors, NEW new \in EditorType,
         editor' = [editor EXCEPT ![e] = new], UNCHANGED <<siteOf, measured, positions>>,
         new.pc # "insert",
         new.pc # "idle" => new.device \in Devices,
         new.pc \in {"write", "lock"} => new.site \in Sites,
         new.pc = "write" => siteOf[new.device] = new.site
  PROVE  DirectoryInv'
<1>1. /\ editor' \in [Editors -> EditorType] /\ editor'[e] = new
      /\ \A o \in Editors \ {e} : editor'[o] = editor[o]
  BY DEF DirectoryInv, DirectoryTypes
<1>2. DirectoryTypes'
  BY <1>1 DEF DirectoryInv, DirectoryTypes
<1>3. HistoryKeepsItsSite'
  BY DEF DirectoryInv, HistoryKeepsItsSite
<1>4. SiteIsKnown'
  BY <1>1 DEF DirectoryInv, SiteIsKnown
<1>5. NumbersInv'
  BY <1>1, NumbersStay
<1>6. QED
  BY <1>2, <1>3, <1>4, <1>5 DEF DirectoryInv

LEMMA EditorEnds ==
  ASSUME DirectoryInv, NEW e \in Editors, Ends(e), UNCHANGED <<siteOf, measured, positions>>
  PROVE  DirectoryInv'
BY IdleEditorTyped, EditorMoves DEF Ends

LEMMA EditorStarts ==
  ASSUME DirectoryInv, NEW e \in Editors, NEW d \in Devices, NEW s \in Sites,
         NEW pc \in {"write", "lock"}, Starts(e, pc, d, s), siteOf[d] = s,
         UNCHANGED <<siteOf, measured, positions>>
  PROVE  DirectoryInv'
<1> DEFINE new == [IdleEditor EXCEPT !.pc = pc, !.device = d, !.site = s]
<1>1. /\ new \in EditorType /\ new.pc = pc /\ new.device = d /\ new.site = s
      /\ editor' = [editor EXCEPT ![e] = new]
  BY IdleEditorTyped DEF Starts, EditorType
<1> HIDE DEF new
<1>2. QED
  BY <1>1, EditorMoves

LEMMA OutdatedTyped ==
  ASSUME DirectoryInv, NEW e \in Editors, NEW d
  PROVE  [editor[e] EXCEPT !.stale = @ \/ (editor[e].device = d)] \in EditorType
<1>1. editor[e] \in EditorType
  BY DEF DirectoryInv, DirectoryTypes
<1>2. ASSUME NEW r \in EditorType, NEW b \in BOOLEAN
      PROVE  [r EXCEPT !.stale = b] \in EditorType
  BY <1>2 DEF EditorType
<1>3. (editor[e].stale \/ (editor[e].device = d)) \in BOOLEAN
  OBVIOUS
<1>4. QED
  BY <1>1, <1>2, <1>3

\* The row of d is changed or removed: what was read of it is stale from now on.
LEMMA OutdatedKeeps ==
  ASSUME DirectoryInv, NEW d \in Devices, NEW s \in Sites \cup {NoSite},
         siteOf' = [siteOf EXCEPT ![d] = s], UNCHANGED positions,
         measured' \subseteq OutdatedRows(d),
         editor' \in [Editors -> EditorType],
         \A e \in Editors :
           \/ editor'[e] = IdleEditor
           \/ editor'[e] = [editor[e] EXCEPT !.stale = @ \/ (editor[e].device = d)]
  PROVE  DirectoryInv'
<1>1. ASSUME NEW m \in measured'
      PROVE  /\ m \in [device : Devices, site : Sites, stale : BOOLEAN]
             /\ m.stale \/ siteOf'[m.device] = m.site
  <2>1. PICK old \in measured : m = [old EXCEPT !.stale = @ \/ old.device = d]
    BY <1>1 DEF OutdatedRows
  <2>2. /\ old \in [device : Devices, site : Sites, stale : BOOLEAN]
        /\ old.stale \/ siteOf[old.device] = old.site
    BY DEF DirectoryInv, DirectoryTypes, HistoryKeepsItsSite
  <2>3. /\ m.device = old.device /\ m.site = old.site /\ m.device \in Devices
        /\ old.stale \/ old.device = d => m.stale
    BY <2>1, <2>2
  <2>4. m \in [device : Devices, site : Sites, stale : BOOLEAN]
    BY <2>1, <2>2
  <2>5. QED
    BY <2>2, <2>3, <2>4 DEF DirectoryInv, DirectoryTypes
<1>2. ASSUME NEW e \in Editors, editor'[e].pc # "idle"
      PROVE  /\ editor'[e].pc = editor[e].pc /\ editor'[e].device = editor[e].device
             /\ editor'[e].site = editor[e].site /\ editor'[e].version = editor[e].version
             /\ editor[e].stale \/ editor[e].device = d => editor'[e].stale
  BY <1>2, IdleEditorTyped DEF DirectoryInv, DirectoryTypes, EditorType
<1>3. siteOf' \in [Devices -> Sites \cup {NoSite}]
  BY DEF DirectoryInv, DirectoryTypes
<1>4. DirectoryTypes'
  BY <1>1, <1>2, <1>3 DEF DirectoryInv, DirectoryTypes
<1>5. HistoryKeepsItsSite'
  BY <1>1 DEF HistoryKeepsItsSite
<1>6. SiteIsKnown'
  BY <1>2 DEF DirectoryInv, DirectoryTypes, SiteIsKnown
<1>7. NumbersInv'
  BY <1>2, NumbersStay
<1>8. QED
  BY <1>4, <1>5, <1>6, <1>7 DEF DirectoryInv

\* Nothing was measured where a device is registered: rows of that name are
\* of an earlier one.
LEMMA CreateKeeps ==
  ASSUME DirectoryInv, NEW d \in Devices, NEW s \in Sites, create_device(d, s)
  PROVE  DirectoryInv'
<1>1. /\ siteOf[d] = NoSite /\ siteOf' = [siteOf EXCEPT ![d] = s]
      /\ UNCHANGED <<measured, positions, editor>>
  BY DEF create_device
<1>2. \A x \in Devices : siteOf'[x] = IF x = d THEN s ELSE siteOf[x]
  BY <1>1 DEF DirectoryInv, DirectoryTypes
<1>3. DirectoryTypes'
  BY <1>1 DEF DirectoryInv, DirectoryTypes
<1>4. HistoryKeepsItsSite' /\ SiteIsKnown'
  BY <1>1, <1>2, DirectoryAssumption
     DEF DirectoryInv, DirectoryTypes, HistoryKeepsItsSite, SiteIsKnown
<1>5. NumbersInv'
  BY <1>1, NumbersStay
<1>6. QED
  BY <1>3, <1>4, <1>5 DEF DirectoryInv

LEMMA UpdateKeeps ==
  ASSUME DirectoryInv, NEW d \in Devices, NEW s \in Sites, update_device(d, s)
  PROVE  DirectoryInv'
<1>1. /\ siteOf' = [siteOf EXCEPT ![d] = s] /\ UNCHANGED <<measured, positions>>
      /\ \A m \in measured : m.device # d
      /\ editor' = [e \in Editors |->
                      [editor[e] EXCEPT !.stale = @ \/ (editor[e].device = d)]]
  BY DEF update_device, Moves, Outdates, HasHistory
<1>2. editor' \in [Editors -> EditorType]
  BY <1>1, OutdatedTyped
<1>3. measured' \subseteq OutdatedRows(d)
  <2>1. ASSUME NEW m \in measured
        PROVE  m = [m EXCEPT !.stale = @ \/ m.device = d]
    <3>1. m \in [device : Devices, site : Sites, stale : BOOLEAN] /\ m.device # d
      BY <1>1 DEF DirectoryInv, DirectoryTypes
    <3>2. QED
      BY <3>1
  <2>2. QED
    BY <1>1, <2>1 DEF OutdatedRows
<1>4. QED
  BY <1>1, <1>2, <1>3, OutdatedKeeps

LEMMA DeleteKeeps ==
  ASSUME DirectoryInv, NEW e \in Editors, Deletes(e)
  PROVE  DirectoryInv'
<1> DEFINE d == editor[e].device
<1>1. CASE Ends(e) /\ UNCHANGED <<siteOf, measured>>
  BY <1>1, EditorEnds DEF Deletes
<1>2. CASE ~(Ends(e) /\ UNCHANGED <<siteOf, measured>>)
  <2>1. /\ siteOf' = [siteOf EXCEPT ![d] = NoSite] /\ UNCHANGED positions
        /\ measured' \subseteq OutdatedRows(d)
        /\ editor' = [o \in Editors |->
             IF o = e THEN IdleEditor
             ELSE [editor[o] EXCEPT !.stale = @ \/ (editor[o].device = d)]]
    BY <1>2 DEF Deletes
  <2>2. editor' \in [Editors -> EditorType]
    BY <2>1, IdleEditorTyped, OutdatedTyped
  <2>3. d \in Devices
    BY DEF Deletes, DirectoryInv, DirectoryTypes
  <2>4. QED
    BY <2>1, <2>2, <2>3, OutdatedKeeps
<1>3. QED
  BY <1>1, <1>2


LEMMA RequestsKeep ==
  ASSUME DirectoryInv, NEW e \in Editors, NEW d \in Devices,
         \/ ReadsSite(e, d) \/ AuditsDelete(e) \/ WritesMeasurement(e)
         \/ \E s \in Sites : AskSubmit(e, d, s)
         \/ \E force, purge \in BOOLEAN : AskDelete(e, d, force, purge)
  PROVE  DirectoryInv'
<1>1. CASE ReadsSite(e, d)
  <2>1. siteOf[d] \in Sites
    BY <1>1 DEF ReadsSite, DirectoryInv, DirectoryTypes
  <2>2. QED
    BY <1>1, <2>1, EditorStarts DEF ReadsSite
<1>2. ASSUME NEW s \in Sites, AskSubmit(e, d, s)
      PROVE  DirectoryInv'
  BY <1>2, EditorStarts DEF AskSubmit
<1>3. ASSUME NEW force \in BOOLEAN, NEW purge \in BOOLEAN, AskDelete(e, d, force, purge)
      PROVE  DirectoryInv'
  <2> DEFINE new == [IdleEditor EXCEPT !.pc = "audit", !.device = d, !.purge = purge]
  <2>1. new \in EditorType /\ new.pc = "audit" /\ new.device = d
    BY IdleEditorTyped DEF EditorType
  <2>2. editor' = [editor EXCEPT ![e] = new] /\ UNCHANGED <<siteOf, measured, positions>>
    BY <1>3 DEF AskDelete
  <2> HIDE DEF new
  <2>3. QED
    BY <2>1, <2>2, EditorMoves
<1>4. CASE AuditsDelete(e) /\ siteOf[editor[e].device] # NoSite
  <2> DEFINE new == [editor[e] EXCEPT !.pc = "delete"]
  <2>1. new \in EditorType /\ new.pc = "delete" /\ new.device = editor[e].device
    BY DEF DirectoryInv, DirectoryTypes, EditorType
  <2>2. /\ editor' = [editor EXCEPT ![e] = new] /\ UNCHANGED <<siteOf, measured, positions>>
        /\ editor[e].device \in Devices
    BY <1>4 DEF AuditsDelete, DirectoryInv, DirectoryTypes
  <2> HIDE DEF new
  <2>3. QED
    BY <2>1, <2>2, EditorMoves
<1>5. CASE AuditsDelete(e) /\ siteOf[editor[e].device] = NoSite
  BY <1>5, EditorEnds DEF AuditsDelete
<1>6. CASE WritesMeasurement(e)
  <2> DEFINE new == [device |-> editor[e].device, site |-> editor[e].site,
                     stale |-> editor[e].stale]
  <2>1. /\ measured' = measured \cup {new} /\ Ends(e) /\ UNCHANGED <<siteOf, positions>>
        /\ editor[e].pc = "write"
    BY <1>6 DEF WritesMeasurement
  <2>2. /\ new \in [device : Devices, site : Sites, stale : BOOLEAN]
        /\ new.stale \/ siteOf[new.device] = new.site
    BY <2>1 DEF DirectoryInv, DirectoryTypes, EditorType, SiteIsKnown
  <2> HIDE DEF new
  <2>3. /\ editor' \in [Editors -> EditorType] /\ editor'[e] = IdleEditor
        /\ \A o \in Editors \ {e} : editor'[o] = editor[o]
    BY <2>1, IdleEditorTyped DEF Ends, DirectoryInv, DirectoryTypes
  <2>4. DirectoryTypes' /\ HistoryKeepsItsSite' /\ SiteIsKnown'
    BY <2>1, <2>2, <2>3, IdleEditorTyped
       DEF DirectoryInv, DirectoryTypes, HistoryKeepsItsSite, SiteIsKnown
  <2>5. NumbersInv'
    BY <2>1, <2>3, IdleEditorTyped, NumbersStay
  <2>6. QED
    BY <2>4, <2>5 DEF DirectoryInv
<1>7. QED
  BY <1>1, <1>2, <1>3, <1>4, <1>5, <1>6

\* The lock: whoever takes the number is alone with it, and no position of
\* that base is stored before its own.
LEMMA NumbersKeeps ==
  ASSUME DirectoryInv, NEW e \in Editors, Numbers(e)
  PROVE  DirectoryInv'
<1> DEFINE d == editor[e].device
           s == editor[e].site
           new == [editor[e] EXCEPT !.pc = "insert", !.version = NextVersion(d, s)]
<1>1. /\ editor' = [editor EXCEPT ![e] = new]
      /\ UNCHANGED <<siteOf, measured, positions>> /\ editor[e].pc = "lock"
      /\ \A o \in Editors : editor[o].pc = "insert"
           => <<editor[o].device, editor[o].site>> # <<d, s>>
  BY DEF Numbers
<1>2. d \in Devices /\ s \in Sites
  BY <1>1 DEF DirectoryInv, DirectoryTypes
<1>3. PICK n \in Nat : Submitted(d, s) = UpTo(d, s, n)
  BY <1>2 DEF DirectoryInv, NumbersInv
<1>4. NextVersion(d, s) = n + 1
  BY <1>3, NextVersionFollows
<1>5. new \in EditorType /\ new.pc = "insert" /\ new.device = d /\ new.site = s
      /\ new.version = n + 1
  <2>1. editor[e] \in EditorType /\ n + 1 \in Nat
    BY DEF DirectoryInv, DirectoryTypes
  <2>2. new = [editor[e] EXCEPT !.pc = "insert", !.version = n + 1]
    BY <1>4
  <2> HIDE DEF new, d, s
  <2>3. /\ new \in EditorType /\ new.pc = "insert" /\ new.version = n + 1
        /\ new.device = editor[e].device /\ new.site = editor[e].site
    BY <2>1, <2>2 DEF EditorType
  <2>4. QED
    BY <2>3 DEF d, s
<1> HIDE DEF new
<1>6. /\ editor' \in [Editors -> EditorType] /\ editor'[e] = new
      /\ \A o \in Editors \ {e} : editor'[o] = editor[o]
  BY <1>1, <1>5 DEF DirectoryInv, DirectoryTypes
<1>7. DirectoryTypes' /\ HistoryKeepsItsSite' /\ SiteIsKnown'
  BY <1>1, <1>2, <1>5, <1>6 DEF DirectoryInv, DirectoryTypes, HistoryKeepsItsSite, SiteIsKnown
<1>8. NumbersInv'
  <2>1. \A x, y : Submitted(x, y)' = Submitted(x, y)
    BY <1>1 DEF Submitted
  <2>2. \A x \in Devices, y \in Sites : \E k \in Nat : Submitted(x, y)' = UpTo(x, y, k)
    BY <2>1 DEF DirectoryInv, NumbersInv
  <2>3. ASSUME NEW o \in Editors, NEW q \in Editors,
               editor'[o].pc = "insert", editor'[q].pc = "insert",
               editor'[o].device = editor'[q].device, editor'[o].site = editor'[q].site
        PROVE  o = q
    BY <1>1, <1>5, <1>6, <2>3 DEF DirectoryInv, NumbersInv
  <2>4. ASSUME NEW o \in Editors, editor'[o].pc = "insert"
        PROVE  \E k \in Nat : /\ editor'[o].version = k + 1
                              /\ Submitted(editor'[o].device, editor'[o].site)
                                   = UpTo(editor'[o].device, editor'[o].site, k)
    <3>1. CASE o = e
      BY <1>3, <1>5, <1>6, <3>1
    <3>2. CASE o # e
      BY <1>6, <2>4, <3>2 DEF DirectoryInv, NumbersInv
    <3>3. QED
      BY <3>1, <3>2
  <2>5. \A o \in Editors :
          Submitted(editor[o].device, editor[o].site)'
            = Submitted(editor'[o].device, editor'[o].site)
    BY <1>1 DEF Submitted
  <2>6. QED
    BY <2>2, <2>3, <2>4, <2>5 DEF NumbersInv, UpTo
<1>9. QED
  BY <1>7, <1>8 DEF DirectoryInv

\* What an accepted submission adds: the next position, and no other.
LEMMA InsertAdds ==
  ASSUME DirectoryInv, NEW e \in Editors, Inserts(e),
         siteOf[editor[e].device] = editor[e].site
  PROVE  \E n \in Nat :
           /\ editor[e].version = n + 1
           /\ Submitted(editor[e].device, editor[e].site)
                = UpTo(editor[e].device, editor[e].site, n)
           /\ positions' = positions \cup {<<editor[e].device, editor[e].site, n + 1>>}
           /\ <<editor[e].device, editor[e].site, n + 1>> \notin positions
<1> DEFINE d == editor[e].device
           s == editor[e].site
<1>1. PICK n \in Nat : editor[e].version = n + 1 /\ Submitted(d, s) = UpTo(d, s, n)
  BY DEF Inserts, DirectoryInv, NumbersInv
<1>2. positions' = positions \cup {<<d, s, n + 1>>}
  BY <1>1 DEF Inserts
<1>3. <<d, s, n + 1>> \notin positions
  <2> SUFFICES ASSUME <<d, s, n + 1>> \in positions PROVE FALSE
    OBVIOUS
  <2>1. <<d, s, n + 1>> \in Submitted(d, s)
    BY DEF Submitted
  <2>2. \A p \in UpTo(d, s, n) : p # <<d, s, n + 1>>
    BY DEF UpTo
  <2>3. QED
    BY <1>1, <2>1, <2>2
<1>4. QED
  BY <1>1, <1>2, <1>3


LEMMA InsertsKeeps ==
  ASSUME DirectoryInv, NEW e \in Editors, Inserts(e)
  PROVE  DirectoryInv'
<1>1. CASE UNCHANGED positions
  BY <1>1, EditorEnds DEF Inserts
<1>2. CASE siteOf[editor[e].device] = editor[e].site
  <2>0. PICK d, s : d = editor[e].device /\ s = editor[e].site
    OBVIOUS
  <2>1. PICK n \in Nat : /\ editor[e].version = n + 1 /\ Submitted(d, s) = UpTo(d, s, n)
                         /\ positions' = positions \cup {<<d, s, n + 1>>}
    BY <1>2, <2>0, InsertAdds
  <2>2. d \in Devices /\ s \in Sites /\ editor[e].pc = "insert"
    BY <2>0 DEF Inserts, DirectoryInv, DirectoryTypes
  <2>3. /\ editor' \in [Editors -> EditorType] /\ editor'[e] = IdleEditor
        /\ \A o \in Editors \ {e} : editor'[o] = editor[o]
        /\ UNCHANGED <<siteOf, measured>>
    BY IdleEditorTyped DEF Inserts, Ends, DirectoryInv, DirectoryTypes
  <2>4. DirectoryTypes' /\ HistoryKeepsItsSite' /\ SiteIsKnown'
    BY <2>1, <2>2, <2>3, IdleEditorTyped
       DEF DirectoryInv, DirectoryTypes, HistoryKeepsItsSite, SiteIsKnown
  <2>5. Submitted(d, s)' = UpTo(d, s, n + 1)
    <3>1. Submitted(d, s)' = Submitted(d, s) \cup {<<d, s, n + 1>>}
      BY <2>1 DEF Submitted
    <3>2. UpTo(d, s, n) \cup {<<d, s, n + 1>>} = UpTo(d, s, n + 1)
      BY DEF UpTo
    <3>3. QED
      BY <2>1, <3>1, <3>2
  <2>6. \A x, y : <<x, y>> # <<d, s>> => Submitted(x, y)' = Submitted(x, y)
    BY <2>1 DEF Submitted
  <2>7. \A x \in Devices, y \in Sites : \E k \in Nat : Submitted(x, y)' = UpTo(x, y, k)
    <3>1. ASSUME NEW x \in Devices, NEW y \in Sites
          PROVE  \E k \in Nat : Submitted(x, y)' = UpTo(x, y, k)
      <4>1. CASE <<x, y>> = <<d, s>>
        BY <2>5, <4>1
      <4>2. CASE <<x, y>> # <<d, s>>
        BY <2>6, <4>2 DEF DirectoryInv, NumbersInv
      <4>3. QED
        BY <4>1, <4>2
    <3>2. QED
      BY <3>1
  <2>8. ASSUME NEW o \in Editors, editor'[o].pc = "insert"
        PROVE  /\ o # e /\ editor'[o] = editor[o]
               /\ \E k \in Nat : /\ editor'[o].version = k + 1
                                 /\ Submitted(editor[o].device, editor[o].site)'
                                      = UpTo(editor[o].device, editor[o].site, k)
    <3>1. o # e /\ editor'[o] = editor[o]
      BY <2>3, <2>8, IdleEditorTyped
    <3>2. <<editor[o].device, editor[o].site>> # <<d, s>>
      BY <2>0, <2>2, <2>8, <3>1 DEF DirectoryInv, NumbersInv
    <3>3. /\ editor[o].pc = "insert"
          /\ Submitted(editor[o].device, editor[o].site)'
               = Submitted(editor[o].device, editor[o].site)
      BY <2>6, <2>8, <3>1, <3>2
    <3>4. QED
      BY <3>1, <3>3 DEF DirectoryInv, NumbersInv
  <2>9. \A o, q \in Editors :
          /\ editor'[o].pc = "insert" /\ editor'[q].pc = "insert"
          /\ editor'[o].device = editor'[q].device /\ editor'[o].site = editor'[q].site
          => o = q
    BY <2>8 DEF DirectoryInv, NumbersInv
  <2>10. NumbersInv'
    <3>1. ASSUME NEW o \in Editors, editor'[o].pc = "insert"
          PROVE  \E k \in Nat : /\ editor'[o].version = k + 1
                                /\ Submitted(editor[o].device, editor[o].site)'
                                     = UpTo(editor'[o].device, editor'[o].site, k)
      BY <2>8, <3>1
    <3>2. ASSUME NEW o \in Editors, editor'[o].pc = "insert"
          PROVE  {p \in positions' : p[1] = editor'[o].device /\ p[2] = editor'[o].site}
                   = Submitted(editor[o].device, editor[o].site)'
      BY <2>8, <3>2 DEF Submitted
    <3>3. \A x, y : Submitted(x, y)' = {p \in positions' : p[1] = x /\ p[2] = y}
      BY DEF Submitted
    <3>4. QED
      BY <2>7, <2>9, <3>1, <3>2, <3>3 DEF NumbersInv, UpTo
  <2>11. QED
    BY <2>4, <2>10 DEF DirectoryInv
<1>3. QED
  BY <1>1, <1>2 DEF Inserts


LEMMA DirectoryStays ==
  ASSUME DirectoryInv, UNCHANGED <<siteOf, measured, positions, editor>>
  PROVE  DirectoryInv'
<1>1. DirectoryTypes' /\ HistoryKeepsItsSite' /\ SiteIsKnown'
  BY DEF DirectoryInv, DirectoryTypes, HistoryKeepsItsSite, SiteIsKnown
<1>2. NumbersInv'
  BY NumbersStay
<1>3. QED
  BY <1>1, <1>2 DEF DirectoryInv

LEMMA DirectoryContinues ==
  ASSUME DirectoryInv, [DirectoryNext]_directoryVars
  PROVE  DirectoryInv'
<1>1. ASSUME NEW s \in Sites, create_site(s) \/ delete_site(s)
      PROVE  DirectoryInv'
  BY <1>1, DirectoryStays DEF create_site, delete_site
<1>2. ASSUME NEW d \in Devices, NEW s \in Sites, create_device(d, s) \/ update_device(d, s)
      PROVE  DirectoryInv'
  BY <1>2, CreateKeeps, UpdateKeeps
<1>3. ASSUME NEW e \in Editors,
             \/ AuditsDelete(e) \/ Deletes(e) \/ WritesMeasurement(e)
             \/ Numbers(e) \/ Inserts(e)
      PROVE  DirectoryInv'
  <2>1. AuditsDelete(e) \/ WritesMeasurement(e) => editor[e].device \in Devices
    BY DEF AuditsDelete, WritesMeasurement, DirectoryInv, DirectoryTypes
  <2>2. QED
    BY <1>3, <2>1, DeleteKeeps, NumbersKeeps, InsertsKeeps, RequestsKeep
<1>4. ASSUME NEW e \in Editors, NEW d \in Devices,
             \/ ReadsSite(e, d)
             \/ \E s \in Sites : AskSubmit(e, d, s)
             \/ \E force, purge \in BOOLEAN : AskDelete(e, d, force, purge)
      PROVE  DirectoryInv'
  BY <1>4, RequestsKeep
<1>5. CASE UNCHANGED directoryVars
  BY <1>5, DirectoryStays DEF directoryVars
<1>6. QED
  BY <1>1, <1>2, <1>3, <1>4, <1>5 DEF DirectoryNext

\* A device stays where its measurements were taken, whatever order moves,
\* deletions and the ingestion of files come in: a measurement of another
\* site than the device's says that the row has changed since it was read.
THEOREM HistoryStays == DirectorySpec => []HistoryKeepsItsSite
<1>1. DirectoryInv /\ [DirectoryNext]_directoryVars => DirectoryInv'
  BY DirectoryContinues
<1>2. DirectoryInv => HistoryKeepsItsSite
  BY DEF DirectoryInv
<1>3. QED
  BY <1>1, <1>2, DirectoryStarts, PTL DEF DirectorySpec

\* Of the steps of a request, only its own INSERT ends it once it has a
\* number.
LEMMA OnlyInsertsEnd ==
  ASSUME DirectoryInv, DirectoryNext, NEW e \in Editors,
         editor[e].pc = "insert", editor'[e].pc = "idle"
  PROVE  Inserts(e)
<1>1. editor[e] \in EditorType /\ editor \in [Editors -> EditorType]
  BY DEF DirectoryInv, DirectoryTypes
<1>2. ASSUME NEW s \in Sites, NEW d \in Devices, create_device(d, s)
      PROVE  FALSE
  BY <1>2 DEF create_device
<1>3. ASSUME NEW s \in Sites, create_site(s) \/ delete_site(s)
      PROVE  FALSE
  BY <1>3 DEF create_site, delete_site
<1>4. ASSUME NEW d \in Devices
      PROVE  [editor[e] EXCEPT !.stale = @ \/ (editor[e].device = d)].pc = "insert"
  BY <1>1 DEF EditorType
<1>5. ASSUME NEW d \in Devices, NEW s \in Sites, update_device(d, s)
      PROVE  FALSE
  BY <1>4, <1>5 DEF update_device, Moves, Outdates
<1>6. ASSUME NEW o \in Editors,
             \/ AuditsDelete(o) \/ WritesMeasurement(o) \/ Numbers(o)
             \/ \E d \in Devices : \/ ReadsSite(o, d)
                                   \/ \E s \in Sites : AskSubmit(o, d, s)
                                   \/ \E f, p \in BOOLEAN : AskDelete(o, d, f, p)
      PROVE  FALSE
  <2>1. o # e
    BY <1>6 DEF AuditsDelete, WritesMeasurement, Numbers, ReadsSite, AskSubmit, Starts, AskDelete
  <2>2. editor'[e] = editor[e]
    BY <1>1, <1>6, <2>1 DEF AuditsDelete, WritesMeasurement, Numbers, ReadsSite, AskSubmit,
                            Starts, Ends, AskDelete
  <2>3. QED
    BY <2>2
<1>7. ASSUME NEW o \in Editors, Deletes(o)
      PROVE  FALSE
  <2>1. o # e
    BY <1>7 DEF Deletes
  <2>2. editor[o].device \in Devices
    BY <1>7 DEF Deletes, DirectoryInv, DirectoryTypes
  <2>3. CASE Ends(o)
    BY <1>1, <2>1, <2>3 DEF Ends
  <2>4. CASE ~Ends(o)
    <3>1. editor'[e] = [editor[e] EXCEPT !.stale = @ \/ (editor[e].device = editor[o].device)]
      BY <1>7, <2>1, <2>4 DEF Deletes
    <3>2. QED
      BY <1>4, <2>2, <3>1
  <2>5. QED
    BY <2>3, <2>4
<1>8. ASSUME NEW o \in Editors, Inserts(o), o # e
      PROVE  FALSE
  BY <1>1, <1>8 DEF Inserts, Ends
<1>9. QED
  BY <1>2, <1>3, <1>5, <1>6, <1>7, <1>8 DEF DirectoryNext

\* Of several submissions for one base at once each gets the next number, and
\* none is refused for a number already taken: what the lock is for.
THEOREM NumbersAreOwn == DirectorySpec => SubmissionsGetNumbers
<1> DEFINE Numbered == \A e \in Editors :
       editor[e].pc = "insert" /\ editor'[e].pc = "idle"
         /\ siteOf[editor[e].device] = editor[e].site
           => /\ Cardinality(Submitted(editor[e].device, editor[e].site)) + 1
                   = editor[e].version
              /\ positions' # positions
<1>1. DirectoryInv /\ [DirectoryNext]_directoryVars => [Numbered]_directoryVars
  <2> SUFFICES ASSUME DirectoryInv, DirectoryNext, NEW e \in Editors,
                      editor[e].pc = "insert", editor'[e].pc = "idle",
                      siteOf[editor[e].device] = editor[e].site
               PROVE  /\ Cardinality(Submitted(editor[e].device, editor[e].site)) + 1
                           = editor[e].version
                      /\ positions' # positions
    OBVIOUS
  <2>1. PICK n \in Nat :
           /\ editor[e].version = n + 1
           /\ Submitted(editor[e].device, editor[e].site)
                = UpTo(editor[e].device, editor[e].site, n)
           /\ positions' = positions \cup {<<editor[e].device, editor[e].site, n + 1>>}
           /\ <<editor[e].device, editor[e].site, n + 1>> \notin positions
    BY OnlyInsertsEnd, InsertAdds
  <2>2. QED
    BY <2>1, UpToCounts
<1>2. DirectoryInv /\ [DirectoryNext]_directoryVars => DirectoryInv'
  BY DirectoryContinues
<1>3. QED
  BY <1>1, <1>2, DirectoryStarts, PTL DEF DirectorySpec, SubmissionsGetNumbers

-----------------------------------------------------------------------------
(* Replies to the devices (ConfigReply)                                    *)

SettingsRow == [Keys -> 0 .. writes]
CalibrationRow == [Columns -> 0 .. writes]

PollType ==
  [pc : {"idle", "expire", "own", "station", "battery", "replied"},
   device : Fleet, late : SUBSET lapsed, own : SettingsRow, station : SettingsRow,
   cal : [Fleet -> CalibrationRow]]

ReplyTypes ==
  /\ writes \in Nat /\ armed \subseteq 1 .. writes /\ lapsed \subseteq armed
  /\ settings \in [Fleet -> SettingsRow]
  /\ calibration \in [Fleet -> CalibrationRow]
  /\ poll \in [Polls -> PollType]

\* What a row holds, other than defaults, has been queued for its device.
QueuedFor(d, kept) ==
  \A k \in DOMAIN kept : kept[k] # 0 => [device |-> d, key |-> k, value |-> kept[k]] \in queue

\* A trigger in force came with its TimeOutTrigger.
OneCommand(kept) ==
  kept["TriggerStart"] \in armed => kept["TimeOutTrigger"] = kept["TriggerStart"]

Written(d, kept) == QueuedFor(d, kept) /\ OneCommand(kept)

RowsInv == \A d \in Fleet : Written(d, settings[d]) /\ QueuedFor(d, calibration[d])

\* What a request has read so far: once the station's trigger was looked at,
\* neither its row nor what is read of it holds one that was over before.
PollHolds(p) ==
  LET s == Station(p.device) IN
    /\ p.pc \in {"own", "station"} => settings[s]["TriggerStart"] \notin p.late
    /\ p.pc = "station" => s # p.device
    /\ p.pc \in {"station", "battery", "replied"} => Written(p.device, p.own)
    /\ p.pc \in {"battery", "replied"} =>
         /\ Written(s, p.station) /\ p.station["TriggerStart"] \notin p.late
         /\ s = p.device => p.own = p.station
    /\ p.pc = "replied" => \A d \in Fleet : QueuedFor(d, p.cal[d])

ReplyInv == ReplyTypes /\ RowsInv /\ \A q \in Polls : PollHolds(poll[q])

\* A set of numbers has a least one.
LEMMA LeastExists ==
  ASSUME NEW S, S \subseteq Nat, S # {}
  PROVE  \E i \in S : \A j \in S : i <= j
<1>1. PICK R : IsWellFoundedOn(R, Nat) /\ \A i, j \in Nat : j < i => <<j, i>> \in R
  BY NatLessThanWellFounded DEF OpToRel
<1>2. PICK i \in S : \A j \in S : ~(<<j, i>> \in R)
  BY <1>1, WFMin
<1>3. ASSUME NEW j \in S
      PROVE  i <= j
  <2>1. i \in Nat /\ j \in Nat /\ ~(<<j, i>> \in R)
    BY <1>2
  <2>2. ~(j < i)
    BY <1>1, <2>1
  <2>3. QED
    BY <2>1, <2>2
<1>4. QED
  BY <1>3

LEMMA StationIsThere ==
  ASSUME NEW d \in Fleet
  PROVE  Station(d) \in Fleet
<1>1. StationsOf(d) \subseteq DOMAIN FleetOrder /\ DOMAIN FleetOrder \subseteq Nat
  BY FleetAssumption DEF StationsOf
<1>2. CASE StationsOf(d) # {}
  <2>1. PICK i \in StationsOf(d) : \A j \in StationsOf(d) : i <= j
    BY <1>1, <1>2, LeastExists
  <2>2. (CHOOSE k \in StationsOf(d) : \A j \in StationsOf(d) : k <= j) \in DOMAIN FleetOrder
    BY <1>1, <2>1
  <2>3. (\E k \in StationsOf(d) : FleetOrder[k] = "BASE-01") => "BASE-01" \in Fleet
    BY <1>1 DEF Fleet
  <2>4. QED
    BY <1>2, <2>2, <2>3 DEF Station, Fleet
<1>3. QED
  BY <1>2 DEF Station

LEMMA IdlePollTyped == IdlePoll.pc = "idle" /\ IdlePoll.device \in Fleet
<1>1. FleetOrder[1] \in Fleet
  BY FleetAssumption DEF Fleet
<1>2. QED
  BY <1>1 DEF IdlePoll

LEMMA RepliesStart == ReplyInit => ReplyInv
<1> SUFFICES ASSUME ReplyInit PROVE ReplyInv
  OBVIOUS
<1>1. FleetOrder[1] \in Fleet
  BY FleetAssumption DEF Fleet
<1>2. NoSettings \in SettingsRow /\ NoCalibration \in CalibrationRow
  BY DEF ReplyInit, NoSettings, NoCalibration, SettingsRow, CalibrationRow
<1>3. IdlePoll \in PollType
  BY <1>1, <1>2 DEF ReplyInit, IdlePoll, PollType
<1>4. ReplyTypes
  BY <1>2, <1>3 DEF ReplyInit, ReplyTypes
<1>5. RowsInv
  BY <1>2 DEF ReplyInit, RowsInv, Written, QueuedFor, OneCommand, NoSettings, NoCalibration, Columns
<1>6. \A q \in Polls : PollHolds(poll[q])
  BY IdlePollTyped DEF ReplyInit, PollHolds
<1>7. QED
  BY <1>4, <1>5, <1>6 DEF ReplyInv

\* What a write leaves of the rows and of what was read: values are written
\* once, in the order of their numbers, and nothing leaves the queue.
Grows ==
  /\ writes' \in {writes, writes + 1} /\ queue \subseteq queue'
  /\ armed \subseteq armed' /\ armed' \subseteq armed \cup {writes + 1}
  /\ armed' \subseteq 1 .. writes'
  /\ lapsed \subseteq lapsed' /\ lapsed' \subseteq armed'

LEMMA RowsGrow ==
  ASSUME ReplyInv, Grows
  PROVE  /\ \A kept \in SettingsRow : kept \in [Keys -> 0 .. writes']
         /\ \A kept \in CalibrationRow : kept \in [Columns -> 0 .. writes']
<1>1. \A n \in 0 .. writes : n \in 0 .. writes'
  BY DEF ReplyInv, ReplyTypes, Grows
<1>2. QED
  BY <1>1 DEF SettingsRow, CalibrationRow

LEMMA WrittenStays ==
  ASSUME ReplyInv, Grows, NEW d, NEW kept \in SettingsRow, Written(d, kept)
  PROVE  Written(d, kept)'
<1>1. QueuedFor(d, kept)'
  BY DEF Written, QueuedFor, Grows
<1>2. kept["TriggerStart"] \in 0 .. writes
  BY DEF SettingsRow, Keys, GlobalKeys
<1>3. kept["TriggerStart"] \in armed' => kept["TriggerStart"] \in armed
  BY <1>2 DEF Grows, ReplyInv, ReplyTypes
<1>4. OneCommand(kept)'
  BY <1>3 DEF Written, OneCommand
<1>5. QED
  BY <1>1, <1>4 DEF Written

\* What a request has read holds while others write.
LEMMA PollStays ==
  ASSUME ReplyInv, Grows, NEW p \in PollType, PollHolds(p),
         \A d \in Fleet : \/ settings'[d]["TriggerStart"] = settings[d]["TriggerStart"]
                          \/ settings'[d]["TriggerStart"] \notin 1 .. writes
  PROVE  p \in PollType' /\ PollHolds(p)'
<1>1. /\ p.device \in Fleet /\ p.late \subseteq lapsed /\ p.late \subseteq 1 .. writes
      /\ p.own \in SettingsRow /\ p.station \in SettingsRow
      /\ p.cal \in [Fleet -> CalibrationRow]
  BY DEF PollType, ReplyInv, ReplyTypes
<1>2. /\ p.own \in [Keys -> 0 .. writes'] /\ p.station \in [Keys -> 0 .. writes']
      /\ p.cal \in [Fleet -> [Columns -> 0 .. writes']]
  BY <1>1, RowsGrow
<1>3. p \in PollType'
  BY <1>1, <1>2 DEF PollType, SettingsRow, CalibrationRow, Grows
<1>4. Station(p.device) \in Fleet
  BY <1>1, StationIsThere
<1>5. \A d, kept : QueuedFor(d, kept) => QueuedFor(d, kept)'
  BY DEF QueuedFor, Grows
<1>6. /\ Written(p.device, p.own) => Written(p.device, p.own)'
      /\ Written(Station(p.device), p.station) => Written(Station(p.device), p.station)'
  BY <1>1, WrittenStays
<1>7. settings[Station(p.device)]["TriggerStart"] \notin p.late
        => settings'[Station(p.device)]["TriggerStart"] \notin p.late
  BY <1>1, <1>4
<1>8. PollHolds(p)'
  BY <1>5, <1>6, <1>7 DEF PollHolds
<1>9. QED
  BY <1>3, <1>8

\* A write of some keys of one device, a trigger or none.
LEMMA PutsKeep ==
  ASSUME ReplyInv, NEW d \in Fleet, NEW keys \in SUBSET Keys, Puts(d, keys),
         "TimeOutTrigger" \in keys => "TriggerStart" \in keys,
         UNCHANGED <<calibration, lapsed>>,
         armed' = armed \/ (armed' = armed \cup {writes'} /\ GlobalKeys \subseteq keys)
  PROVE  /\ Grows /\ RowsInv'
         /\ settings' \in [Fleet -> [Keys -> 0 .. writes']]
         /\ calibration' \in [Fleet -> [Columns -> 0 .. writes']]
         /\ \A x \in Fleet : \/ settings'[x]["TriggerStart"] = settings[x]["TriggerStart"]
                             \/ settings'[x]["TriggerStart"] \notin 1 .. writes
<1>1. /\ writes \in Nat /\ armed \subseteq 1 .. writes /\ lapsed \subseteq armed
      /\ settings \in [Fleet -> SettingsRow] /\ calibration \in [Fleet -> CalibrationRow]
  BY DEF ReplyInv, ReplyTypes
<1>2. PICK old \in SettingsRow : old = settings[d] /\ Written(d, old)
  BY <1>1 DEF ReplyInv, RowsInv
<1>3. PICK new : new = [k \in Keys |-> IF k \in keys THEN writes + 1 ELSE old[k]]
  OBVIOUS
<1>4. /\ writes' = writes + 1 /\ settings' = [settings EXCEPT ![d] = new]
      /\ queue' = queue \cup {[device |-> d, key |-> k, value |-> writes + 1] : k \in keys}
  BY <1>2, <1>3 DEF Puts
<1>5. Grows
  <2>1. \A n \in 1 .. writes : n \in 1 .. writes + 1
    BY <1>1
  <2>2. writes + 1 \in 1 .. writes + 1
    BY <1>1
  <2>3. /\ armed \subseteq armed' /\ armed' \subseteq armed \cup {writes + 1}
        /\ lapsed' = lapsed /\ lapsed \subseteq armed
    BY <1>1, <1>4
  <2>4. armed' \subseteq 1 .. writes + 1
    BY <1>1, <2>1, <2>2, <2>3
  <2>5. QED
    BY <1>4, <2>3, <2>4 DEF Grows
<1>6. old \in [Keys -> 0 .. writes] /\ new \in [Keys -> 0 .. writes']
  BY <1>1, <1>3, <1>4, <1>2 DEF SettingsRow
<1>7. /\ settings' \in [Fleet -> [Keys -> 0 .. writes']]
      /\ calibration' \in [Fleet -> [Columns -> 0 .. writes']]
  BY <1>1, <1>4, <1>5, <1>6, RowsGrow
<1>8. QueuedFor(d, new)'
  <2>1. ASSUME NEW k \in Keys, new[k] # 0
        PROVE  [device |-> d, key |-> k, value |-> new[k]] \in queue'
    <3>1. CASE k \in keys
      BY <1>3, <1>4, <3>1
    <3>2. CASE k \notin keys
      BY <1>2, <1>3, <1>4, <1>6, <2>1, <3>2 DEF Written, QueuedFor
    <3>3. QED
      BY <3>1, <3>2
  <2>2. QED
    BY <1>6, <2>1 DEF QueuedFor
<1>9. OneCommand(new)'
  <2>1. "TriggerStart" \in Keys /\ "TimeOutTrigger" \in Keys /\ GlobalKeys = {"TriggerStart", "TimeOutTrigger"}
    BY DEF Keys, GlobalKeys
  <2>2. CASE "TriggerStart" \in keys
    BY <1>1, <1>3, <1>4, <2>1, <2>2 DEF OneCommand
  <2>3. CASE "TriggerStart" \notin keys
    <3>1. /\ new["TriggerStart"] = old["TriggerStart"] /\ armed' = armed
          /\ new["TimeOutTrigger"] = old["TimeOutTrigger"]
      BY <1>3, <2>1, <2>3
    <3>2. QED
      BY <1>2, <3>1 DEF Written, OneCommand
  <2>4. QED
    BY <2>2, <2>3
<1>10. RowsInv'
  <2>1. \A d1, kept : QueuedFor(d1, kept) => QueuedFor(d1, kept)'
    BY <1>5 DEF QueuedFor, Grows
  <2>2. ASSUME NEW x \in Fleet
        PROVE  \E kept, cal : /\ kept = settings'[x] /\ Written(x, kept)'
                              /\ cal = calibration'[x] /\ QueuedFor(x, cal)'
    <3>1. \E cal : cal = calibration'[x] /\ QueuedFor(x, cal)'
      BY <2>1 DEF ReplyInv, RowsInv
    <3>2. CASE x = d
      BY <1>1, <1>4, <1>8, <1>9, <3>1, <3>2 DEF Written
    <3>3. CASE x # d
      <4>1. PICK kept \in SettingsRow : kept = settings[x] /\ Written(x, kept)
        BY <1>1 DEF ReplyInv, RowsInv
      <4>2. kept = settings'[x]
        BY <1>1, <1>4, <3>3, <4>1
      <4>3. QED
        BY <1>5, <3>1, <4>1, <4>2, WrittenStays
    <3>4. QED
      BY <3>2, <3>3
  <2>3. QED
    BY <2>2 DEF RowsInv
<1>11. \A x \in Fleet : \/ settings'[x]["TriggerStart"] = settings[x]["TriggerStart"]
                        \/ settings'[x]["TriggerStart"] \notin 1 .. writes
  <2>1. \A x \in Fleet : settings'[x] = IF x = d THEN new ELSE settings[x]
    BY <1>1, <1>4
  <2>2. "TriggerStart" \in Keys
    BY DEF Keys, GlobalKeys
  <2>3. new["TriggerStart"] = writes + 1 \/ new["TriggerStart"] = settings[d]["TriggerStart"]
    BY <1>2, <1>3, <2>2
  <2>4. writes + 1 \notin 1 .. writes
    BY <1>1
  <2>5. QED
    BY <2>1, <2>3, <2>4
<1>12. QED
  BY <1>5, <1>7, <1>10, <1>11

LEMMA ReplyGrows ==
  ASSUME ReplyInv, Grows, RowsInv',
         settings' \in [Fleet -> [Keys -> 0 .. writes']],
         calibration' \in [Fleet -> [Columns -> 0 .. writes']],
         \A x \in Fleet : \/ settings'[x]["TriggerStart"] = settings[x]["TriggerStart"]
                          \/ settings'[x]["TriggerStart"] \notin 1 .. writes,
         poll' = [q \in Polls |-> poll'[q]],
         \A q \in Polls : \E p : /\ p = poll'[q]
                                 /\ p = poll[q] \/ (p \in PollType' /\ PollHolds(p)')
  PROVE  ReplyInv'
<1>1. ASSUME NEW q \in Polls
      PROVE  \E p : p = poll'[q] /\ p \in PollType' /\ PollHolds(p)'
  <2>1. PICK p : p = poll'[q] /\ (p = poll[q] \/ (p \in PollType' /\ PollHolds(p)'))
    OBVIOUS
  <2>2. CASE p = poll[q]
    <3>1. p \in PollType /\ PollHolds(p)
      BY <2>2 DEF ReplyInv, ReplyTypes
    <3>2. p \in PollType' /\ PollHolds(p)'
      BY <3>1, PollStays
    <3>3. QED
      BY <2>1, <3>2
  <2>3. QED
    BY <2>1, <2>2
<1>2. poll' \in [Polls -> PollType']
  BY <1>1
<1>3. \A q \in Polls : PollHolds(poll[q])'
  <2>1. ASSUME NEW q \in Polls
        PROVE  PollHolds(poll[q])'
    <3>1. PICK p : p = poll'[q] /\ PollHolds(p)'
      BY <1>1
    <3>2. QED
      BY <3>1 DEF PollHolds
  <2>2. QED
    BY <2>1
<1>4. ReplyTypes'
  BY <1>2 DEF ReplyTypes, ReplyInv, Grows, SettingsRow, CalibrationRow
<1>5. QED
  BY <1>3, <1>4 DEF ReplyInv

LEMMA PollsKept ==
  ASSUME ReplyInv, UNCHANGED poll
  PROVE  /\ poll' = [q \in Polls |-> poll'[q]]
         /\ \A q \in Polls : \E p : p = poll'[q] /\ p = poll[q]
BY DEF ReplyInv, ReplyTypes

LEMMA CommandsKeep ==
  ASSUME ReplyInv, NEW d \in Fleet,
         push_device_config(d) \/ trigger_blast(d) \/ reset_blast(d) \/ Reconciles(d)
  PROVE  ReplyInv'
<1>1. Keys \ GlobalKeys \in SUBSET Keys /\ GlobalKeys \in SUBSET Keys
      /\ {"TriggerStart"} \in SUBSET Keys
  BY DEF Keys, GlobalKeys
<1>2. \E keys \in SUBSET Keys :
        /\ Puts(d, keys)
        /\ "TimeOutTrigger" \in keys => "TriggerStart" \in keys
        /\ armed' = armed \/ (armed' = armed \cup {writes'} /\ GlobalKeys \subseteq keys)
  <2>1. CASE push_device_config(d)
    BY <1>1, <2>1 DEF push_device_config, GlobalKeys
  <2>2. CASE trigger_blast(d)
    BY <1>1, <2>2 DEF trigger_blast, GlobalKeys
  <2>3. CASE reset_blast(d)
    BY <1>1, <2>3 DEF reset_blast
  <2>4. CASE Reconciles(d)
    BY <1>1, <2>4 DEF Reconciles, expire_one_on_conn
  <2>5. QED
    BY <2>1, <2>2, <2>3, <2>4
<1>3. UNCHANGED <<calibration, lapsed, poll>>
  BY DEF push_device_config, trigger_blast, reset_blast, Reconciles
<1>4. QED
  BY <1>2, <1>3, PutsKeep, PollsKept, ReplyGrows

LEMMA BatteryKeeps ==
  ASSUME ReplyInv, NEW d \in Fleet, NEW column \in Columns, _write_battery_value(d, column)
  PROVE  ReplyInv'
<1>1. PICK old \in CalibrationRow : old = calibration[d] /\ QueuedFor(d, old)
  BY DEF ReplyInv, ReplyTypes, RowsInv
<1>2. PICK new : new = [old EXCEPT ![column] = writes + 1]
  OBVIOUS
<1>3. /\ writes' = writes + 1 /\ calibration' = [calibration EXCEPT ![d] = new]
      /\ queue' = queue \cup {[device |-> d, key |-> column, value |-> writes + 1]}
      /\ UNCHANGED <<settings, armed, lapsed, poll>>
  BY <1>1, <1>2 DEF _write_battery_value
<1>4. /\ writes \in Nat /\ armed \subseteq 1 .. writes /\ lapsed \subseteq armed
      /\ settings \in [Fleet -> SettingsRow] /\ calibration \in [Fleet -> CalibrationRow]
  BY DEF ReplyInv, ReplyTypes
<1>5. Grows
  BY <1>3, <1>4 DEF Grows
<1>6. old \in [Columns -> 0 .. writes] /\ new \in [Columns -> 0 .. writes']
  BY <1>1, <1>2, <1>3, <1>4 DEF CalibrationRow
<1>7. /\ settings' \in [Fleet -> [Keys -> 0 .. writes']]
      /\ calibration' \in [Fleet -> [Columns -> 0 .. writes']]
  BY <1>3, <1>4, <1>5, <1>6, RowsGrow
<1>8. \A x, kept : QueuedFor(x, kept) => QueuedFor(x, kept)'
  BY <1>5 DEF QueuedFor, Grows
<1>9. QueuedFor(d, new)'
  BY <1>1, <1>2, <1>3, <1>6 DEF QueuedFor
<1>10. ASSUME NEW x \in Fleet
       PROVE  \E kept, cal : /\ kept = settings'[x] /\ Written(x, kept)'
                             /\ cal = calibration'[x] /\ QueuedFor(x, cal)'
  <2>1. PICK kept \in SettingsRow : kept = settings[x] /\ Written(x, kept)
    BY <1>4 DEF ReplyInv, RowsInv
  <2>2. kept = settings'[x] /\ Written(x, kept)'
    BY <1>3, <1>5, <2>1, WrittenStays
  <2>3. \E cal : cal = calibration'[x] /\ QueuedFor(x, cal)'
    <3>1. CASE x = d
      BY <1>3, <1>4, <1>9, <3>1
    <3>2. CASE x # d
      BY <1>3, <1>4, <1>8, <3>2 DEF ReplyInv, RowsInv
    <3>3. QED
      BY <3>1, <3>2
  <2>4. QED
    BY <2>2, <2>3
<1>11. RowsInv'
  BY <1>10 DEF RowsInv
<1>12. QED
  BY <1>3, <1>5, <1>7, <1>11, PollsKept, ReplyGrows

LEMMA LapseKeeps ==
  ASSUME ReplyInv, NEW n \in armed, Lapses(n)
  PROVE  ReplyInv'
<1>1. lapsed' = lapsed \cup {n} /\ UNCHANGED <<settings, calibration, queue, armed, writes, poll>>
  BY DEF Lapses
<1>2. /\ writes \in Nat /\ armed \subseteq 1 .. writes /\ lapsed \subseteq armed
      /\ settings \in [Fleet -> SettingsRow] /\ calibration \in [Fleet -> CalibrationRow]
  BY DEF ReplyInv, ReplyTypes
<1>3. Grows
  BY <1>1, <1>2 DEF Grows
<1>4. RowsInv'
  BY <1>1 DEF ReplyInv, RowsInv, Written, QueuedFor, OneCommand
<1>5. /\ settings' \in [Fleet -> [Keys -> 0 .. writes']]
      /\ calibration' \in [Fleet -> [Columns -> 0 .. writes']]
  BY <1>1, <1>2 DEF SettingsRow, CalibrationRow
<1>6. QED
  BY <1>1, <1>3, <1>4, <1>5, PollsKept, ReplyGrows

\* The request looks at its station's trigger: none that was over when it came
\* is in force after that.
LEMMA ExpiryKeeps ==
  ASSUME ReplyInv, NEW q \in Polls, ExpiresOnRead(q)
  PROVE  ReplyInv'
<1>1. PICK p, s : p = poll[q] /\ s = Station(p.device)
  OBVIOUS
<1>2. PICK new : new = [p EXCEPT !.pc = "own"]
  OBVIOUS
<1>3. /\ p \in PollType /\ p.late \subseteq lapsed /\ lapsed \subseteq armed
      /\ armed \subseteq 1 .. writes /\ writes \in Nat /\ settings \in [Fleet -> SettingsRow]
      /\ calibration \in [Fleet -> CalibrationRow] /\ poll \in [Polls -> PollType]
  BY <1>1 DEF ReplyInv, ReplyTypes, PollType
<1>4. s \in Fleet
  BY <1>1, <1>3, StationIsThere DEF PollType
<1>5. /\ expire_one_on_conn(s) /\ poll' = [poll EXCEPT ![q] = new]
      /\ UNCHANGED <<calibration, armed, lapsed>> /\ p.pc = "expire"
  BY <1>1, <1>2 DEF ExpiresOnRead
<1>6. /\ Grows /\ RowsInv'
      /\ settings' \in [Fleet -> [Keys -> 0 .. writes']]
      /\ calibration' \in [Fleet -> [Columns -> 0 .. writes']]
      /\ \A x \in Fleet : \/ settings'[x]["TriggerStart"] = settings[x]["TriggerStart"]
                          \/ settings'[x]["TriggerStart"] \notin 1 .. writes
  <2>1. CASE Overrun(s)
    <3>1. {"TriggerStart"} \in SUBSET Keys /\ Puts(s, {"TriggerStart"})
      BY <1>5, <2>1 DEF expire_one_on_conn, Keys, GlobalKeys
    <3>2. QED
      BY <1>4, <1>5, <3>1, PutsKeep
  <2>2. CASE ~Overrun(s)
    <3>1. UNCHANGED <<settings, queue, writes, calibration, armed, lapsed>>
      BY <1>5, <2>2 DEF expire_one_on_conn
    <3>2. RowsInv'
      BY <3>1 DEF ReplyInv, RowsInv, Written, QueuedFor, OneCommand
    <3>3. QED
      BY <1>3, <3>1, <3>2 DEF Grows, SettingsRow, CalibrationRow
  <2>3. QED
    BY <2>1, <2>2
<1>7. settings'[s]["TriggerStart"] \notin p.late
  <2>1. CASE Overrun(s)
    <3>1. settings'[s]["TriggerStart"] = writes + 1
      BY <1>3, <1>4, <1>5, <2>1 DEF expire_one_on_conn, Puts, Keys, GlobalKeys
    <3>2. QED
      BY <1>3, <3>1
  <2>2. CASE ~Overrun(s)
    BY <1>3, <1>5, <2>2 DEF expire_one_on_conn, Overrun
  <2>3. QED
    BY <2>1, <2>2
<1>8. /\ new \in PollType /\ new.pc = "own" /\ new.device = p.device /\ new.late = p.late
  BY <1>2, <1>3 DEF PollType
<1>9. new \in PollType'
  BY <1>6, <1>8, RowsGrow DEF PollType, SettingsRow, CalibrationRow, Grows
<1>10. PollHolds(new)'
  BY <1>1, <1>7, <1>8 DEF PollHolds
<1>11. /\ poll' = [r \in Polls |-> poll'[r]] /\ poll'[q] = new
       /\ \A r \in Polls \ {q} : poll'[r] = poll[r]
  BY <1>3, <1>5
<1>12. \A r \in Polls : \E o : /\ o = poll'[r]
                               /\ o = poll[r] \/ (o \in PollType' /\ PollHolds(o)')
  BY <1>9, <1>10, <1>11
<1>13. QED
  BY <1>6, <1>11, <1>12, ReplyGrows

\* A read of the request itself.
LEMMA ReadKeeps ==
  ASSUME ReplyInv, NEW q \in Polls, NEW new \in PollType, PollHolds(new),
         poll' = [poll EXCEPT ![q] = new],
         UNCHANGED <<settings, calibration, queue, armed, lapsed, writes>>
  PROVE  ReplyInv'
<1>1. PollType' = PollType /\ poll \in [Polls -> PollType]
  BY DEF PollType, SettingsRow, CalibrationRow, ReplyInv, ReplyTypes
<1>2. poll' \in [Polls -> PollType'] /\ \A r \in Polls : PollHolds(poll'[r])
  BY <1>1 DEF ReplyInv
<1>3. \A r \in Polls : PollHolds(poll[r])'
  <2>1. ASSUME NEW r \in Polls
        PROVE  PollHolds(poll[r])'
    BY <1>2 DEF PollHolds, Written, QueuedFor, OneCommand
  <2>2. QED
    BY <2>1
<1>4. ReplyTypes' /\ RowsInv'
  BY <1>1, <1>2 DEF ReplyInv, ReplyTypes, RowsInv, Written, QueuedFor, OneCommand,
                    SettingsRow, CalibrationRow
<1>5. QED
  BY <1>3, <1>4 DEF ReplyInv

LEMMA AsksKeeps ==
  ASSUME ReplyInv, NEW q \in Polls, NEW d \in Fleet, Asks(q, d)
  PROVE  ReplyInv'
<1>1. PICK new : new = [IdlePoll EXCEPT !.pc = "expire", !.device = d, !.late = lapsed]
  OBVIOUS
<1>2. NoSettings \in SettingsRow /\ NoCalibration \in CalibrationRow
  BY DEF ReplyInv, ReplyTypes, NoSettings, NoCalibration, SettingsRow, CalibrationRow
<1>3. new \in PollType /\ new.pc = "expire"
  BY <1>1, <1>2 DEF IdlePoll, PollType
<1>4. /\ poll' = [poll EXCEPT ![q] = new]
      /\ UNCHANGED <<settings, calibration, queue, armed, lapsed, writes>>
  BY <1>1 DEF Asks
<1>5. PollHolds(new)
  BY <1>3 DEF PollHolds
<1>6. QED
  BY <1>3, <1>4, <1>5, ReadKeeps

LEMMA OwnKeeps ==
  ASSUME ReplyInv, NEW q \in Polls, ReadsOwn(q)
  PROVE  ReplyInv'
<1>1. PICK p, s : p = poll[q] /\ s = Station(p.device)
  OBVIOUS
<1>2. p \in PollType /\ PollHolds(p) /\ p.pc = "own" /\ p.device \in Fleet
  BY <1>1 DEF ReplyInv, ReplyTypes, ReadsOwn, PollType
<1>3. PICK kept \in SettingsRow : kept = settings[p.device] /\ Written(p.device, kept)
  BY <1>2 DEF ReplyInv, ReplyTypes, RowsInv
<1>4. PICK new : new = [p EXCEPT !.own = kept, !.station = kept,
                                 !.pc = IF s = p.device THEN "battery" ELSE "station"]
  OBVIOUS
<1>5. /\ new \in PollType /\ new.device = p.device /\ new.late = p.late
      /\ new.own = kept /\ new.station = kept
      /\ new.pc = IF s = p.device THEN "battery" ELSE "station"
  BY <1>2, <1>3, <1>4 DEF PollType
<1>6. /\ poll' = [poll EXCEPT ![q] = new]
      /\ UNCHANGED <<settings, calibration, queue, armed, lapsed, writes>>
  BY <1>1, <1>3, <1>4 DEF ReadsOwn
<1>7. PollHolds(new)
  BY <1>1, <1>2, <1>3, <1>5 DEF PollHolds
<1>8. QED
  BY <1>5, <1>6, <1>7, ReadKeeps

LEMMA StationKeeps ==
  ASSUME ReplyInv, NEW q \in Polls, ReadsStation(q)
  PROVE  ReplyInv'
<1>1. PICK p, s : p = poll[q] /\ s = Station(p.device)
  OBVIOUS
<1>2. p \in PollType /\ PollHolds(p) /\ p.pc = "station" /\ s \in Fleet
  BY <1>1, StationIsThere DEF ReplyInv, ReplyTypes, ReadsStation, PollType
<1>3. PICK kept \in SettingsRow : kept = settings[s] /\ Written(s, kept)
  BY <1>2 DEF ReplyInv, ReplyTypes, RowsInv
<1>4. PICK new : new = [p EXCEPT !.station = kept, !.pc = "battery"]
  OBVIOUS
<1>5. /\ new \in PollType /\ new.device = p.device /\ new.late = p.late
      /\ new.own = p.own /\ new.station = kept /\ new.pc = "battery"
  BY <1>2, <1>3, <1>4 DEF PollType
<1>6. /\ poll' = [poll EXCEPT ![q] = new]
      /\ UNCHANGED <<settings, calibration, queue, armed, lapsed, writes>>
  BY <1>1, <1>3, <1>4 DEF ReadsStation
<1>7. PollHolds(new)
  BY <1>1, <1>2, <1>3, <1>5 DEF PollHolds
<1>8. QED
  BY <1>5, <1>6, <1>7, ReadKeeps

LEMMA CalibrationKeeps ==
  ASSUME ReplyInv, NEW q \in Polls, ReadsBattery(q)
  PROVE  ReplyInv'
<1>1. PICK p : p = poll[q]
  OBVIOUS
<1>2. p \in PollType /\ PollHolds(p) /\ p.pc = "battery"
  BY <1>1 DEF ReplyInv, ReplyTypes, ReadsBattery
<1>3. PICK cal : cal = [d \in Fleet |-> IF d \in Calibrated /\ FleetSite[d] = FleetSite[p.device]
                                          THEN calibration[d] ELSE NoCalibration]
  OBVIOUS
<1>4. NoCalibration \in CalibrationRow /\ \A d : QueuedFor(d, NoCalibration)
  BY DEF ReplyInv, ReplyTypes, NoCalibration, CalibrationRow, QueuedFor
<1>5. cal \in [Fleet -> CalibrationRow] /\ \A d \in Fleet : QueuedFor(d, cal[d])
  BY <1>3, <1>4 DEF ReplyInv, ReplyTypes, RowsInv
<1>6. PICK new : new = [p EXCEPT !.pc = "replied", !.cal = cal]
  OBVIOUS
<1>7. /\ new \in PollType /\ new.device = p.device /\ new.late = p.late
      /\ new.own = p.own /\ new.station = p.station /\ new.cal = cal /\ new.pc = "replied"
  BY <1>2, <1>5, <1>6 DEF PollType
<1>8. /\ poll' = [poll EXCEPT ![q] = new]
      /\ UNCHANGED <<settings, calibration, queue, armed, lapsed, writes>>
  BY <1>1, <1>3, <1>6 DEF ReadsBattery
<1>9. PollHolds(new)
  BY <1>2, <1>5, <1>7 DEF PollHolds
<1>10. QED
  BY <1>7, <1>8, <1>9, ReadKeeps

LEMMA RepliesContinue ==
  ASSUME ReplyInv, [ReplyNext]_replyVars
  PROVE  ReplyInv'
<1>1. CASE UNCHANGED replyVars
  <2>1. PollType' = PollType
    BY <1>1 DEF replyVars, PollType, SettingsRow, CalibrationRow
  <2>2. ReplyTypes' /\ RowsInv'
    BY <1>1, <2>1 DEF replyVars, ReplyInv, ReplyTypes, RowsInv, Written, QueuedFor, OneCommand,
                      SettingsRow, CalibrationRow
  <2>3. \A q \in Polls : PollHolds(poll[q])'
    BY <1>1 DEF replyVars, ReplyInv, PollHolds, Written, QueuedFor, OneCommand
  <2>4. QED
    BY <2>2, <2>3 DEF ReplyInv
<1>2. CASE ReplyNext
  BY <1>2, CommandsKeep, BatteryKeeps, LapseKeeps, AsksKeeps, ExpiryKeeps, OwnKeeps,
     StationKeeps, CalibrationKeeps DEF ReplyNext
<1>3. QED
  BY <1>1, <1>2

\* A reply with TriggerStart = 1 carries the live command of the device's
\* station, with its own TimeOutTrigger, and nothing but defaults and values
\* queued for the device or its station, for any fleet and any number of
\* requests, whatever is written between their reads.
THEOREM RepliesHold == ReplySpec => []RepliesAreCurrent
<1>1. ReplyInv => RepliesAreCurrent
  <2> SUFFICES ASSUME ReplyInv, NEW q \in Polls, poll[q].pc = "replied"
               PROVE  ServesLiveTrigger(q) /\ ServesQueuedValues(q)
    BY DEF RepliesAreCurrent
  <2>1. PICK p, s : p = poll[q] /\ s = Station(p.device)
    OBVIOUS
  <2>2. /\ p \in PollType /\ p.device \in Fleet /\ s \in Fleet
        /\ p.own \in SettingsRow /\ p.station \in SettingsRow
        /\ p.cal \in [Fleet -> CalibrationRow]
    BY <2>1, StationIsThere DEF ReplyInv, ReplyTypes, PollType
  <2>3. /\ Written(p.device, p.own) /\ Written(s, p.station)
        /\ p.station["TriggerStart"] \notin p.late
        /\ s = p.device => p.own = p.station
        /\ \A d \in Fleet : QueuedFor(d, p.cal[d])
    BY <2>1 DEF ReplyInv, PollHolds
  <2>4. \A k \in GlobalKeys : Served(q, k) = p.station[k]
    BY <2>1, <2>3 DEF Served
  <2>5. ServesLiveTrigger(q)
    BY <2>1, <2>3, <2>4 DEF ServesLiveTrigger, Written, OneCommand, GlobalKeys
  <2>6. ASSUME NEW k \in Keys, Served(q, k) # 0
        PROVE  \E entry \in queue : /\ entry.key = k /\ entry.value = Served(q, k)
                                    /\ \/ entry.device = s
                                       \/ entry.device = p.device /\ k \notin GlobalKeys
    <3>1. DOMAIN p.own = Keys /\ DOMAIN p.station = Keys
      BY <2>2 DEF SettingsRow
    <3>2. CASE Served(q, k) = p.station[k]
      <4>1. [device |-> s, key |-> k, value |-> p.station[k]] \in queue
        BY <2>3, <2>6, <3>1, <3>2 DEF Written, QueuedFor
      <4>2. QED
        BY <3>2, <4>1
    <3>3. CASE k \notin GlobalKeys /\ Served(q, k) = p.own[k]
      <4>1. [device |-> p.device, key |-> k, value |-> p.own[k]] \in queue
        BY <2>3, <2>6, <3>1, <3>3 DEF Written, QueuedFor
      <4>2. QED
        BY <3>3, <4>1
    <3>4. QED
      BY <2>1, <2>4, <3>2, <3>3 DEF Served
  <2>7. \A d \in Fleet, c \in Columns : p.cal[d][c] # 0 =>
          [device |-> d, key |-> c, value |-> p.cal[d][c]] \in queue
    BY <2>2, <2>3 DEF QueuedFor, CalibrationRow
  <2>8. QED
    BY <2>1, <2>5, <2>6, <2>7 DEF ServesQueuedValues
<1>2. ReplyInv /\ [ReplyNext]_replyVars => ReplyInv'
  BY RepliesContinue
<1>3. QED
  BY <1>1, <1>2, RepliesStart, PTL DEF ReplySpec
=============================================================================
