------------------------------ MODULE Accounts ------------------------------
(***************************************************************************)
(* Users, their roles and sessions: apps/api/routers/v1/users.py, the      *)
(* login and refresh of auth.py, services/auth_service/user_service.py and *)
(* the role check of dependencies.py, with the trigger that validates      *)
(* audit rows (data/db/migrations/021).                                    *)
(*                                                                         *)
(* Requests of several administrators interleave at their awaits: the      *)
(* check that an administrator remains, its count and the update are       *)
(* statements of their own.  A session is the claims of a refresh token:   *)
(* its role is the one of the login, whatever becomes of the user.         *)
(***************************************************************************)
EXTENDS Naturals, FiniteSets

CONSTANTS
  Users,
  FirstAdmin,   \* seeded by hand
  Roles,        \* with "admin"; a subset of the three roles
  Requests      \* requests of administrators in flight at once

ASSUME AccountsAssumption ==
  /\ FirstAdmin \in Users /\ "admin" \in Roles
  /\ Roles \subseteq {"viewer", "operator", "admin"}

Absent == "absent"

VARIABLES
  role,      \* users.role, Absent: no row
  disabled,  \* users with disabled_at
  sessions,  \* claims of the unexpired refresh tokens
  request    \* role changes and disables being served

accountsVars == <<role, disabled, sessions, request>>

Session == [sub : Users, role : Roles]

\* raced is no state of the program: another request has changed the users
\* since this one read them first.
Request == [pc : {"idle", "role_get", "role_count", "role_write",
                  "disable_get", "disable_count", "disable_audit"},
            actor : Users, target : Users, role : Roles, raced : BOOLEAN]
IdleRequest == [pc |-> "idle", actor |-> FirstAdmin, target |-> FirstAdmin,
                role |-> "admin", raced |-> FALSE]

AccountsInit ==
  /\ role = [u \in Users |-> IF u = FirstAdmin THEN "admin" ELSE Absent]
  /\ disabled = {} /\ sessions = {}
  /\ request = [r \in Requests |-> IdleRequest]

ActiveAdmins == {u \in Users : role[u] = "admin" /\ u \notin disabled}

\* The trigger refuses an audit row for a user whose target_id holds no "@":
\* user.create and the login entries name the email, the others the user_id.
AuditAccepts(action) == action \notin {"user.update_role", "user.disable", "user.enable"}

-----------------------------------------------------------------------------
\* Claims are copied from the row at login, and by refresh from the token.
Login(u) ==
  /\ role[u] # Absent /\ u \notin disabled
  /\ sessions' = sessions \cup {[sub |-> u, role |-> role[u]]}
  /\ UNCHANGED <<role, disabled, request>>

\* Nobody refreshed it for REFRESH_TOKEN_TTL_DAYS, or it is forgotten.
SessionExpires(s) ==
  /\ sessions' = sessions \ {s}
  /\ UNCHANGED <<role, disabled, request>>

\* The request of a session; the role of its token decides.
require_admin(s) == s.role = "admin"

create_user(s, u, new) ==
  /\ require_admin(s) /\ role[u] = Absent
  /\ role' = [role EXCEPT ![u] = new]
  /\ UNCHANGED <<disabled, sessions, request>>

\* Everyone else in flight now works on what it read before.
Races(done) ==
  [r \in Requests |-> IF r = done THEN IdleRequest
                      ELSE [request[r] EXCEPT !.raced = request[r].pc # "idle"]]

Begin(r, s, u, new, pc) ==
  request' = [request EXCEPT ![r] = [pc |-> pc, actor |-> s.sub, target |-> u,
                                     role |-> new, raced |-> FALSE]]

\* Only a change of one's own role is checked.
AskRole(r, s, u, new) ==
  /\ request[r].pc = "idle" /\ require_admin(s)
  /\ Begin(r, s, u, new, IF u = s.sub /\ new # "admin" THEN "role_get" ELSE "role_write")
  /\ UNCHANGED <<role, disabled, sessions>>

AskDisable(r, s, u) ==
  /\ request[r].pc = "idle" /\ require_admin(s) /\ u # s.sub
  /\ Begin(r, s, u, "admin", "disable_get")
  /\ UNCHANGED <<role, disabled, sessions>>

\* get_by_id: whoever is no administrator needs no count.
ReadsTarget(r) ==
  /\ \/ /\ request[r].pc = "role_get"
        /\ request' = [request EXCEPT ![r].pc =
             IF role[request[r].target] = "admin" THEN "role_count" ELSE "role_write"]
     \/ /\ request[r].pc = "disable_get"
        /\ request' = [request EXCEPT ![r].pc =
             IF role[request[r].target] = "admin" THEN "disable_count" ELSE "disable_audit"]
  /\ UNCHANGED <<role, disabled, sessions>>

\* Mutant: the last administrator counts as another one.
CountsNone(r) ==
  LET pc == request[r].pc IN
    /\ pc \in {"role_count", "disable_count"}
    /\ request' = [request EXCEPT ![r] =
         IF Cardinality(ActiveAdmins) < 1 THEN IdleRequest
         ELSE [@ EXCEPT !.pc = IF pc = "role_count" THEN "role_write" ELSE "disable_audit"]]
    /\ UNCHANGED <<role, disabled, sessions>>

\* count_active_admins: with at most one the request is refused.
CountsAdmins(r) ==
  LET pc == request[r].pc IN
    /\ pc \in {"role_count", "disable_count"}
    /\ request' = [request EXCEPT ![r] =
         IF Cardinality(ActiveAdmins) <= 1 THEN IdleRequest
         ELSE [@ EXCEPT !.pc = IF pc = "role_count" THEN "role_write" ELSE "disable_audit"]]
    /\ UNCHANGED <<role, disabled, sessions>>

\* The role is changed; the audit row after it is refused, which the caller
\* is told as an error, and the change stays.
update_role(r) ==
  LET u == request[r].target IN
    /\ request[r].pc = "role_write"
    /\ role' = IF role[u] = Absent THEN role ELSE [role EXCEPT ![u] = request[r].role]
    /\ request' = Races(r)
    /\ UNCHANGED <<disabled, sessions>>

\* Audit first, then disable: a refused audit row ends the request.
disable_user(r) ==
  LET u == request[r].target IN
    /\ request[r].pc = "disable_audit"
    /\ disabled' = IF AuditAccepts("user.disable") /\ role[u] # Absent
                     THEN disabled \cup {u} ELSE disabled
    /\ request' = IF disabled' = disabled THEN [request EXCEPT ![r] = IdleRequest]
                                          ELSE Races(r)
    /\ UNCHANGED <<role, sessions>>

\* disabled_at is set in the database by hand.
DisabledByHand(u) ==
  /\ role[u] # Absent /\ u \notin disabled /\ ActiveAdmins \ {u} # {}
  /\ disabled' = disabled \cup {u}
  /\ request' = [r \in Requests |-> [request[r] EXCEPT !.raced = request[r].pc # "idle"]]
  /\ UNCHANGED <<role, sessions>>

enable_user(s, u) ==
  /\ require_admin(s) /\ u \in disabled
  /\ disabled' = disabled \ {u}
  /\ UNCHANGED <<role, sessions, request>>

SessionSteps(s) ==
  \/ SessionExpires(s)
  \/ \E u \in Users : enable_user(s, u)
  \/ \E u \in Users, new \in Roles : create_user(s, u, new)
  \/ \E r \in Requests, u \in Users : AskDisable(r, s, u)
  \/ \E r \in Requests, u \in Users, new \in Roles : AskRole(r, s, u, new)

AccountsNext ==
  \/ \E u \in Users : Login(u) \/ DisabledByHand(u)
  \/ \E s \in sessions : SessionSteps(s)
  \/ \E r \in Requests : \/ ReadsTarget(r) \/ CountsAdmins(r)
                         \/ update_role(r) \/ disable_user(r)

AccountsSpec == AccountsInit /\ [][AccountsNext]_accountsVars

-----------------------------------------------------------------------------
(* Properties *)

\* The last active administrator loses that role (users.py:82: "never let the
\* last admin lose the role") only when two requests overlap, so that one
\* counted what the other changed, or when the actor is no administrator any
\* more and only the session still says so.
LockoutNeedsRace ==
  [][ActiveAdmins # {} /\ ActiveAdmins' = {} =>
       \E r \in Requests :
         /\ request[r].pc = "role_write" /\ request'[r].pc = "idle"
         /\ request[r].raced \/ request[r].actor \notin ActiveAdmins]_accountsVars

\* "DELETE = soft-disable" (users.py:4): the DELETE of an existing user whose
\* checks have passed leaves that user disabled.
DisableTakesEffect ==
  [][\A r \in Requests :
       request[r].pc = "disable_audit" /\ request'[r].pc = "idle"
         /\ role[request[r].target] # Absent
       => request[r].target \in disabled']_accountsVars
=============================================================================
