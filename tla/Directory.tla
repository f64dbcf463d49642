----------------------------- MODULE Directory -----------------------------
(***************************************************************************)
(* Sites, devices, the positions submitted for base stations and the site  *)
(* that measurements carry: sites.py, devices_and_audit.py and             *)
(* base_references.py under apps/api/routers/v1, services/device_service/  *)
(* device_repository.py and services/site_service/site_repository.py, with *)
(* the triggers and foreign keys of data/db/migrations 003, 011, 021, 028. *)
(*                                                                         *)
(* A request is a row of statements, between which other requests and the  *)
(* ingestion of files run.  The last statement of a transaction and its    *)
(* commit are one step: what it changes is locked in between.              *)
(***************************************************************************)
EXTENDS Naturals, FiniteSets

CONSTANTS
  Sites,
  Devices,
  Bases,         \* devices whose type or name says BASE
  NoSite,        \* where a device without a row is
  Editors,       \* requests in flight at once
  MaxVersions    \* bound on the positions submitted for one base

ASSUME DirectoryAssumption ==
  /\ NoSite \notin Sites /\ Bases \subseteq Devices /\ MaxVersions \in Nat

VARIABLES
  sites,       \* rows of sites
  siteOf,      \* devices.site_id, NoSite: no row
  uploaded,    \* devices that a row of file_uploads or of the samples names
  measured,    \* rows of measurements: the device, its site, and whether that
               \* site was read before the device moved or was deleted
  positions,   \* base_reference_versions: <<device, site, version_no>>
  editor       \* the requests

directoryVars == <<sites, siteOf, uploaded, measured, positions, editor>>

\* stale is no state of the program: the device's row has changed meanwhile.
IdleEditor == [pc |-> "idle", device |-> NoSite, site |-> NoSite,
               purge |-> FALSE, version |-> 0, stale |-> FALSE]

DirectoryInit ==
  /\ sites = {} /\ siteOf = [d \in Devices |-> NoSite] /\ uploaded = {}
  /\ measured = {} /\ positions = {}
  /\ editor = [e \in Editors |-> IdleEditor]

HasHistory(d) == \E m \in measured : m.device = d
Submitted(d, s) == {p \in positions : p[1] = d /\ p[2] = s}

Starts(e, pc, d, s) ==
  /\ editor[e].pc = "idle"
  /\ editor' = [editor EXCEPT ![e] = [IdleEditor EXCEPT !.pc = pc, !.device = d, !.site = s]]
Ends(e) == editor' = [editor EXCEPT ![e] = IdleEditor]

\* The row of d changes: whoever read it works on, and so do its measurements.
Outdates(d) ==
  editor' = [e \in Editors |-> [editor[e] EXCEPT !.stale = @ \/ (editor[e].device = d)]]
OutdatedRows(d) == {[m EXCEPT !.stale = @ \/ m.device = d] : m \in measured}

-----------------------------------------------------------------------------
(* Sites.  The warning of a site nearby is a matter of coordinates: force. *)

create_site(s) ==
  /\ s \notin sites
  /\ sites' = sites \cup {s}
  /\ UNCHANGED <<siteOf, uploaded, measured, positions, editor>>

\* Refused while a device or a position refers to the site: by the count
\* before the transaction or by the foreign key in it, with its audit row.
delete_site(s) ==
  /\ s \in sites
  /\ \A d \in Devices : siteOf[d] # s /\ Submitted(d, s) = {}
  /\ sites' = sites \ {s}
  /\ UNCHANGED <<siteOf, uploaded, measured, positions, editor>>

-----------------------------------------------------------------------------
(* Devices *)

create_device(d, s) ==
  /\ siteOf[d] = NoSite /\ s \in sites
  /\ siteOf' = [siteOf EXCEPT ![d] = s]
  /\ UNCHANGED <<sites, uploaded, measured, positions, editor>>

Moves(d, s) ==
  /\ siteOf' = [siteOf EXCEPT ![d] = s]
  /\ Outdates(d)
  /\ UNCHANGED <<sites, uploaded, measured, positions>>

\* Mutant: the trigger lets a device with measurements move.
update_device_always(d, s) ==
  /\ siteOf[d] # NoSite /\ s \in sites \ {siteOf[d]}
  /\ Submitted(d, siteOf[d]) = {}
  /\ Moves(d, s)

\* prevent_device_site_id_change: a device with measurements stays; so does,
\* by the foreign key on device and site, a base with positions.
update_device(d, s) ==
  /\ siteOf[d] # NoSite /\ s \in sites \ {siteOf[d]}
  /\ ~HasHistory(d) /\ Submitted(d, siteOf[d]) = {}
  /\ Moves(d, s)

\* delete_device asks for force where there is history; then its transaction.
AskDelete(e, d, force, purge) ==
  /\ HasHistory(d) => force
  /\ editor[e].pc = "idle"
  /\ editor' = [editor EXCEPT ![e] = [IdleEditor EXCEPT
       !.pc = "audit", !.device = d, !.purge = purge]]
  /\ UNCHANGED <<sites, siteOf, uploaded, measured, positions>>

\* The audit row comes first: its trigger wants the device there.
AuditsDelete(e) ==
  /\ editor[e].pc = "audit"
  /\ IF siteOf[editor[e].device] = NoSite THEN Ends(e)
     ELSE editor' = [editor EXCEPT ![e].pc = "delete"]
  /\ UNCHANGED <<sites, siteOf, uploaded, measured, positions>>

\* A row that names the device undoes the whole transaction.  Measurements
\* have no foreign key: they stay, unless purged, for a device of that name.
Deletes(e) ==
  LET me == editor[e]
      d == me.device
      held == d \in uploaded \/ (\E s \in Sites : Submitted(d, s) # {})
  IN
    /\ me.pc = "delete"
    /\ IF held THEN Ends(e) /\ UNCHANGED <<siteOf, measured>>
       ELSE /\ siteOf' = [siteOf EXCEPT ![d] = NoSite]
            /\ measured' = {m \in OutdatedRows(d) : ~(me.purge /\ m.device = d)}
            /\ editor' = [o \in Editors |->
                 IF o = e THEN IdleEditor
                 ELSE [editor[o] EXCEPT !.stale = @ \/ (editor[o].device = d)]]
    /\ UNCHANGED <<sites, uploaded, positions>>

-----------------------------------------------------------------------------
(* Ingestion of a file: it reads the site of the device, computes, writes. *)

ReadsSite(e, d) ==
  /\ siteOf[d] # NoSite
  /\ Starts(e, "write", d, siteOf[d])
  /\ UNCHANGED <<sites, siteOf, uploaded, measured, positions>>

\* The file names its uploader: a base's file holds rows of its rovers too,
\* so that a device may have measurements and no row that refers to it.
WritesMeasurement(e) ==
  LET me == editor[e] IN
    /\ me.pc = "write"
    /\ measured' = measured \cup {[device |-> me.device, site |-> me.site, stale |-> me.stale]}
    /\ uploaded' \in {uploaded, uploaded \cup {me.device}}
    /\ uploaded' = uploaded \/ siteOf[me.device] # NoSite
    /\ Ends(e)
    /\ UNCHANGED <<sites, siteOf, positions>>

-----------------------------------------------------------------------------
(* submit_version *)

\* The base must be at that site, which is checked before the lock.
AskSubmit(e, d, s) ==
  /\ d \in Bases /\ siteOf[d] = s /\ Cardinality(Submitted(d, s)) < MaxVersions
  /\ Starts(e, "lock", d, s)
  /\ UNCHANGED <<sites, siteOf, uploaded, measured, positions>>

NextVersion(d, s) ==
  LET numbers == {p[3] : p \in Submitted(d, s)} \cup {0}
  IN 1 + (CHOOSE n \in numbers : \A k \in numbers : k <= n)

\* Mutant: MAX(version_no) is read without the lock.
NumbersUnlocked(e) ==
  LET me == editor[e] IN
    /\ me.pc = "lock"
    /\ editor' = [editor EXCEPT ![e] = [me EXCEPT
         !.pc = "insert", !.version = NextVersion(me.device, me.site)]]
    /\ UNCHANGED <<sites, siteOf, uploaded, measured, positions>>

\* pg_advisory_xact_lock for this base at this site, then MAX(version_no).
Numbers(e) ==
  LET me == editor[e] IN
    /\ me.pc = "lock"
    /\ \A o \in Editors : editor[o].pc = "insert"
         => <<editor[o].device, editor[o].site>> # <<me.device, me.site>>
    /\ editor' = [editor EXCEPT ![e] = [me EXCEPT
         !.pc = "insert", !.version = NextVersion(me.device, me.site)]]
    /\ UNCHANGED <<sites, siteOf, uploaded, measured, positions>>

\* INSERT and commit: refused when the base is no longer there (the foreign
\* key) or the number is taken (UNIQUE).
Inserts(e) ==
  LET me == editor[e]
      new == <<me.device, me.site, me.version>>
  IN
    /\ me.pc = "insert"
    /\ positions' = IF siteOf[me.device] = me.site THEN positions \cup {new} ELSE positions
    /\ Ends(e)
    /\ UNCHANGED <<sites, siteOf, uploaded, measured>>

DirectoryNext ==
  \/ \E s \in Sites : create_site(s) \/ delete_site(s)
  \/ \E d \in Devices, s \in Sites : create_device(d, s) \/ update_device(d, s)
  \/ \E e \in Editors : \/ AuditsDelete(e) \/ Deletes(e) \/ WritesMeasurement(e)
                        \/ Numbers(e) \/ Inserts(e)
  \/ \E e \in Editors, d \in Devices : ReadsSite(e, d)
  \/ \E e \in Editors, d \in Devices, s \in Sites : AskSubmit(e, d, s)
  \/ \E e \in Editors, d \in Devices, force, purge \in BOOLEAN : AskDelete(e, d, force, purge)

DirectorySpec == DirectoryInit /\ [][DirectoryNext]_directoryVars

-----------------------------------------------------------------------------
(* Properties *)

\* A device stays where its measurements were taken (the trigger of migration
\* 011: a device that moves is registered under another name), unless the
\* site was read for the measurement before the device moved, or the device
\* has since been deleted and is another one of the same name.
HistoryKeepsItsSite ==
  \A m \in measured : m.stale \/ siteOf[m.device] = m.site

\* Submissions for one base at once all get a number of their own, the next
\* one (base_references.py:58): none is refused for a number already taken.
SubmissionsGetNumbers ==
  [][\A e \in Editors :
       LET me == editor[e] IN
         me.pc = "insert" /\ editor'[e].pc = "idle" /\ siteOf[me.device] = me.site
           => /\ Cardinality(Submitted(me.device, me.site)) + 1 = me.version
              /\ positions' # positions]_directoryVars
=============================================================================
