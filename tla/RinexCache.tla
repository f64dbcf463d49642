----------------------------- MODULE RinexCache -----------------------------
(***************************************************************************)
(* The content-addressed navigation cache of the API (services/            *)
(* rinex_service): store_bytes and resolve of cache.py, the resolver, the  *)
(* ordered providers of acquisition.py, and the imports by hand            *)
(* (scripts/cache_srgi_rinex.py, srgi_provider.py).  Uploads acquire in    *)
(* threads of several API workers and imports run beside them, without a   *)
(* lock: a directory per digest, files written under a temporary name and  *)
(* renamed, the manifest last.                                             *)
(*                                                                         *)
(* One observation day is modelled.  A digest stands for its content,      *)
(* which the cache checks on every read.                                   *)
(***************************************************************************)
EXTENDS Naturals, FiniteSets, Sequences

CONSTANTS
  Savers,     \* threads and scripts that store
  Daily,      \* digests of valid navigation of the day
  Unsafe,     \* digests of compressed content the normalizer rejects
  Names,      \* file names
  NoName,     \* no manifest
  Stray,      \* the temporary file of a process that was killed
  Sources,    \* the providers, in the order they are asked
  MaxKills    \* bound on killed processes

Digests == Daily \cup Unsafe

ASSUME CacheAssumption ==
  /\ NoName \notin Names /\ Stray \notin Savers \cup Names
  /\ Savers \cap Names = {} /\ Daily \cap Unsafe = {}
  /\ Daily # {} /\ Names # {}
  /\ Sources \in Seq(STRING) /\ MaxKills \in Nat

VARIABLES
  entry,   \* per digest: the files beside the manifest, the manifest's name
  saver,   \* what each process is doing
  kills    \* killed so far

cacheVars == <<entry, saver, kills>>

\* The temporary file of p is called p.  source 0 is an import by hand.
Entry == [files : SUBSET (Names \cup Savers \cup {Stray}), manifest : Names \cup {NoName}]
Saver == [pc : {"idle", "fetch", "write", "rename", "manifest", "commit", "resolve"},
          source : 0 .. Len(Sources), digest : Digests, name : Names]

Idle == [pc |-> "idle", source |-> 0, digest |-> CHOOSE d \in Digests : TRUE,
         name |-> CHOOSE n \in Names : TRUE]

CacheInit ==
  /\ entry = [d \in Digests |-> [files |-> {}, manifest |-> NoName]]
  /\ saver = [p \in Savers |-> Idle]
  /\ kills = 0

-----------------------------------------------------------------------------
\* _find_existing_artifact: exactly one file beside the manifest.  A file
\* that is being written counts.
Invalid(d) == entry[d].manifest # NoName /\ Cardinality(entry[d].files) # 1
Existing(d) == entry[d].manifest # NoName /\ Cardinality(entry[d].files) = 1

\* The resolver skips entries it cannot read and takes navigation of the day.
Resolvable == \E d \in Daily : Existing(d)

\* After a source that failed, the next one; after the last, give up.
NextSource(p) ==
  saver' = [saver EXCEPT ![p] =
    IF saver[p].source \in 1 .. Len(Sources) - 1
      THEN [saver[p] EXCEPT !.pc = "fetch", !.source = saver[p].source + 1]
      ELSE Idle]

\* ensure: the cache first, then the providers.
Ensure(p) ==
  /\ saver[p].pc = "idle"
  /\ saver' = IF Resolvable THEN saver
              ELSE [saver EXCEPT ![p].pc = "fetch", ![p].source = 1]
  /\ UNCHANGED <<entry, kills>>

\* store_bytes up to its look into the directory.
StoreBytes(p, d, n) ==
  \/ /\ Invalid(d)
     /\ NextSource(p)
  \/ /\ Existing(d)
     /\ saver' = [saver EXCEPT ![p].pc = IF saver[p].source = 0 THEN "idle" ELSE "resolve"]
  \/ /\ entry[d].manifest = NoName
     /\ saver' = [saver EXCEPT ![p] = [@ EXCEPT !.pc = "write", !.digest = d, !.name = n]]

\* fetch of a provider: an error status, a redirect elsewhere, HTML, other
\* content, another day or a transfer beyond the limit fails; content that
\* cannot be decompressed raises an error the acquisition does not catch.
Fetch(p) ==
  /\ saver[p].pc = "fetch"
  /\ \/ \E d \in Daily, n \in Names : StoreBytes(p, d, n)
     \/ NextSource(p)
     \/ saver' = [saver EXCEPT ![p] = Idle]
  /\ UNCHANGED <<entry, kills>>

Import(p) ==
  /\ saver[p].pc = "idle"
  /\ \E d \in Digests, n \in Names : StoreBytes(p, d, n)
  /\ UNCHANGED <<entry, kills>>

\* _atomic_write: a temporary file in the directory, then the rename.
MakesTemp(p, before, after) ==
  /\ saver[p].pc = before
  /\ entry' = [entry EXCEPT ![saver[p].digest].files = @ \cup {p}]
  /\ saver' = [saver EXCEPT ![p].pc = after]
  /\ UNCHANGED kills

WritesArtifact(p) == MakesTemp(p, "write", "rename")
WritesManifest(p) == MakesTemp(p, "manifest", "commit")

\* Mutant: the manifest is written first and the artifact after it.
RenamesManifestFirst(p) ==
  LET d == saver[p].digest IN
    /\ saver[p].pc = "rename"
    /\ entry' = [entry EXCEPT ![d].manifest = saver[p].name]
    /\ saver' = [saver EXCEPT ![p].pc = "manifest"]
    /\ UNCHANGED kills

\* The rename, and the parse after it: an artifact that cannot be
\* decompressed safely is unlinked again.
RenamesArtifact(p) ==
  LET d == saver[p].digest IN
    /\ saver[p].pc = "rename"
    /\ IF d \in Unsafe
         THEN /\ entry' = [entry EXCEPT ![d].files = @ \ {p, saver[p].name}]
              /\ NextSource(p)
         ELSE /\ entry' = [entry EXCEPT ![d].files = (@ \ {p}) \cup {saver[p].name}]
              /\ saver' = [saver EXCEPT ![p].pc = "manifest"]
    /\ UNCHANGED kills

RenamesManifest(p) ==
  LET d == saver[p].digest IN
    /\ saver[p].pc = "commit"
    /\ entry' = [entry EXCEPT ![d] = [files |-> @.files \ {p}, manifest |-> saver[p].name]]
    /\ saver' = [saver EXCEPT ![p].pc = IF saver[p].source = 0 THEN "idle" ELSE "resolve"]
    /\ UNCHANGED kills

\* The acquired artifact must still be found by the resolver.
Resolve(p) ==
  /\ saver[p].pc = "resolve"
  /\ IF Resolvable THEN saver' = [saver EXCEPT ![p] = Idle]
                   ELSE NextSource(p)
  /\ UNCHANGED <<entry, kills>>

\* write, fsync or rename raises: the temporary file is removed, the error
\* leaves the acquisition.
WriteFails(p) ==
  /\ saver[p].pc \in {"rename", "commit"}
  /\ entry' = [entry EXCEPT ![saver[p].digest].files = @ \ {p}]
  /\ saver' = [saver EXCEPT ![p] = Idle]
  /\ UNCHANGED kills

Killed(p) ==
  /\ saver[p].pc # "idle" /\ kills < MaxKills
  /\ kills' = kills + 1
  /\ entry' = [d \in Digests |-> [entry[d] EXCEPT !.files =
                 {IF f = p THEN Stray ELSE f : f \in @}]]
  /\ saver' = [saver EXCEPT ![p] = Idle]

CacheSteps(p) ==
  \/ Ensure(p) \/ Fetch(p) \/ Import(p) \/ WritesArtifact(p) \/ RenamesArtifact(p)
  \/ WritesManifest(p) \/ RenamesManifest(p) \/ Resolve(p) \/ WriteFails(p) \/ Killed(p)

CacheNext == \E p \in Savers : CacheSteps(p)

CacheSpec == CacheInit /\ [][CacheNext]_cacheVars

-----------------------------------------------------------------------------
(* Properties *)

\* A manifest describes a file that is there: a kill between the two writes
\* leaves an artifact without manifest, which is a miss, and never the
\* reverse (cache.py:64).
ManifestHasArtifact ==
  \A d \in Digests : entry[d].manifest # NoName => entry[d].manifest \in entry[d].files

\* What has been stored stays readable: with no writer at work in its
\* directory, an entry is unreadable only if a process was killed there or
\* the content was stored under two names (cache.py:124).
QuietIsReadable ==
  \A d \in Digests :
    (/\ entry[d].manifest # NoName /\ Stray \notin entry[d].files
     /\ Cardinality(entry[d].files \cap Names) = 1
     /\ \A p \in Savers : saver[p].pc \in {"rename", "commit"} => saver[p].digest # d)
      => Existing(d)

\* Entries survive kills, failures and writers side by side, which
\* _atomic_write and the manifest written last are for (cache.py:129).
EntriesSurvive == ManifestHasArtifact /\ QuietIsReadable
=============================================================================
