------------------------- MODULE AcquisitionProofs -------------------------
(***************************************************************************)
(* What the acquisition of navigation files keeps safe: a resumable        *)
(* transfer never mixes two versions of the file, for any number of        *)
(* attempts, versions and chunks; and entries of the cache it fills        *)
(* survive any number of writers without a lock, failed writes and kills.  *)
(***************************************************************************)
EXTENDS NavTransfer, RinexCache, TLAPS

-----------------------------------------------------------------------------
(* The transfer (NavTransfer)                                              *)

\* The part and its metadata have their types.
PartTypes ==
  /\ served \in Versions /\ meta \in Versions \cup {NoVersion}
  /\ part \in Seq(Versions \X Nat)
  /\ attempt \in [Attempts -> Attempt]

\* Only the holder of the lock asks and receives; what it resumes or writes
\* to is of the version the metadata names, unless somebody has unlinked
\* them meanwhile.
HolderInv ==
  \A a \in Attempts :
    /\ attempt[a].pc \in {"request", "body"} => flock = a
    /\ attempt[a].pc \in {"idle", "lock"} => attempt[a].at = 0
    /\ (attempt[a].pc = "request" /\ attempt[a].at > 0)
         \/ (attempt[a].pc = "body" /\ attempt[a].attached)
         => meta \in {NoVersion, attempt[a].version}
    /\ attempt[a].pc = "request" /\ attempt[a].at > 0 => attempt[a].version \in Versions
    /\ attempt[a].pc = "body" => attempt[a].version \in Versions

TransferInv == PartTypes /\ HolderInv /\ PartIsOneVersion

LEMMA VersionsAreNumbers ==
  /\ Versions \subseteq Nat \ {0} /\ 1 \in Versions /\ NoVersion \notin Versions
  /\ \A v \in Versions : Lengths[v] \in Nat \ {0}
BY TransferAssumption DEF Versions, NoVersion

LEMMA IdleIsAttempt == IdleAttempt \in Attempt
BY DEF IdleAttempt, Attempt, NoVersion

LEMMA TransferStarts == TransferInit => TransferInv
<1> SUFFICES ASSUME TransferInit PROVE TransferInv
  OBVIOUS
<1>1. PartTypes
  <2>1. <<>> \in Seq(Versions \X Nat) OBVIOUS
  <2> QED BY <2>1, VersionsAreNumbers, IdleIsAttempt DEF TransferInit, PartTypes
<1>2. HolderInv BY DEF TransferInit, HolderInv, IdleAttempt
<1>3. PartIsOneVersion BY DEF TransferInit, PartIsOneVersion
<1> QED BY <1>1, <1>2, <1>3 DEF TransferInv

\* An attempt that raises holds nothing any more; the others are untouched.
LEMMA RaisesHoldsNothing ==
  ASSUME TransferInv, NEW a \in Attempts, Raises(a),
         UNCHANGED meta \/ meta' = NoVersion
  PROVE  /\ attempt' \in [Attempts -> Attempt]
         /\ HolderInv'
<1>1. attempt' = [attempt EXCEPT ![a] = IdleAttempt]
        /\ flock' = (IF flock = a THEN NoAttempt ELSE flock)
  BY DEF Raises
<1>2. attempt'[a] = IdleAttempt /\ \A b \in Attempts \ {a} : attempt'[b] = attempt[b]
  BY <1>1 DEF TransferInv, PartTypes
<1>3. \A b \in Attempts \ {a} : flock = b => flock' = b
  BY <1>1
<1>4. attempt' \in [Attempts -> Attempt]
  BY <1>1, IdleIsAttempt DEF TransferInv, PartTypes
<1>5. HolderInv'
  <2> SUFFICES ASSUME NEW b \in Attempts
               PROVE  /\ attempt'[b].pc \in {"request", "body"} => flock' = b
                      /\ attempt'[b].pc \in {"idle", "lock"} => attempt'[b].at = 0
                      /\ (attempt'[b].pc = "request" /\ attempt'[b].at > 0)
                           \/ (attempt'[b].pc = "body" /\ attempt'[b].attached)
                           => meta' \in {NoVersion, attempt'[b].version}
                      /\ attempt'[b].pc = "request" /\ attempt'[b].at > 0
                           => attempt'[b].version \in Versions
                      /\ attempt'[b].pc = "body" => attempt'[b].version \in Versions
    BY DEF HolderInv
  <2>1. CASE b = a BY <1>2, <2>1 DEF IdleAttempt
  <2>2. CASE b # a BY <1>2, <1>3, <2>2 DEF TransferInv, HolderInv
  <2> QED BY <2>1, <2>2
<1> QED BY <1>4, <1>5

\* One attempt changes without giving up or taking the lock.
LEMMA OneAttempt ==
  ASSUME TransferInv, NEW a \in Attempts, NEW me \in Attempt,
         attempt' = [attempt EXCEPT ![a] = me],
         UNCHANGED meta \/ meta' = NoVersion \/ flock = a,
         flock' = flock \/ (flock \in {NoAttempt, a} /\ flock' \in {NoAttempt, a}),
         me.pc \in {"request", "body"} => flock' = a,
         me.pc \in {"idle", "lock"} => me.at = 0,
         (me.pc = "request" /\ me.at > 0) \/ (me.pc = "body" /\ me.attached)
           => meta' \in {NoVersion, me.version},
         me.pc = "request" /\ me.at > 0 => me.version \in Versions,
         me.pc = "body" => me.version \in Versions
  PROVE  attempt' \in [Attempts -> Attempt] /\ HolderInv'
<1>1. attempt' \in [Attempts -> Attempt] BY DEF TransferInv, PartTypes
<1>2. attempt'[a] = me /\ \A b \in Attempts \ {a} : attempt'[b] = attempt[b]
  BY DEF TransferInv, PartTypes
<1>3. \A b \in Attempts \ {a} : flock = b => flock' = b
  BY TransferAssumption
<1>4. \A b \in Attempts \ {a} : flock = b => UNCHANGED meta \/ meta' = NoVersion
  OBVIOUS
<1>5. ASSUME NEW b \in Attempts
      PROVE  /\ attempt'[b].pc \in {"request", "body"} => flock' = b
             /\ attempt'[b].pc \in {"idle", "lock"} => attempt'[b].at = 0
             /\ (attempt'[b].pc = "request" /\ attempt'[b].at > 0)
                  \/ (attempt'[b].pc = "body" /\ attempt'[b].attached)
                  => meta' \in {NoVersion, attempt'[b].version}
             /\ attempt'[b].pc = "request" /\ attempt'[b].at > 0
                  => attempt'[b].version \in Versions
             /\ attempt'[b].pc = "body" => attempt'[b].version \in Versions
  <2>1. CASE b = a BY <1>2, <2>1
  <2>2. CASE b # a BY <1>2, <1>3, <1>4, <2>2 DEF TransferInv, HolderInv
  <2> QED BY <2>1, <2>2
<1> QED BY <1>1, <1>5 DEF HolderInv

LEMMA TransferContinues ==
  ASSUME TransferInv, NEW a \in Attempts, TransferSteps(a)
  PROVE  TransferInv'
<1>1. attempt[a] \in Attempt BY DEF TransferInv, PartTypes
<1>2. PartTypes /\ HolderInv /\ PartIsOneVersion BY DEF TransferInv
<1>3. part = <<>> \/ meta = NoVersion => PartIsOneVersion BY DEF PartIsOneVersion
<1>4. <<>> \in Seq(Versions \X Nat) OBVIOUS
<1>a. CASE AsksForNav(a)
  <2> DEFINE me == [attempt[a] EXCEPT !.pc = IF navFile = <<>> THEN "lock" ELSE "idle"]
  <2>1. me \in Attempt /\ me.pc \in {"idle", "lock"} /\ me.at = 0
    BY <1>a, <1>1, <1>2 DEF AsksForNav, Attempt, HolderInv
  <2>2. attempt' = [attempt EXCEPT ![a] = me] BY <1>a DEF AsksForNav
  <2>3. UNCHANGED <<served, part, meta, flock>> BY <1>a DEF AsksForNav
  <2>4. attempt' \in [Attempts -> Attempt] /\ HolderInv'
    <3> HIDE DEF me
    <3> QED BY <2>1, <2>2, <2>3, OneAttempt
  <2> QED BY <1>2, <2>3, <2>4 DEF TransferInv, PartTypes, PartIsOneVersion
<1>b. CASE LocksPart(a)
  <2>0. attempt[a].pc = "lock" /\ attempt[a].at = 0 /\ flock = NoAttempt
          /\ UNCHANGED <<served, navFile>>
    BY <1>b, <1>2 DEF LocksPart, HolderInv
  <2>1. CASE meta # NoVersion /\ Len(part) = Lengths[meta]
    <3> DEFINE me == [attempt[a] EXCEPT !.pc = "returned", !.data = part]
    <3>1. attempt' = [attempt EXCEPT ![a] = me] /\ UNCHANGED <<part, meta, flock>>
      BY <1>b, <2>1 DEF LocksPart
    <3>2. me \in Attempt /\ me.pc = "returned" BY <1>1, <1>2 DEF Attempt, PartTypes
    <3>3. attempt' \in [Attempts -> Attempt] /\ HolderInv'
      <4> HIDE DEF me
      <4> QED BY <3>1, <3>2, OneAttempt
    <3> QED BY <1>2, <2>0, <3>1, <3>3 DEF TransferInv, PartTypes, PartIsOneVersion
  <2>2. CASE /\ ~(meta # NoVersion /\ Len(part) = Lengths[meta])
             /\ meta # NoVersion /\ Len(part) \in 1 .. Lengths[meta]
    <3> DEFINE me == [attempt[a] EXCEPT !.pc = "request", !.at = Len(part), !.version = meta]
    <3>1. attempt' = [attempt EXCEPT ![a] = me] /\ UNCHANGED <<part, meta>> /\ flock' = a
      BY <1>b, <2>2 DEF LocksPart
    <3>2. Len(part) \in Nat /\ meta \in Versions BY <1>2, <2>2 DEF PartTypes
    <3>3. me \in Attempt /\ me.pc = "request" /\ me.version = meta
      BY <1>1, <3>2 DEF Attempt
    <3>4. attempt' \in [Attempts -> Attempt] /\ HolderInv'
      <4> HIDE DEF me
      <4> QED BY <2>0, <3>1, <3>2, <3>3, OneAttempt
    <3> QED BY <1>2, <2>0, <3>1, <3>4 DEF TransferInv, PartTypes, PartIsOneVersion
  <2>3. CASE /\ ~(meta # NoVersion /\ Len(part) = Lengths[meta])
             /\ ~(meta # NoVersion /\ Len(part) \in 1 .. Lengths[meta])
    <3> DEFINE me == [attempt[a] EXCEPT !.pc = "request"]
    <3>1. attempt' = [attempt EXCEPT ![a] = me] /\ part' = <<>> /\ meta' = NoVersion /\ flock' = a
      BY <1>b, <2>3 DEF LocksPart
    <3>2. me \in Attempt /\ me.pc = "request" /\ ~(me.at > 0) BY <1>1, <2>0 DEF Attempt
    <3>3. attempt' \in [Attempts -> Attempt] /\ HolderInv'
      <4> HIDE DEF me
      <4> QED BY <2>0, <3>1, <3>2, OneAttempt
    <3> QED BY <1>2, <1>4, <2>0, <3>1, <3>3 DEF TransferInv, PartTypes, PartIsOneVersion
  <2> QED BY <2>1, <2>2, <2>3
<1>c. CASE Resumes(a)
  <2> DEFINE me == [attempt[a] EXCEPT !.pc = "body", !.attached = TRUE, !.sized = TRUE]
  <2>0. attempt[a].pc = "request" /\ attempt[a].at > 0
          /\ UNCHANGED <<served, part, meta, navFile, flock>>
    BY <1>c DEF Resumes
  <2>1. attempt' = [attempt EXCEPT ![a] = me] BY <1>c DEF Resumes
  <2>2. me \in Attempt /\ me.pc = "body" /\ me.version = attempt[a].version
    BY <1>1 DEF Attempt
  <2>3. flock = a /\ meta \in {NoVersion, attempt[a].version} /\ attempt[a].version \in Versions
    BY <1>2, <2>0 DEF HolderInv
  <2>4. attempt' \in [Attempts -> Attempt] /\ HolderInv'
    <3> HIDE DEF me
    <3> QED BY <2>0, <2>1, <2>2, <2>3, OneAttempt
  <2> QED BY <1>2, <2>0, <2>4 DEF TransferInv, PartTypes, PartIsOneVersion
<1>d. CASE ResumeMismatch(a)
  <2>1. part' = <<>> /\ meta' = NoVersion /\ Raises(a) /\ served' = served
    BY <1>d DEF ResumeMismatch
  <2> QED BY <1>2, <1>4, <2>1, RaisesHoldsNothing DEF TransferInv, PartTypes, PartIsOneVersion
<1>e. CASE StartsAfresh(a)
  <2>1. PICK v \in 1 .. served, sized \in BOOLEAN, tagged \in BOOLEAN :
          /\ part' = <<>>
          /\ meta' = IF sized /\ tagged THEN v ELSE NoVersion
          /\ attempt' = [attempt EXCEPT ![a] = [@ EXCEPT !.pc = "body", !.at = 0,
                           !.version = v, !.attached = TRUE, !.sized = sized]]
    BY <1>e DEF StartsAfresh
  <2> DEFINE me == [attempt[a] EXCEPT !.pc = "body", !.at = 0, !.version = v,
                                      !.attached = TRUE, !.sized = sized]
  <2>2. v \in Versions BY <1>2, TransferAssumption DEF PartTypes, Versions
  <2>3. attempt' = [attempt EXCEPT ![a] = me] BY <2>1
  <2>4. me \in Attempt /\ me.pc = "body" /\ me.version = v
    BY <1>1, <2>2 DEF Attempt
  <2>5. flock = a /\ flock' = flock /\ served' = served
    BY <1>e, <1>2 DEF StartsAfresh, HolderInv
  <2>6. attempt' \in [Attempts -> Attempt] /\ HolderInv'
    <3> HIDE DEF me
    <3> QED BY <2>1, <2>2, <2>3, <2>4, <2>5, OneAttempt
  <2> QED BY <1>2, <1>4, <2>1, <2>2, <2>5, <2>6 DEF TransferInv, PartTypes, PartIsOneVersion
<1>f. CASE ReceivesChunk(a)
  <2>0. attempt[a].pc = "body" /\ UNCHANGED <<served, meta, navFile, flock>>
    BY <1>f DEF ReceivesChunk
  <2> DEFINE me == [attempt[a] EXCEPT !.at = @ + 1]
  <2>1. attempt' = [attempt EXCEPT ![a] = me] BY <1>f DEF ReceivesChunk
  <2>2. me \in Attempt /\ me.pc = "body" /\ me.version = attempt[a].version
          /\ me.attached = attempt[a].attached
    <3>1. attempt[a].at + 1 \in Nat BY <1>1 DEF Attempt
    <3>2. \A n \in Nat : [attempt[a] EXCEPT !.at = n] \in Attempt BY <1>1 DEF Attempt
    <3>3. me \in Attempt BY <3>1, <3>2
    <3> QED BY <1>1, <2>0, <3>3 DEF Attempt
  <2>3. flock = a /\ attempt[a].version \in Versions
          /\ (attempt[a].attached => meta \in {NoVersion, attempt[a].version})
    BY <1>2, <2>0 DEF HolderInv
  <2>4. attempt' \in [Attempts -> Attempt] /\ HolderInv'
    <3> HIDE DEF me
    <3> QED BY <2>0, <2>1, <2>2, <2>3, OneAttempt
  <2>5. CASE attempt[a].attached
    <3> DEFINE chunk == <<attempt[a].version, attempt[a].at + 1>>
    <3>1. part' = Append(part, chunk) BY <1>f, <2>5 DEF ReceivesChunk
    <3>2. chunk \in Versions \X Nat BY <1>1, <2>3 DEF Attempt
    <3>3. part' \in Seq(Versions \X Nat) BY <1>2, <3>1, <3>2 DEF PartTypes
    <3>4. ASSUME meta' # NoVersion, NEW i \in DOMAIN part' PROVE part'[i][1] = meta'
      <4>1. meta' = meta /\ meta = attempt[a].version BY <2>0, <2>3, <2>5, <3>4
      <4>2. part \in Seq(Versions \X Nat) BY <1>2 DEF PartTypes
      <4>3. CASE i \in DOMAIN part
        <5>1. part'[i] = part[i] BY <3>1, <4>2, <4>3
        <5> QED BY <1>2, <3>4, <4>1, <4>3, <5>1 DEF PartIsOneVersion
      <4>4. CASE i \notin DOMAIN part
        <5>1. part'[i] = chunk BY <3>1, <3>2, <4>2, <4>4
        <5> QED BY <4>1, <5>1
      <4> QED BY <4>3, <4>4
    <3> QED BY <1>2, <2>0, <2>4, <3>3, <3>4 DEF TransferInv, PartTypes, PartIsOneVersion
  <2>6. CASE ~attempt[a].attached
    <3>1. part' = part BY <1>f, <2>6 DEF ReceivesChunk
    <3> QED BY <1>2, <2>0, <2>4, <3>1 DEF TransferInv, PartTypes, PartIsOneVersion
  <2> QED BY <2>5, <2>6
<1>g. CASE ReturnsPart(a)
  <2>0. attempt[a].pc = "body" /\ UNCHANGED <<served, part, meta, navFile>>
    BY <1>g DEF ReturnsPart
  <2>1. CASE attempt[a].attached
    <3> DEFINE me == [IdleAttempt EXCEPT !.pc = "returned", !.data = part]
    <3>1. attempt' = [attempt EXCEPT ![a] = me] /\ flock' = NoAttempt /\ flock = a
      BY <1>g, <1>2, <2>1 DEF ReturnsPart, HolderInv
    <3>2. me \in Attempt /\ me.pc = "returned"
      BY <1>2, IdleIsAttempt DEF Attempt, PartTypes, IdleAttempt
    <3>3. attempt' \in [Attempts -> Attempt] /\ HolderInv'
      <4> HIDE DEF me
      <4> QED BY <2>0, <3>1, <3>2, OneAttempt
    <3> QED BY <1>2, <2>0, <3>3 DEF TransferInv, PartTypes, PartIsOneVersion
  <2>2. CASE ~attempt[a].attached
    <3>1. Raises(a) BY <1>g, <2>2 DEF ReturnsPart
    <3> QED BY <1>2, <2>0, <3>1, RaisesHoldsNothing DEF TransferInv, PartTypes, PartIsOneVersion
  <2> QED BY <2>1, <2>2
<1>h. CASE AttemptFails(a)
  <2>1. Raises(a) /\ UNCHANGED <<served, part, meta, navFile>> BY <1>h DEF AttemptFails
  <2> QED BY <1>2, <2>1, RaisesHoldsNothing DEF TransferInv, PartTypes, PartIsOneVersion
<1>i. CASE Validates(a)
  <2> DEFINE me == [IdleAttempt EXCEPT !.pc = "unlink"]
  <2>1. attempt' = [attempt EXCEPT ![a] = me] /\ UNCHANGED <<served, part, meta, flock>>
    BY <1>i DEF Validates
  <2>2. me \in Attempt /\ me.pc = "unlink" BY IdleIsAttempt DEF Attempt, IdleAttempt
  <2>3. attempt' \in [Attempts -> Attempt] /\ HolderInv'
    <3> HIDE DEF me
    <3> QED BY <2>1, <2>2, OneAttempt
  <2> QED BY <1>2, <2>1, <2>3 DEF TransferInv, PartTypes, PartIsOneVersion
<1>j. CASE UnlinksPart(a)
  <2>0. part' = <<>> /\ UNCHANGED <<served, meta, navFile, flock>> BY <1>j DEF UnlinksPart
  <2>1. \A b \in Attempts : attempt'[b] =
          IF b = a THEN [attempt[b] EXCEPT !.pc = "unlink_meta"]
                   ELSE [attempt[b] EXCEPT !.attached = FALSE]
    BY <1>j DEF UnlinksPart
  <2>2. \A b \in Attempts : attempt[b] \in Attempt BY <1>2 DEF PartTypes
  <2>3. ASSUME NEW b \in Attempts PROVE attempt'[b] \in Attempt
    <3>1. attempt[b] \in Attempt BY <2>2
    <3>2. [attempt[b] EXCEPT !.pc = "unlink_meta"] \in Attempt BY <3>1 DEF Attempt
    <3>3. [attempt[b] EXCEPT !.attached = FALSE] \in Attempt BY <3>1 DEF Attempt
    <3> QED BY <2>1, <3>2, <3>3
  <2>4. attempt' \in [Attempts -> Attempt] BY <1>j, <2>1, <2>3 DEF UnlinksPart
  <2>5. ASSUME NEW b \in Attempts
        PROVE  /\ attempt'[b].pc \in {"idle", "lock", "request", "body"} => attempt'[b].pc = attempt[b].pc
               /\ attempt'[b].at = attempt[b].at /\ attempt'[b].version = attempt[b].version
               /\ attempt'[b].attached => attempt[b].attached
    BY <2>1, <2>2, ZenonT(40) DEF Attempt
  <2>6. HolderInv' BY <1>2, <2>0, <2>5 DEF HolderInv
  <2> QED BY <1>2, <1>4, <2>0, <2>4, <2>6 DEF TransferInv, PartTypes, PartIsOneVersion
<1>k. CASE UnlinksMeta(a)
  <2>1. attempt' = [attempt EXCEPT ![a] = IdleAttempt] /\ meta' = NoVersion
          /\ UNCHANGED <<served, part, flock>>
    BY <1>k DEF UnlinksMeta
  <2>2. attempt' \in [Attempts -> Attempt] /\ HolderInv'
    BY <2>1, IdleIsAttempt, OneAttempt DEF IdleAttempt
  <2> QED BY <1>2, <2>1, <2>2 DEF TransferInv, PartTypes, PartIsOneVersion
<1> QED BY <1>a, <1>b, <1>c, <1>d, <1>e, <1>f, <1>g, <1>h, <1>i, <1>j, <1>k DEF TransferSteps

\* What the metadata offers to resume is of one version (scripts/
\* ppk_qa_scheduler.py:149), whatever the provider replaces, whoever is
\* killed, and although part and metadata are unlinked without the lock.
THEOREM PartAlways == TransferSpec => []PartIsOneVersion
<1>1. TransferInv /\ [TransferNext]_transferVars => TransferInv'
  <2> SUFFICES ASSUME TransferInv, [TransferNext]_transferVars PROVE TransferInv'
    OBVIOUS
  <2>1. CASE Republish
    BY <2>1 DEF Republish, TransferInv, PartTypes, HolderInv, PartIsOneVersion
  <2>2. CASE \E a \in Attempts : TransferSteps(a) BY <2>2, TransferContinues
  <2>3. CASE UNCHANGED transferVars
    BY <2>3 DEF transferVars, TransferInv, PartTypes, HolderInv, PartIsOneVersion
  <2> QED BY <2>1, <2>2, <2>3 DEF TransferNext
<1>2. TransferInv => PartIsOneVersion BY DEF TransferInv
<1> QED BY <1>1, <1>2, TransferStarts, PTL DEF TransferSpec

-----------------------------------------------------------------------------
(* The cache (RinexCache)                                                  *)

Shape == [pc : {"idle", "fetch", "write", "rename", "manifest", "commit", "resolve"},
          source : Nat, digest : Digests, name : Names]

CacheTypes ==
  /\ entry \in [Digests -> Entry]
  /\ saver \in [Savers -> Shape]

\* Who is to write the manifest has its artifact in place, which nobody
\* takes away, for it is no refused one.
ArtifactInPlace ==
  \A p \in Savers : saver[p].pc \in {"manifest", "commit"} =>
    saver[p].digest \in Daily /\ saver[p].name \in entry[saver[p].digest].files

\* Refused content gets no manifest, and a manifest names a file in place.
ManifestInv ==
  /\ \A d \in Unsafe : entry[d].manifest = NoName
  /\ ManifestHasArtifact

\* A temporary file is that of a process writing it.
TempInv ==
  \A d \in Digests, p \in Savers : p \in entry[d].files =>
    saver[p].pc \in {"rename", "commit"} /\ saver[p].digest = d

CacheInv == CacheTypes /\ ArtifactInPlace /\ ManifestInv /\ TempInv

LEMMA IdleShape == Idle \in Shape /\ Idle.pc = "idle"
<1>1. (CHOOSE d \in Digests : TRUE) \in Digests /\ (CHOOSE n \in Names : TRUE) \in Names
  BY CacheAssumption DEF Digests
<1> QED BY <1>1 DEF Idle, Shape

LEMMA CacheStarts == CacheInit => CacheInv
BY IdleShape, CacheAssumption
   DEF CacheInit, CacheInv, CacheTypes, Entry, ArtifactInPlace, ManifestInv,
       ManifestHasArtifact, TempInv, Digests

LEMMA InvSuffices == CacheInv => EntriesSurvive
<1> SUFFICES ASSUME CacheInv PROVE EntriesSurvive
  OBVIOUS
<1>1. ManifestHasArtifact BY DEF CacheInv, ManifestInv
<1>2. ASSUME NEW d \in Digests, entry[d].manifest # NoName, Stray \notin entry[d].files,
             Cardinality(entry[d].files \cap Names) = 1,
             \A p \in Savers : saver[p].pc \in {"rename", "commit"} => saver[p].digest # d
      PROVE  Existing(d)
  <2>1. entry[d].files \subseteq Names \cup Savers \cup {Stray}
    BY DEF CacheInv, CacheTypes, Entry
  <2>2. entry[d].files \cap Savers = {} BY <1>2 DEF CacheInv, TempInv
  <2>3. entry[d].files = entry[d].files \cap Names BY <1>2, <2>1, <2>2
  <2> QED BY <1>2, <2>3 DEF Existing
<1> QED BY <1>1, <1>2 DEF EntriesSurvive, QuietIsReadable

\* A process that leaves the directories alone and is then neither in a
\* write nor, unless it was, before its manifest.
LEMMA SaverMoves ==
  ASSUME CacheInv, NEW p \in Savers, NEW me \in Shape,
         saver' = [saver EXCEPT ![p] = me], UNCHANGED entry,
         saver[p].pc \notin {"rename", "commit"},
         me.pc \notin {"manifest", "commit", "rename"}
  PROVE  CacheInv'
<1>1. saver' \in [Savers -> Shape] BY DEF CacheInv, CacheTypes
<1>2. saver'[p] = me /\ \A q \in Savers \ {p} : saver'[q] = saver[q]
  BY DEF CacheInv, CacheTypes
<1>3. ArtifactInPlace' BY <1>2 DEF CacheInv, ArtifactInPlace
<1>4. TempInv' BY <1>2 DEF CacheInv, TempInv
<1> QED BY <1>1, <1>3, <1>4 DEF CacheInv, CacheTypes, ManifestInv, ManifestHasArtifact

\* A process that changes its directory: temporary files of others and,
\* unless the digest is refused, all named files stay.
LEMMA SaverWrites ==
  ASSUME CacheInv, NEW p \in Savers, NEW me \in Shape, NEW files, NEW manifest,
         saver' = [saver EXCEPT ![p] = me],
         entry' = [entry EXCEPT ![saver[p].digest] = [files |-> files, manifest |-> manifest]],
         [files |-> files, manifest |-> manifest] \in Entry,
         files \cap (Savers \ {p}) \subseteq entry[saver[p].digest].files,
         p \in files => me.pc \in {"rename", "commit"} /\ me.digest = saver[p].digest,
         saver[p].digest \in Daily => entry[saver[p].digest].files \cap Names \subseteq files,
         me.pc \in {"manifest", "commit"} =>
           me.digest = saver[p].digest /\ me.digest \in Daily /\ me.name \in files,
         manifest # entry[saver[p].digest].manifest =>
           saver[p].digest \in Daily /\ manifest \in files
  PROVE  CacheInv'
<1> DEFINE d == saver[p].digest
<1>1. d \in Digests /\ saver' \in [Savers -> Shape] /\ entry' \in [Digests -> Entry]
  BY DEF CacheInv, CacheTypes, Shape
<1>2. /\ saver'[p] = me /\ \A q \in Savers \ {p} : saver'[q] = saver[q]
      /\ entry'[d] = [files |-> files, manifest |-> manifest]
      /\ \A e \in Digests \ {d} : entry'[e] = entry[e]
  BY <1>1 DEF CacheInv, CacheTypes
<1>3. Daily \subseteq Digests /\ Unsafe \subseteq Digests /\ Daily \cap Unsafe = {}
  BY CacheAssumption DEF Digests
<1>4. \A e \in Daily : entry[e].files \cap Names \subseteq entry'[e].files
  BY <1>2, <1>3
<1>5. ArtifactInPlace'
  <2>1. ASSUME NEW q \in Savers, saver'[q].pc \in {"manifest", "commit"}
        PROVE  saver'[q].digest \in Daily /\ saver'[q].name \in entry'[saver'[q].digest].files
    <3>1. CASE q = p BY <1>2, <2>1, <3>1
    <3>2. CASE q # p
      <4>1. saver'[q] = saver[q] /\ saver[q].name \in Names
        BY <1>2, <3>2 DEF CacheInv, CacheTypes, Shape
      <4>2. saver[q].digest \in Daily /\ saver[q].name \in entry[saver[q].digest].files
        BY <2>1, <4>1 DEF CacheInv, ArtifactInPlace
      <4> QED BY <1>4, <4>1, <4>2
    <3> QED BY <3>1, <3>2
  <2> QED BY <2>1 DEF ArtifactInPlace
<1>6. ManifestInv'
  <2>1. ASSUME NEW e \in Unsafe PROVE entry'[e].manifest = NoName
    <3>1. entry[e].manifest = NoName BY DEF CacheInv, ManifestInv
    <3> QED BY <1>2, <1>3, <3>1
  <2>2. ASSUME NEW e \in Digests, entry'[e].manifest # NoName
        PROVE  entry'[e].manifest \in entry'[e].files
    <3>1. CASE e # d BY <1>2, <2>2, <3>1 DEF CacheInv, ManifestInv, ManifestHasArtifact
    <3>2. CASE e = d /\ manifest = entry[d].manifest
      <4>1. entry[d].manifest \in entry[d].files /\ entry[d].manifest \in Names /\ d \in Daily
        <5>1. entry[d].manifest # NoName BY <1>2, <2>2, <3>2
        <5>2. d \in Daily BY <1>1, <5>1 DEF CacheInv, ManifestInv, Digests
        <5> QED BY <1>1, <5>1, <5>2 DEF CacheInv, CacheTypes, Entry, ManifestInv, ManifestHasArtifact
      <4> QED BY <1>2, <1>4, <3>2, <4>1
    <3>3. CASE e = d /\ manifest # entry[d].manifest BY <1>2, <3>3
    <3> QED BY <3>1, <3>2, <3>3
  <2> QED BY <2>1, <2>2 DEF ManifestInv, ManifestHasArtifact
<1>7. TempInv'
  <2>1. ASSUME NEW e \in Digests, NEW q \in Savers, q \in entry'[e].files
        PROVE  saver'[q].pc \in {"rename", "commit"} /\ saver'[q].digest = e
    <3>1. CASE q = p /\ e = d BY <1>2, <2>1, <3>1
    <3>2. CASE q = p /\ e # d
      <4>1. p \in entry[e].files BY <1>2, <2>1, <3>2
      <4> QED BY <3>2, <4>1 DEF CacheInv, TempInv
    <3>3. CASE q # p
      <4>1. q \in entry[e].files BY <1>2, <2>1, <3>3
      <4> QED BY <1>2, <3>3, <4>1 DEF CacheInv, TempInv
    <3> QED BY <3>1, <3>2, <3>3
  <2> QED BY <2>1 DEF TempInv
<1> QED BY <1>1, <1>5, <1>6, <1>7 DEF CacheInv, CacheTypes

LEMMA NextSourceMoves ==
  ASSUME CacheTypes, NEW p \in Savers, NextSource(p)
  PROVE  \E me \in Shape : saver' = [saver EXCEPT ![p] = me] /\ me.pc \in {"fetch", "idle"}
<1>1. CASE saver[p].source \in 1 .. Len(Sources) - 1
  <2> DEFINE me == [saver[p] EXCEPT !.pc = "fetch", !.source = saver[p].source + 1]
  <2>1. saver[p] \in Shape BY DEF CacheTypes
  <2>2. saver[p].source + 1 \in Nat BY <2>1 DEF Shape
  <2>3. me \in Shape /\ me.pc = "fetch" BY <2>1, <2>2 DEF Shape
  <2>4. saver' = [saver EXCEPT ![p] = me] BY <1>1 DEF NextSource
  <2> QED BY <2>3, <2>4
<1>2. CASE saver[p].source \notin 1 .. Len(Sources) - 1
  BY <1>2, IdleShape DEF NextSource
<1> QED BY <1>1, <1>2

LEMMA StoreBytesMoves ==
  ASSUME CacheTypes, NEW p \in Savers, NEW d \in Digests, NEW n \in Names, StoreBytes(p, d, n)
  PROVE  \E me \in Shape : saver' = [saver EXCEPT ![p] = me]
                           /\ me.pc \in {"fetch", "idle", "resolve", "write"}
<1>1. saver[p] \in Shape BY DEF CacheTypes
<1>2. CASE NextSource(p) BY <1>2, NextSourceMoves
<1>3. CASE saver' = [saver EXCEPT ![p].pc = IF saver[p].source = 0 THEN "idle" ELSE "resolve"]
  <2> DEFINE me == [saver[p] EXCEPT !.pc = IF saver[p].source = 0 THEN "idle" ELSE "resolve"]
  <2>1. me \in Shape /\ me.pc \in {"idle", "resolve"} BY <1>1 DEF Shape
  <2>2. saver' = [saver EXCEPT ![p] = me] BY <1>3
  <2> QED BY <2>1, <2>2
<1>4. CASE saver' = [saver EXCEPT ![p] = [@ EXCEPT !.pc = "write", !.digest = d, !.name = n]]
  <2> DEFINE me == [saver[p] EXCEPT !.pc = "write", !.digest = d, !.name = n]
  <2>1. me \in Shape /\ me.pc = "write" BY <1>1 DEF Shape
  <2>2. saver' = [saver EXCEPT ![p] = me] BY <1>4
  <2> QED BY <2>1, <2>2
<1> QED BY <1>2, <1>3, <1>4 DEF StoreBytes

LEMMA CacheContinues ==
  ASSUME CacheInv, NEW p \in Savers, CacheSteps(p)
  PROVE  CacheInv'
<1>1. /\ CacheTypes /\ saver[p] \in Shape /\ saver[p].digest \in Digests
      /\ entry[saver[p].digest] \in Entry
  BY DEF CacheInv, CacheTypes, Shape
<1> DEFINE d == saver[p].digest
<1>2. p \notin Names /\ p # Stray BY CacheAssumption
<1>a. CASE Ensure(p)
  <2>1. CASE Resolvable
    BY <1>a, <2>1 DEF Ensure, CacheInv, CacheTypes, ArtifactInPlace, ManifestInv,
                      ManifestHasArtifact, TempInv
  <2>2. CASE ~Resolvable
    <3> DEFINE me == [saver[p] EXCEPT !.pc = "fetch", !.source = 1]
    <3>1. me \in Shape /\ me.pc = "fetch" BY <1>1 DEF Shape
    <3>2. saver' = [saver EXCEPT ![p] = me] /\ UNCHANGED entry /\ saver[p].pc = "idle"
      BY <1>a, <2>2 DEF Ensure
    <3> HIDE DEF me
    <3> QED BY <3>1, <3>2, SaverMoves
  <2> QED BY <2>1, <2>2
<1>b. CASE Fetch(p) \/ Import(p)
  <2>1. Daily \subseteq Digests BY DEF Digests
  <2>2. PICK me \in Shape : saver' = [saver EXCEPT ![p] = me]
                            /\ me.pc \in {"fetch", "idle", "resolve", "write"}
    BY <1>b, <1>1, <2>1, StoreBytesMoves, NextSourceMoves, IdleShape DEF Fetch, Import
  <2>3. saver[p].pc \in {"fetch", "idle"} /\ UNCHANGED entry BY <1>b DEF Fetch, Import
  <2> QED BY <2>2, <2>3, SaverMoves
<1>c. CASE WritesArtifact(p) \/ WritesManifest(p)
  <2>1. PICK before \in {"write", "manifest"}, after \in {"rename", "commit"} :
          MakesTemp(p, before, after) /\ (after = "commit" => before = "manifest")
    BY <1>c DEF WritesArtifact, WritesManifest
  <2> DEFINE me == [saver[p] EXCEPT !.pc = after]
             files == entry[d].files \cup {p}
             manifest == entry[d].manifest
  <2>2. me \in Shape /\ me.pc = after /\ me.digest = d /\ me.name = saver[p].name
    BY <1>1 DEF Shape
  <2>3. saver' = [saver EXCEPT ![p] = me] /\ saver[p].pc = before
    BY <2>1 DEF MakesTemp
  <2>4. entry' = [entry EXCEPT ![d] = [files |-> files, manifest |-> manifest]]
    <3>1. entry' = [entry EXCEPT ![d] = [@ EXCEPT !.files = files]] BY <2>1 DEF MakesTemp
    <3>2. [entry[d] EXCEPT !.files = files] = [files |-> files, manifest |-> manifest]
      BY <1>1 DEF Entry
    <3> QED BY <3>1, <3>2
  <2>5. [files |-> files, manifest |-> manifest] \in Entry BY <1>1 DEF Entry
  <2>6. me.pc \in {"manifest", "commit"} => me.digest \in Daily /\ me.name \in files
    BY <2>1, <2>2, <2>3 DEF CacheInv, ArtifactInPlace
  <2>7. files \cap (Savers \ {p}) \subseteq entry[d].files /\ entry[d].files \subseteq files
    OBVIOUS
  <2> HIDE DEF me, files, manifest
  <2>8. manifest = entry[d].manifest BY DEF manifest
  <2> QED BY <2>2, <2>3, <2>4, <2>5, <2>6, <2>7, <2>8, SaverWrites
<1>d. CASE RenamesArtifact(p)
  <2>0. saver[p].pc = "rename" /\ saver[p].name \in Names BY <1>d, <1>1 DEF RenamesArtifact, Shape
  <2>1. CASE d \in Unsafe
    <3> DEFINE files == entry[d].files \ {p, saver[p].name}
               manifest == entry[d].manifest
    <3>1. PICK me \in Shape : saver' = [saver EXCEPT ![p] = me] /\ me.pc \in {"fetch", "idle"}
      BY <1>d, <1>1, <2>1, NextSourceMoves DEF RenamesArtifact
    <3>2. entry' = [entry EXCEPT ![d] = [files |-> files, manifest |-> manifest]]
      <4>1. entry' = [entry EXCEPT ![d] = [@ EXCEPT !.files = files]]
        BY <1>d, <2>1 DEF RenamesArtifact
      <4>2. [entry[d] EXCEPT !.files = files] = [files |-> files, manifest |-> manifest]
        BY <1>1 DEF Entry
      <4> QED BY <4>1, <4>2
    <3>3. [files |-> files, manifest |-> manifest] \in Entry BY <1>1 DEF Entry
    <3>4. p \notin files /\ files \cap (Savers \ {p}) \subseteq entry[d].files
            /\ manifest = entry[d].manifest /\ d \notin Daily
      BY <2>1, CacheAssumption
    <3> HIDE DEF files, manifest
    <3> QED BY <3>1, <3>2, <3>3, <3>4, SaverWrites
  <2>2. CASE d \notin Unsafe
    <3> DEFINE me == [saver[p] EXCEPT !.pc = "manifest"]
               files == (entry[d].files \ {p}) \cup {saver[p].name}
               manifest == entry[d].manifest
    <3>1. saver' = [saver EXCEPT ![p] = me] BY <1>d, <2>2 DEF RenamesArtifact
    <3>2. me \in Shape /\ me.pc = "manifest" /\ me.digest = d /\ me.name = saver[p].name
      BY <1>1 DEF Shape
    <3>3. entry' = [entry EXCEPT ![d] = [files |-> files, manifest |-> manifest]]
      <4>1. entry' = [entry EXCEPT ![d] = [@ EXCEPT !.files = files]]
        BY <1>d, <2>2 DEF RenamesArtifact
      <4>2. [entry[d] EXCEPT !.files = files] = [files |-> files, manifest |-> manifest]
        BY <1>1 DEF Entry
      <4> QED BY <4>1, <4>2
    <3>4. [files |-> files, manifest |-> manifest] \in Entry BY <1>1, <2>0 DEF Entry
    <3>5. p \notin files /\ files \cap (Savers \ {p}) \subseteq entry[d].files
            /\ entry[d].files \cap Names \subseteq files /\ saver[p].name \in files
      BY <1>2, <2>0, CacheAssumption
    <3>6. d \in Daily BY <1>1, <2>2 DEF Digests
    <3>7. manifest = entry[d].manifest OBVIOUS
    <3> HIDE DEF me, files, manifest
    <3> QED BY <3>1, <3>2, <3>3, <3>4, <3>5, <3>6, <3>7, SaverWrites
  <2> QED BY <2>1, <2>2
<1>e. CASE RenamesManifest(p)
  <2> DEFINE me == [saver[p] EXCEPT !.pc = IF saver[p].source = 0 THEN "idle" ELSE "resolve"]
             files == entry[d].files \ {p}
             manifest == saver[p].name
  <2>0. saver[p].pc = "commit" /\ saver[p].name \in Names BY <1>e, <1>1 DEF RenamesManifest, Shape
  <2>1. saver' = [saver EXCEPT ![p] = me] BY <1>e DEF RenamesManifest
  <2>2. me \in Shape /\ me.pc \in {"idle", "resolve"} BY <1>1 DEF Shape
  <2>3. entry' = [entry EXCEPT ![d] = [files |-> files, manifest |-> manifest]]
    BY <1>e DEF RenamesManifest
  <2>4. [files |-> files, manifest |-> manifest] \in Entry BY <1>1, <2>0 DEF Entry
  <2>5. p \notin files /\ files \cap (Savers \ {p}) \subseteq entry[d].files
          /\ entry[d].files \cap Names \subseteq files
    BY <1>2
  <2>6. d \in Daily /\ manifest \in files
    <3>1. d \in Daily /\ saver[p].name \in entry[d].files
      BY <2>0 DEF CacheInv, ArtifactInPlace
    <3> QED BY <1>2, <2>0, <3>1
  <2> HIDE DEF me, files, manifest
  <2> QED BY <2>1, <2>2, <2>3, <2>4, <2>5, <2>6, SaverWrites
<1>f. CASE Resolve(p)
  <2>1. PICK me \in Shape : saver' = [saver EXCEPT ![p] = me] /\ me.pc \in {"fetch", "idle"}
    BY <1>f, <1>1, NextSourceMoves, IdleShape DEF Resolve
  <2>2. saver[p].pc = "resolve" /\ UNCHANGED entry BY <1>f DEF Resolve
  <2> QED BY <2>1, <2>2, SaverMoves
<1>g. CASE WriteFails(p)
  <2> DEFINE files == entry[d].files \ {p}
             manifest == entry[d].manifest
  <2>1. saver' = [saver EXCEPT ![p] = Idle] BY <1>g DEF WriteFails
  <2>2. entry' = [entry EXCEPT ![d] = [files |-> files, manifest |-> manifest]]
    <3>1. entry' = [entry EXCEPT ![d] = [@ EXCEPT !.files = files]] BY <1>g DEF WriteFails
    <3>2. [entry[d] EXCEPT !.files = files] = [files |-> files, manifest |-> manifest]
      BY <1>1 DEF Entry
    <3> QED BY <3>1, <3>2
  <2>3. [files |-> files, manifest |-> manifest] \in Entry BY <1>1 DEF Entry
  <2>4. p \notin files /\ files \cap (Savers \ {p}) \subseteq entry[d].files
          /\ entry[d].files \cap Names \subseteq files /\ manifest = entry[d].manifest
    BY <1>2
  <2> HIDE DEF files, manifest
  <2> QED BY <2>1, <2>2, <2>3, <2>4, IdleShape, SaverWrites
<1>h. CASE Killed(p)
  <2>1. saver' = [saver EXCEPT ![p] = Idle] BY <1>h DEF Killed
  <2>2. ASSUME NEW e \in Digests
        PROVE  /\ entry'[e] \in Entry /\ entry'[e].manifest = entry[e].manifest
               /\ entry'[e].files \cap Names = entry[e].files \cap Names
               /\ entry'[e].files \cap Savers \subseteq entry[e].files \ {p}
    <3> DEFINE files == {IF f = p THEN Stray ELSE f : f \in entry[e].files}
    <3>1. entry'[e] = [entry[e] EXCEPT !.files = files] BY <1>h DEF Killed
    <3>2. entry[e] \in Entry BY <1>1 DEF CacheTypes
    <3>3. files \subseteq Names \cup Savers \cup {Stray} BY <3>2 DEF Entry
    <3>4. files \cap Names = entry[e].files \cap Names
            /\ files \cap Savers \subseteq entry[e].files \ {p}
      BY <1>2, <3>2, CacheAssumption
    <3> HIDE DEF files
    <3>5. entry'[e].files = files /\ entry'[e].manifest = entry[e].manifest
            /\ entry'[e] \in Entry
      BY <3>1, <3>2, <3>3 DEF Entry
    <3> QED BY <3>4, <3>5
  <2>3. saver'[p].pc = "idle" /\ \A q \in Savers \ {p} : saver'[q] = saver[q]
    BY <1>1, <2>1, IdleShape DEF CacheTypes
  <2>4. CacheTypes'
    <3>1. entry' \in [Digests -> Entry] BY <1>h, <2>2 DEF Killed
    <3> QED BY <1>1, <2>1, <3>1, IdleShape DEF CacheTypes
  <2>5. ArtifactInPlace'
    <3>1. ASSUME NEW q \in Savers, saver'[q].pc \in {"manifest", "commit"}
          PROVE  saver'[q].digest \in Daily /\ saver'[q].name \in entry'[saver'[q].digest].files
      <4>1. saver'[q] = saver[q] BY <2>3, <3>1
      <4>2. saver[q].digest \in Daily /\ saver[q].name \in entry[saver[q].digest].files
              /\ saver[q].name \in Names /\ saver[q].digest \in Digests
        BY <1>1, <3>1, <4>1 DEF CacheInv, CacheTypes, Shape, ArtifactInPlace
      <4> QED BY <2>2, <4>1, <4>2
    <3> QED BY <3>1 DEF ArtifactInPlace
  <2>6. ManifestInv'
    <3>1. Unsafe \subseteq Digests BY DEF Digests
    <3>2. \A e \in Unsafe : entry'[e].manifest = NoName
      BY <2>2, <3>1 DEF CacheInv, ManifestInv
    <3>3. ASSUME NEW e \in Digests, entry'[e].manifest # NoName
          PROVE  entry'[e].manifest \in entry'[e].files
      <4>1. entry[e].manifest # NoName /\ entry[e].manifest \in entry[e].files
        BY <2>2, <3>3 DEF CacheInv, ManifestInv, ManifestHasArtifact
      <4>2. entry[e].manifest \in Names BY <1>1, <4>1 DEF CacheTypes, Entry
      <4> QED BY <2>2, <4>1, <4>2
    <3> QED BY <3>2, <3>3 DEF ManifestInv, ManifestHasArtifact
  <2>7. TempInv' BY <2>2, <2>3 DEF CacheInv, TempInv
  <2> QED BY <2>4, <2>5, <2>6, <2>7 DEF CacheInv
<1> QED BY <1>a, <1>b, <1>c, <1>d, <1>e, <1>f, <1>g, <1>h DEF CacheSteps

\* A manifest's artifact is there, and an entry nobody is writing is
\* readable, whoever was killed and whose writes failed (cache.py:64).
THEOREM EntriesAlways == CacheSpec => []EntriesSurvive
<1>1. CacheInv /\ [CacheNext]_cacheVars => CacheInv'
  <2> SUFFICES ASSUME CacheInv, [CacheNext]_cacheVars PROVE CacheInv'
    OBVIOUS
  <2>1. CASE CacheNext BY <2>1, CacheContinues DEF CacheNext
  <2>2. CASE UNCHANGED cacheVars
    BY <2>2 DEF cacheVars, CacheInv, CacheTypes, ArtifactInPlace, ManifestInv,
                ManifestHasArtifact, TempInv
  <2> QED BY <2>1, <2>2
<1> QED BY <1>1, CacheStarts, InvSuffices, PTL DEF CacheSpec
=============================================================================
