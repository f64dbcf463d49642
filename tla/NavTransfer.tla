---------------------------- MODULE NavTransfer ----------------------------
(***************************************************************************)
(* download_nav_resumable and its caller nav_for (scripts/                 *)
(* ppk_qa_scheduler.py): the resumable transfer of one daily navigation    *)
(* file.  Attempts of the hourly run and of the navigation retry share a   *)
(* partial file and its metadata, under an advisory lock; the provider     *)
(* replaces the file during the day, and its mirrors may serve an older    *)
(* version.  An attempt may be killed at any step.                         *)
(*                                                                         *)
(* Content is a sequence of chunks, each the version it comes from and its *)
(* place in it.  The partial file unlinked and the partial file empty are  *)
(* one value: both make the next attempt start afresh.                     *)
(***************************************************************************)
EXTENDS Naturals, Sequences

CONSTANTS
  Attempts,   \* processes that may ask for the file at once
  NoAttempt,  \* the lock is free
  Lengths     \* chunks of each version of the file, oldest first

ASSUME TransferAssumption ==
  /\ NoAttempt \notin Attempts
  /\ Lengths \in Seq(Nat \ {0}) /\ Lengths # <<>>

Versions == DOMAIN Lengths
NoVersion == 0
Whole(v) == [i \in 1 .. Lengths[v] |-> <<v, i>>]

VARIABLES
  served,    \* newest version at the provider
  part,      \* name.part
  meta,      \* name.part.json: the validator, and so the total; NoVersion: none
  navFile,   \* the promoted file, <<>>: none
  flock,     \* holder of name.part.lock
  attempt    \* the attempts

transferVars == <<served, part, meta, navFile, flock, attempt>>

\* at is the number of chunks of version in the partial file, attached
\* whether the open file is still the one the name refers to, sized whether
\* the reply tells its length, data the bytes returned to nav_for.
Attempt == [pc : {"idle", "lock", "request", "body", "returned", "unlink", "unlink_meta"},
            at : Nat, version : Versions \cup {NoVersion},
            attached : BOOLEAN, sized : BOOLEAN, data : Seq(Versions \X Nat)]
IdleAttempt == [pc |-> "idle", at |-> 0, version |-> NoVersion,
                attached |-> FALSE, sized |-> FALSE, data |-> <<>>]

TransferInit ==
  /\ served = 1 /\ part = <<>> /\ meta = NoVersion /\ navFile = <<>>
  /\ flock = NoAttempt /\ attempt = [a \in Attempts |-> IdleAttempt]

\* The provider publishes the next version.
Republish ==
  /\ served + 1 \in Versions
  /\ served' = served + 1
  /\ UNCHANGED <<part, meta, navFile, flock, attempt>>

\* nav_for serves a promoted file first, and never asks for it again.
AsksForNav(a) ==
  /\ attempt[a].pc = "idle"
  /\ attempt' = [attempt EXCEPT ![a].pc = IF navFile = <<>> THEN "lock" ELSE "idle"]
  /\ UNCHANGED <<served, part, meta, navFile, flock>>

\* Under the lock: a complete part is returned, an incomplete one of known
\* version is resumed, anything else is discarded.
LocksPart(a) ==
  /\ attempt[a].pc = "lock" /\ flock = NoAttempt
  /\ IF meta # NoVersion /\ Len(part) = Lengths[meta]
       THEN /\ attempt' = [attempt EXCEPT ![a].pc = "returned", ![a].data = part]
            /\ UNCHANGED <<part, meta, flock>>
     ELSE IF meta # NoVersion /\ Len(part) \in 1 .. Lengths[meta]
       THEN /\ attempt' = [attempt EXCEPT ![a].pc = "request", ![a].at = Len(part),
                                          ![a].version = meta]
            /\ flock' = a
            /\ UNCHANGED <<part, meta>>
     ELSE /\ part' = <<>> /\ meta' = NoVersion
          /\ attempt' = [attempt EXCEPT ![a].pc = "request"]
          /\ flock' = a
  /\ UNCHANGED <<served, navFile>>

\* The attempt ends with an exception; its lock is freed.
Raises(a) ==
  /\ attempt' = [attempt EXCEPT ![a] = IdleAttempt]
  /\ flock' = IF flock = a THEN NoAttempt ELSE flock

\* Mutant: the validator of a 206 is not compared.
ResumesAnyVersion(a) ==
  /\ attempt[a].pc = "request" /\ attempt[a].at > 0
  /\ \E v \in 1 .. served :
       /\ Lengths[v] = Lengths[attempt[a].version]
       /\ attempt' = [attempt EXCEPT ![a] = [@ EXCEPT !.pc = "body", !.version = v,
                                               !.attached = TRUE, !.sized = TRUE]]
  /\ UNCHANGED <<served, part, meta, navFile, flock>>

\* 206 for the range asked: the first byte, the total and the validator are
\* those of the metadata, and the part is opened for appending.
Resumes(a) ==
  /\ attempt[a].pc = "request" /\ attempt[a].at > 0
  /\ \E v \in 1 .. served :
       /\ v = attempt[a].version
       /\ attempt' = [attempt EXCEPT ![a] = [@ EXCEPT !.pc = "body",
                                               !.attached = TRUE, !.sized = TRUE]]
  /\ UNCHANGED <<served, part, meta, navFile, flock>>

\* A 206 that differs in one of them, or an HTML page.
ResumeMismatch(a) ==
  /\ attempt[a].pc = "request"
  /\ part' = <<>> /\ meta' = NoVersion
  /\ Raises(a)
  /\ UNCHANGED <<served, navFile>>

\* 200: everything so far is discarded.  Only a reply with a length and a
\* strong validator gets metadata, written before the part is opened.
StartsAfresh(a) ==
  /\ attempt[a].pc = "request"
  /\ \E v \in 1 .. served, sized, tagged \in BOOLEAN :
       /\ part' = <<>>
       /\ meta' = IF sized /\ tagged THEN v ELSE NoVersion
       /\ attempt' = [attempt EXCEPT ![a] = [@ EXCEPT !.pc = "body", !.at = 0,
                        !.version = v, !.attached = TRUE, !.sized = sized]]
  /\ UNCHANGED <<served, navFile, flock>>

\* A chunk goes to the open file, whether or not it still has its name.
ReceivesChunk(a) ==
  LET me == attempt[a] IN
    /\ me.pc = "body" /\ me.at < Lengths[me.version]
    /\ attempt' = [attempt EXCEPT ![a].at = @ + 1]
    /\ part' = IF me.attached THEN Append(part, <<me.version, me.at + 1>>) ELSE part
    /\ UNCHANGED <<served, meta, navFile, flock>>

\* The transfer is complete, or ends early where no length was told: the
\* bytes under the name are returned, and there may be none.
ReturnsPart(a) ==
  LET me == attempt[a] IN
    /\ me.pc = "body"
    /\ me.sized => me.at = Lengths[me.version]
    /\ IF me.attached
         THEN /\ attempt' = [attempt EXCEPT ![a] = [IdleAttempt EXCEPT
                               !.pc = "returned", !.data = part]]
              /\ flock' = NoAttempt
         ELSE Raises(a)
    /\ UNCHANGED <<served, part, meta, navFile>>

\* An error, a deadline, a truncated transfer, a kill: what was received of
\* it stays for the next attempt.
AttemptFails(a) ==
  /\ attempt[a].pc # "idle"
  /\ Raises(a)
  /\ UNCHANGED <<served, part, meta, navFile>>

\* nav_for, which no longer has the lock: bytes that decompress (and so are
\* a whole version) and hold records near the window are promoted; in any
\* case part and metadata are unlinked then, one after the other.
Validates(a) ==
  /\ attempt[a].pc = "returned"
  /\ \/ /\ \E v \in Versions : attempt[a].data = Whole(v)
        /\ navFile' = attempt[a].data
     \/ UNCHANGED navFile
  /\ attempt' = [attempt EXCEPT ![a] = [IdleAttempt EXCEPT !.pc = "unlink"]]
  /\ UNCHANGED <<served, part, meta, flock>>

UnlinksPart(a) ==
  /\ attempt[a].pc = "unlink"
  /\ part' = <<>>
  /\ attempt' = [b \in Attempts |->
       IF b = a THEN [attempt[b] EXCEPT !.pc = "unlink_meta"]
                ELSE [attempt[b] EXCEPT !.attached = FALSE]]
  /\ UNCHANGED <<served, meta, navFile, flock>>

UnlinksMeta(a) ==
  /\ attempt[a].pc = "unlink_meta"
  /\ meta' = NoVersion
  /\ attempt' = [attempt EXCEPT ![a] = IdleAttempt]
  /\ UNCHANGED <<served, part, navFile, flock>>

TransferSteps(a) ==
  \/ AsksForNav(a) \/ LocksPart(a) \/ Resumes(a) \/ ResumeMismatch(a)
  \/ StartsAfresh(a) \/ ReceivesChunk(a) \/ ReturnsPart(a) \/ AttemptFails(a)
  \/ Validates(a) \/ UnlinksPart(a) \/ UnlinksMeta(a)

TransferNext == Republish \/ \E a \in Attempts : TransferSteps(a)

TransferSpec == TransferInit /\ [][TransferNext]_transferVars

-----------------------------------------------------------------------------
(* Properties *)

\* Whatever the metadata promises to resume, the part holds chunks of that
\* version only: no resumed transfer mixes two versions of the file, although
\* the provider replaces it and a slow attempt unlinks without the lock what
\* another is writing (scripts/ppk_qa_scheduler.py:149).
PartIsOneVersion ==
  meta # NoVersion => \A i \in DOMAIN part : part[i][1] = meta
=============================================================================
