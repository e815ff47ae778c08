---------------------------- MODULE ArtifactSet ----------------------------
(***************************************************************************)
(* Private archives of an execution (internal/artifactset, retention and   *)
(* the captures of workeragent): Pack copies the members of a pinned plan  *)
(* into an archive, Replicate copies archives to a second root, Restore    *)
(* extracts one.  An archive is written under a temporary name, verified,  *)
(* and published by a hard link, which fails if the name is taken.         *)
(*                                                                         *)
(* One archive name in each root and one destination to restore to.        *)
(* Members may change while they are read, also back to bytes they had     *)
(* before, and so may the primary archive; any process may fail or be      *)
(* killed.  A version number stands for bytes and digest; ownership, modes *)
(* and path aliases are not modelled.                                      *)
(***************************************************************************)
EXTENDS Naturals, FiniteSets

CONSTANTS
  Members,      \* 1 .. number of files of the plan
  Packers, Replicators, Restorers,   \* processes of the operator command line
  MaxChanges,   \* bound: changes of members and of the primary archive
  NoFile

ASSUME ArtifactAssumption ==
  /\ IsFiniteSet(Members) /\ Members # {} /\ Members = 1 .. Cardinality(Members)
  /\ Packers \cap Replicators = {} /\ (Packers \cup Replicators) \cap Restorers = {}
  /\ MaxChanges \in Nat
  /\ NoFile \notin Packers \cup Replicators /\ NoFile \notin [Members -> 0 .. MaxChanges + 1]

VARIABLES
  live,      \* [Members -> version of the producer's file]
  content,   \* [Packers \cup Replicators -> the archive file it created]
  temporary, \* archive files that have their temporary name
  name,      \* [{"primary", "replica"} -> the archive file or NoFile]
  restored,  \* the restore destination: files, or NoFile
  job,       \* [process -> state]
  flock,     \* the holder of the replica root's lock or NoFile
  reports,   \* history: what was reported
  changes

artifactVars == <<live, content, temporary, name, restored, job, flock, reports, changes>>

Writers == Packers \cup Replicators
Jobs == Writers \cup Restorers
Missing == MaxChanges + 1
Empty == [m \in Members |-> Missing]
IdleJob == [pc |-> "idle", pinned |-> Empty, at |-> 1, exists |-> FALSE, moment |-> FALSE, returned |-> FALSE]
AfterLast(m) == m + 1 \notin Members

Step(j, pc) == job' = [job EXCEPT ![j].pc = pc]
(* The next member, or the next phase from the first member on. *)
Advance(j, here, next) ==
  LET m == job[j].at IN
  job' = [job EXCEPT ![j].at = IF AfterLast(m) THEN 1 ELSE m + 1,
                     ![j].pc = IF AfterLast(m) THEN next ELSE here,
                     ![j].moment = IF here = "copy" /\ AfterLast(m) THEN live = job[j].pinned ELSE @]
Still == UNCHANGED <<live, changes>>

(* walk: regular, with a single link, and every byte of the digest. *)
Links(f) == (IF f \in temporary THEN 1 ELSE 0) + Cardinality({n \in DOMAIN name : name[n] = f})
Verify(f, digest) == f # NoFile /\ Links(f) = 1 /\ content[f] = digest

-----------------------------------------------------------------------------
(* Pack, within a capture. *)

(* copyExact, or a digest of the whole stable file: as the plan says. *)
copyExact(p, m) == live[m] = job[p].pinned[m]

CaptureBegin(p) ==
  /\ job[p].pc = "idle" /\ content[p] = Empty
  /\ name["primary"] = NoFile
  /\ job' = [job EXCEPT ![p] = [IdleJob EXCEPT !.pc = "pin"]]
  /\ UNCHANGED <<content, temporary, name, restored, flock, reports>> /\ Still

(* The records are inspected, then the dependencies: the plan pins their   *)
(* digests one after the other.                                            *)
capturePrivateDependency(p) ==
  LET m == job[p].at IN
  /\ job[p].pc = "pin"
  /\ job' = [job EXCEPT ![p].pinned[m] = live[m], ![p].at = IF AfterLast(m) THEN 1 ELSE m + 1,
                         ![p].pc = IF AfterLast(m) THEN "inputs" ELSE "pin"]
  /\ UNCHANGED <<content, temporary, name, restored, flock, reports>> /\ Still

(* VerifyInputs, member by member; then the temporary file. *)
VerifyInputs(p) ==
  /\ job[p].pc = "inputs"
  /\ copyExact(p, job[p].at)
  /\ Advance(p, "inputs", "copy")
  /\ temporary' = IF AfterLast(job[p].at) THEN temporary \cup {p} ELSE temporary
  /\ UNCHANGED <<content, name, restored, flock, reports>> /\ Still

(* The bytes written have the declared digest. *)
PackCopy(p) ==
  LET m == job[p].at IN
  /\ job[p].pc = "copy" /\ p \in Packers
  /\ copyExact(p, m)
  /\ content' = [content EXCEPT ![p][m] = live[m]]
  /\ Advance(p, "copy", "reread")
  /\ UNCHANGED <<temporary, name, restored, flock, reports>> /\ Still

(* Every source is read again after the capture. *)
PackReread(p) ==
  /\ job[p].pc = "reread"
  /\ copyExact(p, job[p].at)
  /\ Advance(p, "reread", "check")
  /\ UNCHANGED <<content, temporary, name, restored, flock, reports>> /\ Still

(* Mutant of CheckTemporary: what was copied is not read back. *)
TrustCopy(j) ==
  /\ job[j].pc = "check"
  /\ Step(j, "link")
  /\ UNCHANGED <<content, temporary, name, restored, flock, reports>> /\ Still

(* The independent readback of the temporary file. *)
CheckTemporary(j) ==
  /\ job[j].pc = "check"
  /\ Verify(j, job[j].pinned)
  /\ Step(j, "link")
  /\ UNCHANGED <<content, temporary, name, restored, flock, reports>> /\ Still

Destination(j) == IF j \in Packers THEN "primary" ELSE "replica"

(* Link fails if the name exists; then the temporary name goes. *)
LinkFinal(j) ==
  /\ job[j].pc = "link"
  /\ name[Destination(j)] = NoFile
  /\ name' = [name EXCEPT ![Destination(j)] = j]
  /\ Step(j, "unlink")
  /\ UNCHANGED <<content, temporary, restored, flock, reports>> /\ Still

UnlinkTemporary(j) ==
  /\ job[j].pc = "unlink"
  /\ temporary' = temporary \ {j}
  /\ Step(j, "final")
  /\ UNCHANGED <<content, name, restored, flock, reports>> /\ Still

(* The last member is a dependency such as the runtime binary, which is    *)
(* not read again; the records are.                                        *)
Reinspected(p) == \A m \in Members : AfterLast(m) \/ copyExact(p, m)

(* The published archive is read; a capture inspects the records again. *)
PackFinal(p) ==
  /\ job[p].pc = "final" /\ p \in Packers
  /\ Verify(name["primary"], job[p].pinned)
  /\ Reinspected(p)
  /\ reports' = reports \cup {[kind |-> "pack", by |-> p, digest |-> job[p].pinned,
                               moment |-> job[p].moment, returned |-> job[p].returned]}
  /\ job' = [job EXCEPT ![p] = IdleJob]
  /\ UNCHANGED <<content, temporary, name, restored, flock>> /\ Still

-----------------------------------------------------------------------------
(* Replicate. *)

Anchored == {r.digest : r \in {x \in reports : x.kind = "pack"}}

(* The configuration pins the digest of a reported archive; one sweep of   *)
(* the replica root at a time.                                             *)
SweepBegin(r, digest) ==
  /\ job[r].pc = "idle" /\ content[r] = Empty
  /\ flock = NoFile
  /\ flock' = r
  /\ job' = [job EXCEPT ![r] = [IdleJob EXCEPT !.pc = "primary", !.pinned = digest]]
  /\ UNCHANGED <<content, temporary, name, restored, reports>> /\ Still

(* The primary must verify; an existing replica must too, and is kept. *)
SweepVerify(r) ==
  /\ job[r].pc = "primary"
  /\ Verify(name["primary"], job[r].pinned)
  /\ \/ name["replica"] = NoFile /\ Step(r, "copy") /\ temporary' = temporary \cup {r}
     \/ /\ Verify(name["replica"], job[r].pinned)
        /\ job' = [job EXCEPT ![r].pc = "final", ![r].exists = TRUE]
        /\ UNCHANGED temporary
  /\ UNCHANGED <<content, name, restored, flock, reports>> /\ Still

(* copyArchive: a stream, its digest compared at the end (CheckTemporary). *)
SweepCopy(r) ==
  LET m == job[r].at
      f == name["primary"]
  IN
  /\ job[r].pc = "copy" /\ r \in Replicators
  /\ content' = [content EXCEPT ![r][m] = content[f][m]]
  /\ Advance(r, "copy", "check")
  /\ UNCHANGED <<temporary, name, restored, flock, reports>> /\ Still

(* A new replica and its primary are verified once more. *)
SweepFinal(r) ==
  /\ job[r].pc = "final" /\ r \in Replicators
  /\ ~job[r].exists => \A n \in DOMAIN name : Verify(name[n], job[r].pinned)
  /\ reports' = reports \cup {[kind |-> "replica", by |-> name["replica"], digest |-> job[r].pinned,
                               moment |-> TRUE, returned |-> FALSE]}
  /\ job' = [job EXCEPT ![r] = IdleJob]
  /\ flock' = NoFile
  /\ UNCHANGED <<content, temporary, name, restored>> /\ Still

-----------------------------------------------------------------------------
(* Restore, from either root. *)

RestoreBegin(x, n, digest) ==
  /\ job[x].pc = "idle"
  /\ Verify(name[n], digest)
  /\ job' = [job EXCEPT ![x] = [IdleJob EXCEPT !.pc = "mkdir", !.pinned = digest]]
  /\ UNCHANGED <<content, temporary, name, restored, flock, reports>> /\ Still

RestoreMkdir(x) ==
  /\ job[x].pc = "mkdir"
  /\ restored = NoFile
  /\ restored' = Empty
  /\ Step(x, "extract")
  /\ UNCHANGED <<content, temporary, name, flock, reports>> /\ Still

(* Each member must have the digest of the manifest, which the archive     *)
(* digest pins; the destination file must be new.                          *)
RestoreExtract(x, n) ==
  LET m == job[x].at IN
  /\ job[x].pc = "extract"
  /\ name[n] # NoFile /\ content[name[n]][m] = job[x].pinned[m]
  /\ restored[m] = Missing
  /\ restored' = [restored EXCEPT ![m] = content[name[n]][m]]
  /\ Advance(x, "extract", "readback")
  /\ UNCHANGED <<content, temporary, name, flock, reports>> /\ Still

(* Every restored byte is read back, and no extra path. *)
RestoreReadback(x) ==
  /\ job[x].pc = "readback"
  /\ restored = job[x].pinned
  /\ reports' = reports \cup {[kind |-> "restore", by |-> NoFile, digest |-> job[x].pinned,
                               moment |-> TRUE, returned |-> FALSE]}
  /\ job' = [job EXCEPT ![x] = IdleJob]
  /\ UNCHANGED <<content, temporary, name, restored, flock>> /\ Still

-----------------------------------------------------------------------------
(* Failures.  A failing writer removes its temporary name, never the final *)
(* one; a killed one leaves both.  A partial restore stays.                *)
JobFails(j) ==
  /\ job[j].pc # "idle"
  /\ temporary' \in {temporary, temporary \ {j}}
  /\ job' = [job EXCEPT ![j] = IdleJob]
  /\ flock' = IF flock = j THEN NoFile ELSE flock
  /\ UNCHANGED <<content, name, restored, reports>> /\ Still

(* A producer writes a member: new bytes, or bytes it had before.  Each    *)
(* reading opens the file anew and compares digests, so a member that has  *)
(* its pinned bytes again when it is read a second time passes; "returned" *)
(* remembers that this happened (history only).                            *)
MemberChanges(m, v) ==
  /\ changes < MaxChanges /\ v # live[m]
  /\ changes' = changes + 1
  /\ live' = [live EXCEPT ![m] = v]
  /\ job' = [j \in Jobs |->
               IF job[j].pc = "reread" /\ m >= job[j].at /\ job[j].pinned[m] = v
               THEN [job[j] EXCEPT !.returned = TRUE] ELSE job[j]]
  /\ UNCHANGED <<content, temporary, name, restored, flock, reports>>

(* Something writes the primary archive. *)
PrimaryChanges(m) ==
  /\ changes < MaxChanges /\ name["primary"] # NoFile
  /\ changes' = changes + 1
  /\ content' = [content EXCEPT ![name["primary"]][m] = Missing]
  /\ UNCHANGED <<live, temporary, name, restored, job, flock, reports>>

(* The operator removes a temporary name that no process uses. *)
Reconcile(j) ==
  /\ j \in temporary /\ job[j].pc = "idle"
  /\ temporary' = temporary \ {j}
  /\ UNCHANGED <<live, content, name, restored, job, flock, reports, changes>>

ArtifactInit ==
  /\ live = [m \in Members |-> 0]
  /\ content = [j \in Writers |-> Empty] /\ temporary = {}
  /\ name = [n \in {"primary", "replica"} |-> NoFile]
  /\ restored = NoFile
  /\ job = [j \in Jobs |-> IdleJob]
  /\ flock = NoFile /\ reports = {} /\ changes = 0

ArtifactNext ==
  \/ \E p \in Packers : CaptureBegin(p) \/ capturePrivateDependency(p) \/ VerifyInputs(p) \/ PackCopy(p) \/ PackReread(p) \/ PackFinal(p)
  \/ \E j \in Writers : CheckTemporary(j) \/ LinkFinal(j) \/ UnlinkTemporary(j) \/ Reconcile(j)
  \/ \E r \in Replicators :
       (\E d \in Anchored : SweepBegin(r, d)) \/ SweepVerify(r) \/ SweepCopy(r) \/ SweepFinal(r)
  \/ \E x \in Restorers :
       \/ \E n \in DOMAIN name : (\E d \in Anchored : RestoreBegin(x, n, d)) \/ RestoreExtract(x, n)
       \/ RestoreMkdir(x) \/ RestoreReadback(x)
  \/ \E j \in Jobs : JobFails(j)
  \/ \E m \in Members : (\E v \in 0 .. changes + 1 : MemberChanges(m, v)) \/ PrimaryChanges(m)

ArtifactSpec == ArtifactInit /\ [][ArtifactNext]_artifactVars

-----------------------------------------------------------------------------
(* A capture that was reported is a snapshot: when the copy ended, every   *)
(* member had the bytes the archive has, although producers wrote before,  *)
(* during and after the copy.  The one exception is a member that had      *)
(* changed by then and was written back to its pinned bytes before it was  *)
(* read the second time, which no comparison of digests notices.  A        *)
(* replica, reported or left by a killed sweep, has the bytes of a         *)
(* reported capture, whatever happened to the primary during the copy, and *)
(* so has a destination that was reported restored.                        *)
RetainedIsTrue ==
  /\ \A r \in reports : r.moment \/ r.returned
  /\ name["replica"] # NoFile => content[name["replica"]] \in Anchored
  /\ \A r \in reports : r.kind = "restore" => restored = r.digest
=============================================================================
