------------------------- MODULE PreparedWorkspace -------------------------
(***************************************************************************)
(* Preparing the workspace of a run (workeragent.PrepareOnce, preparation, *)
(* workspace, contextbundle, sourcecheckpoint.Restore) and reopening it    *)
(* for execution.                                                          *)
(*                                                                         *)
(* Every claim of the run has its own lease generation and therefore its   *)
(* own slot directory; the context bundle is named after the run input and *)
(* shared by all of them.  A process may die at any step and any step may  *)
(* fail.  WorkerLane models the leases; here the lease of a claim may be   *)
(* lost at any time.                                                       *)
(***************************************************************************)
EXTENDS Naturals, FiniteSets

CONSTANTS
  Claims,        \* claims of the one run input, each by a process of its own
  Entries,       \* 1 .. number of context references
  Continuation,  \* the input continues a retained checkpoint
  NoClaim

ASSUME PreparedAssumption ==
  /\ NoClaim \notin Claims
  /\ IsFiniteSet(Entries) /\ Entries = 1 .. Cardinality(Entries)
  /\ Continuation \in BOOLEAN

VARIABLES
  slot,      \* [Claims -> the directory of the slot]
  bundle,    \* entries of the published bundle; {} when there is none
  stage,     \* [Claims -> entries written to its staging directory]
  lockFile,  \* the bundle's lock file: the claim that created it, or NoClaim
  host,      \* approval, context source and continuation archive as found
  lease,     \* claims whose lease is live
  receipts,  \* claims whose preparation Core has acknowledged
  prep       \* [Claims -> PrepareOnce, then the execution's Reopen]

preparedVars == <<slot, bundle, stage, lockFile, host, lease, receipts, prep>>

(* tree: "none", "base", "moving" (between the renames) or "seed". *)
NoSlot == [dir |-> FALSE, owner |-> FALSE, tree |-> "none", restored |-> "none", prepared |-> FALSE]
PreparePCs == {"create", "owner", "restore", "adopt", "owned", "lock", "look", "entry", "publish", "unlock",
               "verify", "record"}
WantedTree == IF Continuation THEN "seed" ELSE "base"

Goto(c, pc) == prep' = [prep EXCEPT ![c] = pc]
SlotIs(c, s) == slot' = [slot EXCEPT ![c] = s]
Bundles == <<bundle, stage, lockFile>>
World == <<host, lease, receipts>>

-----------------------------------------------------------------------------
(* Manager.Create, Restore and AdoptRestoredSource. *)

(* The input is approved in the operator's snapshot that the process has   *)
(* loaded, with an archive if it continues a checkpoint.                   *)
Approved == host.approved /\ (Continuation => host.archive)

(* PrepareOnce: claimed and renewed; the slot is made exclusively. *)
CreateSlot(c) ==
  /\ prep[c] = "create"
  /\ c \in lease /\ Approved
  /\ ~slot[c].dir
  /\ SlotIs(c, [NoSlot EXCEPT !.dir = TRUE])
  /\ Goto(c, "owner")
  /\ UNCHANGED <<Bundles, World>>

(* The base commit is fetched, checked out and digested; owner.json last. *)
WriteOwner(c) ==
  /\ prep[c] = "owner"
  /\ SlotIs(c, [slot[c] EXCEPT !.owner = TRUE, !.tree = "base"])
  /\ Goto(c, IF Continuation THEN "restore" ELSE "lock")
  /\ UNCHANGED <<Bundles, World>>

(* readArchive: every entry of the archive has its bytes. *)
readArchive == host.archive
(* It is the archive of the frozen task and profile the input continues. *)
VerifyContinuationArchive == readArchive

(* RestoreContinuationSource: all bytes are verified, then written below   *)
(* INCOMPLETE, which goes last.                                            *)
RestoreSource(c) ==
  /\ prep[c] = "restore"
  /\ \/ /\ slot[c].restored = "none" /\ VerifyContinuationArchive
        /\ SlotIs(c, [slot[c] EXCEPT !.restored = "incomplete"]) /\ UNCHANGED prep
     \/ /\ slot[c].restored = "incomplete" /\ readArchive
        /\ SlotIs(c, [slot[c] EXCEPT !.restored = "whole"]) /\ Goto(c, "adopt")
  /\ UNCHANGED <<Bundles, World>>

(* AdoptRestoredSource: three renames, the digest is that of before; then  *)
(* the owner record that names the seed replaces the first.                *)
AdoptRestoredSource(c) ==
  /\ prep[c] = "adopt"
  /\ slot[c].restored = "whole" /\ slot[c].tree = "base" /\ ~slot[c].prepared
  /\ SlotIs(c, [slot[c] EXCEPT !.tree = "moving"])
  /\ Goto(c, "owned")
  /\ UNCHANGED <<Bundles, World>>

ReplaceOwner(c) ==
  /\ prep[c] = "owned"
  /\ SlotIs(c, [slot[c] EXCEPT !.tree = "seed"])
  /\ Goto(c, "lock")
  /\ UNCHANGED <<Bundles, World>>

-----------------------------------------------------------------------------
(* Materialize, under the lock file. *)

MaterializeLock(c) ==
  /\ prep[c] = "lock"
  /\ lockFile = NoClaim
  /\ lockFile' = c
  /\ Goto(c, "look")
  /\ UNCHANGED <<slot, bundle, stage, World>>

(* A bundle that exists is only verified. *)
MaterializeLook(c) ==
  /\ prep[c] = "look"
  /\ Goto(c, IF bundle # {} THEN "unlock" ELSE "entry")
  /\ UNCHANGED <<slot, Bundles, World>>

(* Entries in order; the bytes must have the digest of the reference. *)
writeEntry(c, e) ==
  /\ prep[c] = "entry"
  /\ {d \in Entries : d < e} = stage[c] /\ host.context
  /\ stage' = [stage EXCEPT ![c] = @ \cup {e}]
  /\ Goto(c, IF e + 1 \in Entries THEN "entry" ELSE "publish")
  /\ UNCHANGED <<slot, bundle, lockFile, World>>

(* The manifest, then the rename of the whole staging directory. *)
MaterializePublish(c) ==
  /\ prep[c] = "publish"
  /\ bundle' = stage[c] /\ stage' = [stage EXCEPT ![c] = {}]
  /\ Goto(c, "unlock")
  /\ UNCHANGED <<slot, lockFile, World>>

MaterializeUnlock(c) ==
  /\ prep[c] = "unlock"
  /\ lockFile' = NoClaim
  /\ Goto(c, "verify")
  /\ UNCHANGED <<slot, bundle, stage, World>>

-----------------------------------------------------------------------------
(* The rest of PrepareWithSource and PrepareOnce. *)

(* Verify reads every entry. *)
VerifyBundle == bundle = Entries
(* snapshotDigest: every path and byte of the source tree. *)
snapshotDigest(c) == slot[c].tree
(* IsClean: the source is as the owner record says. *)
IsClean(c) == slot[c].owner /\ snapshotDigest(c) = WantedTree

PrepareVerify(c) ==
  /\ prep[c] = "verify"
  /\ VerifyBundle /\ IsClean(c)
  /\ Goto(c, "record")
  /\ UNCHANGED <<slot, Bundles, World>>

(* prepared.json, exclusively. *)
WritePrepared(c) ==
  /\ prep[c] = "record"
  /\ ~slot[c].prepared
  /\ SlotIs(c, [slot[c] EXCEPT !.prepared = TRUE])
  /\ Goto(c, "renew")
  /\ UNCHANGED <<Bundles, World>>

(* The renew loop is joined, the lease renewed once more, all rechecked. *)
RenewAndRecheck(c) ==
  /\ prep[c] = "renew"
  /\ c \in lease
  /\ VerifyBundle /\ IsClean(c)
  /\ Goto(c, "report")
  /\ UNCHANGED <<slot, Bundles, World>>

(* Up to two identical reports; Core takes them under the live lease.      *)
ReportPrepared(c) ==
  /\ prep[c] = "report"
  /\ \/ c \in lease /\ receipts' = receipts \cup {c} /\ Goto(c, "done")
     \/ UNCHANGED <<receipts, prep>>
  /\ UNCHANGED <<slot, Bundles, host, lease>>

(* Mutant of ReportFails: an error of the report cleans up like the others. *)
CleanAfterReport(c) ==
  /\ prep[c] = "report"
  /\ receipts' \in {receipts, IF c \in lease THEN receipts \cup {c} ELSE receipts}
  /\ Goto(c, "cleanup")
  /\ UNCHANGED <<slot, Bundles, host, lease>>

(* The report fails for the worker, applied or not: the slot is kept. *)
ReportFails(c) ==
  /\ prep[c] = "report"
  /\ receipts' \in {receipts, IF c \in lease THEN receipts \cup {c} ELSE receipts}
  /\ Goto(c, "failed")
  /\ UNCHANGED <<slot, Bundles, host, lease>>

(* A step fails, a renewal fails or the budget is spent: Materialize drops *)
(* its staging directory and its lock file, if that does not fail too,     *)
(* then the slot is cleaned.                                               *)
PrepareFails(c) ==
  /\ prep[c] \in PreparePCs \cup {"renew"}
  /\ stage' = [stage EXCEPT ![c] = {}]
  /\ lockFile' \in {lockFile, IF lockFile = c THEN NoClaim ELSE lockFile}
  /\ Goto(c, IF slot[c].dir THEN "cleanup" ELSE "failed")
  /\ UNCHANGED <<slot, bundle, World>>

(* cleanupIncompleteCreate or cleanupManaged: the contents go first, the   *)
(* owner record and the empty directory last; what fails is left.          *)
CleanupContents(c) ==
  /\ prep[c] = "cleanup"
  /\ \/ SlotIs(c, [NoSlot EXCEPT !.dir = TRUE, !.owner = slot[c].owner]) /\ Goto(c, "remove")
     \/ SlotIs(c, [slot[c] EXCEPT !.tree = "none", !.prepared = FALSE]) /\ Goto(c, "failed")
     \/ UNCHANGED slot /\ Goto(c, "failed")
  /\ UNCHANGED <<Bundles, World>>

CleanupRemove(c) ==
  /\ prep[c] = "remove"
  /\ slot' \in {slot, [slot EXCEPT ![c] = NoSlot]}
  /\ Goto(c, "failed")
  /\ UNCHANGED <<Bundles, World>>

(* The process dies: lock file and staging directory stay behind. *)
PreparerDies(c) ==
  /\ prep[c] \notin {"idle", "done", "failed", "opened"}
  /\ Goto(c, "failed")
  /\ UNCHANGED <<slot, Bundles, World>>

-----------------------------------------------------------------------------
(* Reopen, by the execution that a receipt admits. *)

Reopenable(c) == slot[c].prepared /\ VerifyBundle /\ IsClean(c)

Reopen(c) ==
  /\ c \in receipts /\ prep[c] \in {"done", "failed"}
  /\ host.approved /\ Reopenable(c)
  /\ Goto(c, "opened")
  /\ UNCHANGED <<slot, Bundles, World>>

(* The run input is claimed; an earlier lease of it has ended. *)
ClaimRun(c) ==
  /\ prep[c] = "idle"
  /\ lease = {} /\ receipts = {}
  /\ lease' = {c}
  /\ Goto(c, "create")
  /\ UNCHANGED <<slot, Bundles, host, receipts>>

LeaseEnds(c) ==
  /\ c \in lease
  /\ lease' = lease \ {c}
  /\ UNCHANGED <<slot, Bundles, host, receipts, prep>>

(* The operator's snapshot, the context source or the archive changes. *)
HostChanges(f) ==
  /\ host[f]
  /\ host' = [host EXCEPT ![f] = FALSE]
  /\ UNCHANGED <<slot, Bundles, lease, receipts, prep>>

PreparedInit ==
  /\ slot = [c \in Claims |-> NoSlot]
  /\ bundle = {} /\ stage = [c \in Claims |-> {}] /\ lockFile = NoClaim
  /\ host = [approved |-> TRUE, context |-> TRUE, archive |-> TRUE]
  /\ lease = {} /\ receipts = {}
  /\ prep = [c \in Claims |-> "idle"]

PreparedNext ==
  \/ \E c \in Claims :
       \/ ClaimRun(c) \/ LeaseEnds(c) \/ CreateSlot(c) \/ WriteOwner(c) \/ RestoreSource(c)
       \/ AdoptRestoredSource(c) \/ ReplaceOwner(c)
       \/ MaterializeLock(c) \/ MaterializeLook(c) \/ (\E e \in Entries : writeEntry(c, e))
       \/ MaterializePublish(c) \/ MaterializeUnlock(c)
       \/ PrepareVerify(c) \/ WritePrepared(c) \/ RenewAndRecheck(c) \/ ReportPrepared(c) \/ ReportFails(c)
       \/ PrepareFails(c) \/ CleanupContents(c) \/ CleanupRemove(c) \/ PreparerDies(c) \/ Reopen(c)
  \/ \E f \in DOMAIN host : HostChanges(f)

PreparedSpec == PreparedInit /\ [][PreparedNext]_preparedVars

-----------------------------------------------------------------------------
(* A preparation that Core acknowledged stands on the worker's disk: its   *)
(* slot is owned, has its record and the wanted source, and the shared     *)
(* bundle is whole, whoever published it and whatever became of the other  *)
(* claims and of the worker that reported it.  So only a withdrawn         *)
(* approval can keep it from being reopened.  And a bundle, acknowledged   *)
(* or not, has every entry with its approved bytes, also when the context  *)
(* source changed between two entries or two claims.                       *)
AcknowledgedStands ==
  /\ \A c \in receipts : Reopenable(c)
  /\ bundle \in {{}, Entries}
=============================================================================
