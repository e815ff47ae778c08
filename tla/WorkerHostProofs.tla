-------------------------- MODULE WorkerHostProofs --------------------------
(***************************************************************************)
(* What a worker host promises: a preparation that Core acknowledged, an   *)
(* archive that was reported retained and a release that was reported      *)
(* installed or is active stay what they were said to be, for any number of*)
(* processes, members, entries and releases.  PreparedInv, ArtifactInv and *)
(* ReleaseInv are the inductive invariants.                                *)
(***************************************************************************)
EXTENDS PreparedWorkspace, ArtifactSet, Release, FiniteSetTheorems, TLAPS

(* PreparedWorkspace. *)

(* The states of a preparation, of its slot directory and of what is below it. *)
PreparerPCs == PreparePCs \cup {"idle", "renew", "report", "done", "failed", "cleanup", "remove", "opened"}
SlotTrees == {"none", "base", "moving", "seed"}
Slots == [dir : BOOLEAN, owner : BOOLEAN, tree : SlotTrees, restored : {"none", "incomplete", "whole"},
          prepared : BOOLEAN]

PreparedTypeOK ==
  /\ slot \in [Claims -> Slots]
  /\ bundle \subseteq Entries
  /\ stage \in [Claims -> SUBSET Entries]
  /\ lockFile \in Claims \cup {NoClaim}
  /\ receipts \subseteq Claims
  /\ prep \in [Claims -> PreparerPCs]

(* Between the lock file's creation and its removal it names the claim. *)
LockIsMine == \A c \in Claims : prep[c] \in {"look", "entry", "publish", "unlock"} => lockFile = c

(* Only a whole staging directory is published, so a bundle is whole. *)
BundleIsWhole ==
  /\ \A c \in Claims : prep[c] = "publish" => stage[c] = Entries
  /\ bundle \in {{}, Entries}

(* From the verification on, the claim's own slot and the bundle stand. *)
VerifiedStands ==
  \A c \in Claims :
    /\ prep[c] \in {"record", "renew", "report"} => VerifyBundle /\ IsClean(c)
    /\ prep[c] \in {"renew", "report"} => slot[c].prepared

(* A claim with a receipt has left everything that changes its slot. *)
ReceiptStands == \A c \in receipts : prep[c] \in {"done", "failed", "opened"} /\ Reopenable(c)

PreparedInv == PreparedTypeOK /\ LockIsMine /\ BundleIsWhole /\ VerifiedStands /\ ReceiptStands

(* The constants. *)
LEMMA PreparedFacts ==
  /\ \E n \in Nat : Entries = 1 .. n
  /\ NoClaim \notin Claims /\ Continuation \in BOOLEAN
<1>1. PICK n : n = Cardinality(Entries)
  OBVIOUS
<1>2. n \in Nat
  BY <1>1, PreparedAssumption, FS_CardinalityType
<1>3. Entries = 1 .. n
  BY <1>1, PreparedAssumption
<1>4. n \in Nat
  BY <1>2, <1>3
<1>5. NoClaim \notin Claims /\ Continuation \in BOOLEAN
  BY PreparedAssumption
<1>6. QED BY <1>2, <1>3, <1>4, <1>5

(* Nothing is prepared at first. *)
LEMMA PreparedInitially == PreparedInit => PreparedInv
  BY PreparedFacts DEF PreparedInit, PreparedInv, PreparedTypeOK, LockIsMine, BundleIsWhole, VerifiedStands,
     ReceiptStands,
     NoSlot, Slots, SlotTrees, PreparerPCs

(* The first steps, up to the lock: only the slot and the pc of c change. *)
LEMMA SlotSteps ==
  ASSUME PreparedInv, NEW c \in Claims,
         ClaimRun(c) \/ CreateSlot(c) \/ WriteOwner(c) \/ RestoreSource(c) \/ AdoptRestoredSource(c)
         \/ ReplaceOwner(c) \/ CleanupContents(c) \/ CleanupRemove(c) \/ PreparerDies(c)
  PROVE  PreparedInv'
<1> USE DEF PreparedInv, PreparedTypeOK
<1>1. /\ prep' = [prep EXCEPT ![c] = prep'[c]] /\ prep'[c] \in PreparerPCs
      /\ prep'[c] \notin {"look", "entry", "publish", "unlock", "record", "renew", "report"}
      /\ slot' \in [Claims -> Slots]
      /\ \A d \in Claims : d # c => slot'[d] = slot[d]
      /\ c \notin receipts
      /\ UNCHANGED <<bundle, stage, lockFile, receipts>>
  <2>1. CASE ClaimRun(c)
    BY <2>1 DEF ClaimRun, Goto, Bundles, PreparerPCs, PreparePCs, ReceiptStands
  <2>2. CASE CreateSlot(c)
    <3>1. PICK n : n = NoSlot
      OBVIOUS
    <3>2. PICK m : m = [n EXCEPT !.dir = TRUE]
      OBVIOUS
    <3>3. m \in Slots
      BY <3>1, <3>2 DEF NoSlot, Slots, SlotTrees
    <3>4. /\ prep[c] = "create" /\ slot' = [slot EXCEPT ![c] = m] /\ prep' = [prep EXCEPT ![c] = "owner"]
          /\ UNCHANGED <<bundle, stage, lockFile, receipts>>
      BY <2>2, <3>1, <3>2 DEF CreateSlot, Goto, SlotIs, Bundles, World
    <3>5. c \notin receipts
      BY <3>4 DEF ReceiptStands
    <3>6. QED BY <3>3, <3>4, <3>5 DEF PreparerPCs, PreparePCs
  <2>3. CASE WriteOwner(c)
    <3>1. PICK x \in Slots : x = slot[c]
      OBVIOUS
    <3>2. PICK m : m = [x EXCEPT !.owner = TRUE, !.tree = "base"]
      OBVIOUS
    <3>3. m \in Slots
      BY <3>2 DEF Slots, SlotTrees
    <3>4. PICK pc \in {"restore", "lock"} : prep' = [prep EXCEPT ![c] = pc]
      BY <2>3 DEF WriteOwner, Goto
    <3>5. prep[c] = "owner" /\ slot' = [slot EXCEPT ![c] = m] /\ UNCHANGED <<bundle, stage, lockFile, receipts>>
      BY <2>3, <3>1, <3>2 DEF WriteOwner, SlotIs, Bundles, World
    <3>6. c \notin receipts
      BY <3>5 DEF ReceiptStands
    <3>7. QED BY <3>3, <3>4, <3>5, <3>6 DEF PreparerPCs, PreparePCs
  <2>4. CASE RestoreSource(c)
    BY <2>4 DEF RestoreSource, Goto, SlotIs, Bundles, World, PreparerPCs, PreparePCs, ReceiptStands, Slots, SlotTrees
  <2>5. CASE AdoptRestoredSource(c)
    BY <2>5 DEF AdoptRestoredSource, Goto, SlotIs, Bundles, World, PreparerPCs, PreparePCs, ReceiptStands,
       Slots, SlotTrees
  <2>6. CASE ReplaceOwner(c)
    BY <2>6 DEF ReplaceOwner, Goto, SlotIs, Bundles, World, PreparerPCs, PreparePCs, ReceiptStands, Slots, SlotTrees
  <2>7. CASE CleanupContents(c)
    <3>1. /\ prep[c] = "cleanup" /\ prep' \in {[prep EXCEPT ![c] = "remove"], [prep EXCEPT ![c] = "failed"]}
          /\ UNCHANGED <<bundle, stage, lockFile, receipts>>
          /\ \/ slot' = [slot EXCEPT ![c] = [NoSlot EXCEPT !.dir = TRUE, !.owner = slot[c].owner]]
             \/ slot' = [slot EXCEPT ![c] = [slot[c] EXCEPT !.tree = "none", !.prepared = FALSE]]
             \/ slot' = slot
      BY <2>7 DEF CleanupContents, Goto, SlotIs, Bundles, World
    <3>2. slot' \in [Claims -> Slots] /\ \A d \in Claims : d # c => slot'[d] = slot[d]
      <4>1. PICK n : n = NoSlot
        OBVIOUS
      <4>2. [NoSlot EXCEPT !.dir = TRUE, !.owner = slot[c].owner] \in Slots
        <5>1. n \in Slots
          BY <4>1 DEF NoSlot, Slots, SlotTrees
        <5>2. [n EXCEPT !.dir = TRUE, !.owner = slot[c].owner] \in Slots
          BY <5>1 DEF Slots
        <5>3. QED BY <4>1, <5>2
      <4>3. [slot[c] EXCEPT !.tree = "none", !.prepared = FALSE] \in Slots
        BY DEF Slots, SlotTrees
      <4>4. QED BY <3>1, <4>2, <4>3
    <3>3. c \notin receipts
      BY <3>1 DEF ReceiptStands
    <3>4. prep' = [prep EXCEPT ![c] = prep'[c]] /\ prep'[c] \in {"remove", "failed"}
      BY <3>1
    <3>5. QED BY <3>1, <3>2, <3>3, <3>4 DEF PreparerPCs
  <2>8. CASE CleanupRemove(c)
    <3>1. /\ prep[c] = "remove" /\ prep' = [prep EXCEPT ![c] = "failed"]
          /\ UNCHANGED <<bundle, stage, lockFile, receipts>>
          /\ slot' = slot \/ slot' = [slot EXCEPT ![c] = NoSlot]
      BY <2>8 DEF CleanupRemove, Goto, Bundles, World
    <3>2. slot' \in [Claims -> Slots] /\ \A d \in Claims : d # c => slot'[d] = slot[d]
      <4>1. NoSlot \in Slots
        BY DEF NoSlot, Slots, SlotTrees
      <4>2. QED BY <3>1, <4>1
    <3>3. c \notin receipts
      BY <3>1 DEF ReceiptStands
    <3>4. prep' = [prep EXCEPT ![c] = prep'[c]] /\ prep'[c] = "failed"
      BY <3>1
    <3>5. QED BY <3>1, <3>2, <3>3, <3>4 DEF PreparerPCs
  <2>9. CASE PreparerDies(c)
    BY <2>9 DEF PreparerDies, Goto, SlotIs, Bundles, World, PreparerPCs, PreparePCs, ReceiptStands
  <2>10. QED BY <2>1, <2>2, <2>3, <2>4, <2>5, <2>6, <2>7, <2>8, <2>9
<1>2. PreparedTypeOK'
  BY <1>1
<1>3. LockIsMine' /\ BundleIsWhole'
  BY <1>1 DEF LockIsMine, BundleIsWhole
<1>4. VerifiedStands' /\ ReceiptStands'
  BY <1>1 DEF VerifiedStands, ReceiptStands, Reopenable, VerifyBundle, IsClean, snapshotDigest
<1>5. QED BY <1>2, <1>3, <1>4

(* The steps under the lock file: of the slots nothing changes, and the    *)
(* bundle only becomes whole.                                              *)
LEMMA BundleSteps ==
  ASSUME PreparedInv, NEW c \in Claims,
         MaterializeLock(c) \/ MaterializeLook(c) \/ (\E e \in Entries : writeEntry(c, e)) \/ MaterializePublish(c)
         \/ MaterializeUnlock(c) \/ PrepareFails(c)
  PROVE  PreparedInv'
<1> USE DEF PreparedInv, PreparedTypeOK
<1> DEFINE Locked == {"look", "entry", "publish", "unlock"}
<1>1. /\ prep' = [prep EXCEPT ![c] = prep'[c]] /\ prep'[c] \in PreparerPCs
      /\ prep'[c] \notin {"record", "renew", "report"}
      /\ c \notin receipts
      /\ UNCHANGED <<slot, receipts>>
      /\ lockFile' \in Claims \cup {NoClaim}
      /\ prep'[c] \in Locked => lockFile' = c
      /\ lockFile' # lockFile => lockFile \in {c, NoClaim}
    BY PreparedFacts DEF MaterializeLock, MaterializeLook, writeEntry, MaterializePublish, MaterializeUnlock,
       PrepareFails,
      Goto, Bundles, World, PreparerPCs, PreparePCs, ReceiptStands, LockIsMine
<1>2. /\ stage' \in [Claims -> SUBSET Entries]
      /\ \A d \in Claims : d # c => stage'[d] = stage[d]
      /\ prep'[c] = "publish" => stage'[c] = Entries
      /\ bundle' \in {bundle, Entries}
  <2>1. CASE \E e \in Entries : writeEntry(c, e)
    <3>1. PICK e \in Entries : writeEntry(c, e) BY <2>1
    <3>2. PICK n \in Nat : Entries = 1 .. n BY PreparedFacts
    <3>3. stage' = [stage EXCEPT ![c] = {d \in Entries : d < e} \cup {e}] /\ bundle' = bundle
      BY <3>1 DEF writeEntry
    <3>4. prep'[c] = "publish" => e = n
      BY <3>1, <3>2 DEF writeEntry, Goto
    <3>5. e = n => {d \in Entries : d < e} \cup {e} = Entries
      BY <3>2
    <3>6. QED BY <3>3, <3>4, <3>5
  <2>2. CASE MaterializePublish(c)
    BY <2>2 DEF MaterializePublish, BundleIsWhole, Goto
  <2>3. CASE MaterializeLock(c) \/ MaterializeLook(c) \/ MaterializeUnlock(c) \/ PrepareFails(c)
    BY <2>3 DEF MaterializeLock, MaterializeLook, MaterializeUnlock, PrepareFails, Goto, Bundles, PreparePCs
  <2>4. QED BY <2>1, <2>2, <2>3
<1>3. PreparedTypeOK' 
  BY <1>1, <1>2
<1>4. LockIsMine'
  BY <1>1, PreparedFacts DEF LockIsMine
<1>5. BundleIsWhole'
  BY <1>1, <1>2 DEF BundleIsWhole
<1>6. VerifiedStands' /\ ReceiptStands'
  <2>1. VerifyBundle => VerifyBundle'
    BY <1>2 DEF VerifyBundle
  <2>2. \A d \in Claims : IsClean(d)' = IsClean(d) /\ slot'[d].prepared = slot[d].prepared
    BY <1>1 DEF IsClean, snapshotDigest
  <2>3. QED BY <1>1, <2>1, <2>2 DEF VerifiedStands, ReceiptStands, Reopenable
<1>7. QED BY <1>3, <1>4, <1>5, <1>6

(* The steps from the verification on. *)
LEMMA ReportSteps ==
  ASSUME PreparedInv, NEW c \in Claims,
         PrepareVerify(c) \/ WritePrepared(c) \/ RenewAndRecheck(c) \/ ReportPrepared(c) \/ ReportFails(c) \/ Reopen(c)
  PROVE  PreparedInv'
<1> USE DEF PreparedInv, PreparedTypeOK
<1>1. /\ prep' = [prep EXCEPT ![c] = prep'[c]] /\ prep'[c] \in PreparerPCs
      /\ prep'[c] \notin {"look", "entry", "publish", "unlock"}
      /\ UNCHANGED <<bundle, stage, lockFile>>
      /\ receipts' \in {receipts, receipts \cup {c}}
      /\ c \in receipts' => prep'[c] \in {"done", "failed", "opened"} /\ Reopenable(c)'
      /\ prep'[c] \in {"record", "renew", "report"} => VerifyBundle' /\ IsClean(c)'
      /\ prep'[c] \in {"renew", "report"} => slot'[c].prepared
      /\ slot' \in [Claims -> Slots]
      /\ \A d \in Claims : d # c => slot'[d] = slot[d]
  <2>1. CASE PrepareVerify(c)
    BY <2>1 DEF PrepareVerify, Goto, Bundles, World, PreparerPCs, PreparePCs, ReceiptStands, VerifyBundle,
       IsClean, snapshotDigest
  <2>2. CASE WritePrepared(c)
    <3>1. /\ slot' = [slot EXCEPT ![c] = [slot[c] EXCEPT !.prepared = TRUE]]
          /\ prep' = [prep EXCEPT ![c] = "renew"] /\ prep[c] = "record"
          /\ UNCHANGED <<bundle, stage, lockFile, receipts>>
      BY <2>2 DEF WritePrepared, Goto, SlotIs, Bundles, World
    <3>2. /\ slot' \in [Claims -> Slots] /\ slot'[c].prepared
          /\ slot'[c].owner = slot[c].owner /\ slot'[c].tree = slot[c].tree
      BY <3>1 DEF Slots
    <3>3. VerifyBundle' /\ IsClean(c)'
      BY <3>1, <3>2 DEF VerifiedStands, VerifyBundle, IsClean, snapshotDigest
    <3>4. c \notin receipts
      BY <3>1 DEF ReceiptStands
    <3>5. QED BY <3>1, <3>2, <3>3, <3>4 DEF PreparerPCs
  <2>3. CASE RenewAndRecheck(c)
    BY <2>3 DEF RenewAndRecheck, Goto, Bundles, World, PreparerPCs, PreparePCs, ReceiptStands, VerifiedStands,
       VerifyBundle, IsClean, snapshotDigest
  <2>4. CASE ReportPrepared(c)
    BY <2>4 DEF ReportPrepared, Goto, Bundles, PreparerPCs, PreparePCs, ReceiptStands, VerifiedStands,
       VerifyBundle, IsClean, snapshotDigest, Reopenable
  <2>5. CASE ReportFails(c)
    BY <2>5 DEF ReportFails, Goto, Bundles, PreparerPCs, PreparePCs, ReceiptStands, VerifiedStands,
       VerifyBundle, IsClean, snapshotDigest, Reopenable
  <2>6. CASE Reopen(c)
    BY <2>6 DEF Reopen, Goto, Bundles, World, PreparerPCs, PreparePCs, ReceiptStands, VerifyBundle, IsClean,
       snapshotDigest, Reopenable
  <2>7. QED BY <2>1, <2>2, <2>3, <2>4, <2>5, <2>6
<1>2. PreparedTypeOK'
  BY <1>1
<1>3. LockIsMine' /\ BundleIsWhole'
  BY <1>1 DEF LockIsMine, BundleIsWhole
<1>4. \A d \in Claims : d # c => Reopenable(d)' = Reopenable(d) /\ IsClean(d)' = IsClean(d)
  BY <1>1 DEF Reopenable, VerifyBundle, IsClean, snapshotDigest
<1>5. VerifiedStands'
  BY <1>1, <1>4 DEF VerifiedStands, VerifyBundle
<1>6. ReceiptStands'
  BY <1>1, <1>4 DEF ReceiptStands
<1>7. QED BY <1>2, <1>3, <1>5, <1>6

(* A lease that ends and a host that changes touch nothing that was built. *)
LEMMA EnvironmentSteps ==
  ASSUME PreparedInv, (\E c \in Claims : LeaseEnds(c)) \/ (\E f \in DOMAIN host : HostChanges(f)) \/ UNCHANGED preparedVars
  PROVE  PreparedInv'
<1>1. UNCHANGED <<slot, bundle, stage, lockFile, receipts, prep>>
  BY DEF LeaseEnds, HostChanges, preparedVars, Bundles
<1>2. QED
  BY <1>1 DEF PreparedInv, PreparedTypeOK, LockIsMine, BundleIsWhole, VerifiedStands, ReceiptStands,
     Reopenable, VerifyBundle,
     IsClean, snapshotDigest

(* Every step of a preparation, of its reopening and of the host. *)
LEMMA PreparedStep == PreparedInv /\ [PreparedNext]_preparedVars => PreparedInv'
<1> SUFFICES ASSUME PreparedInv, [PreparedNext]_preparedVars PROVE PreparedInv'
  OBVIOUS
<1>1. CASE UNCHANGED preparedVars \/ \E f \in DOMAIN host : HostChanges(f)
  BY <1>1, EnvironmentSteps
<1>2. ASSUME NEW c \in Claims,
             \/ ClaimRun(c) \/ LeaseEnds(c) \/ CreateSlot(c) \/ WriteOwner(c) \/ RestoreSource(c)
             \/ AdoptRestoredSource(c) \/ ReplaceOwner(c)
             \/ MaterializeLock(c) \/ MaterializeLook(c) \/ (\E e \in Entries : writeEntry(c, e))
             \/ MaterializePublish(c) \/ MaterializeUnlock(c)
             \/ PrepareVerify(c) \/ WritePrepared(c) \/ RenewAndRecheck(c) \/ ReportPrepared(c) \/ ReportFails(c)
             \/ PrepareFails(c) \/ CleanupContents(c) \/ CleanupRemove(c) \/ PreparerDies(c) \/ Reopen(c)
      PROVE PreparedInv'
  BY <1>2, SlotSteps, BundleSteps, ReportSteps, EnvironmentSteps
<1>3. QED BY <1>1, <1>2 DEF PreparedNext

(* What Core was told is prepared is there when the execution opens it:    *)
(* the slot is clean and the shared bundle whole, for any claims of the    *)
(* input and however many of their processes die before or after the       *)
(* report.                                                                 *)
THEOREM AcknowledgedStandsAlways == PreparedSpec => []AcknowledgedStands
<1>1. PreparedInv => AcknowledgedStands
  BY DEF PreparedInv, ReceiptStands, BundleIsWhole, AcknowledgedStands
<1>2. QED BY <1>1, PreparedInitially, PreparedStep, PTL DEF PreparedSpec

-----------------------------------------------------------------------------
(* ArtifactSet. *)

(* The types of an archive's content, of a process and of the names. *)
Bytes == 0 .. MaxChanges + 1
Versions == [Members -> Bytes]
PackPCs == {"idle", "pin", "inputs", "copy", "reread", "check", "link", "unlink", "final"}
SweepPCs == {"idle", "primary", "copy", "check", "link", "unlink", "final"}
RestorePCs == {"idle", "mkdir", "extract", "readback"}
JobPCs == PackPCs \cup SweepPCs \cup RestorePCs
Job == [pc : JobPCs, pinned : Versions, at : Members, exists : BOOLEAN, moment : BOOLEAN, returned : BOOLEAN]
ArtReport == [kind : {"pack", "replica", "restore"}, by : Writers \cup {NoFile}, digest : Versions,
              moment : BOOLEAN, returned : BOOLEAN]
Roots == {"primary", "replica"}

ArtifactTypeOK ==
  /\ live \in Versions /\ changes \in 0 .. MaxChanges
  /\ content \in [Writers -> Versions]
  /\ name \in [Roots -> Writers \cup {NoFile}]
  /\ restored \in Versions \cup {NoFile}
  /\ job \in [Jobs -> Job]
  /\ reports \subseteq ArtReport

(* No version is of the future, and no file is of a missing version. *)
LiveStands == \A m \in Members : live[m] <= changes

(* A reported digest has all members; a reported restore is in place. *)
CaptureReportStands(r) ==
  /\ r.moment \/ r.returned
  /\ r.kind = "pack" => \A m \in Members : r.digest[m] <= MaxChanges
  /\ r.kind = "restore" => restored = r.digest /\ \A m \in Members : r.digest[m] <= MaxChanges

NamesStand ==
  /\ name["primary"] \in Packers \cup {NoFile}
  /\ name["replica"] \in Replicators \cup {NoFile}
  /\ name["replica"] # NoFile => content[name["replica"]] \in Anchored

(* Pinned versions were read.  If the end of the copy was no moment of all *)
(* pinned bytes, some member that the second reading has still to come to  *)
(* differs, unless a member was written back meanwhile.                    *)
PackStands(r) ==
  /\ r.pc \in PackPCs
  /\ r.pc = "pin" => \A m \in Members : m < r.at => r.pinned[m] <= changes
  /\ r.pc \in {"inputs", "copy", "reread", "check", "link", "unlink", "final"} => \A m \in Members : r.pinned[m] <= changes
  /\ r.pc = "reread" /\ ~r.moment /\ ~r.returned => \E m \in Members : m >= r.at /\ live[m] # r.pinned[m]
  /\ r.pc \in {"check", "link", "unlink", "final"} => r.moment \/ r.returned

(* A sweep writes a digest that was reported, and its own file, which has  *)
(* that digest before it gets a name and never changes afterwards.         *)
SweepStands(j, r) ==
  /\ r.pc \in SweepPCs
  /\ r.pc # "idle" => r.pinned \in Anchored
  /\ r.pc = "copy" => name["primary"] \in Packers
  /\ r.pc = "link" => content[j] = r.pinned
  /\ name["replica"] = j => r.pc \in {"idle", "unlink", "final"}

RestorerStands(r) ==
  /\ r.pc \in RestorePCs
  /\ r.pc # "idle" => r.pinned \in Anchored
  /\ r.pc \in {"extract", "readback"} => restored # NoFile

JobStands(j, r) ==
  /\ j \in Packers => PackStands(r)
  /\ j \in Replicators => SweepStands(j, r)
  /\ j \in Restorers => RestorerStands(r)

ArtifactInv ==
  /\ ArtifactTypeOK
  /\ LiveStands
  /\ \A r \in reports : CaptureReportStands(r)
  /\ NamesStand
  /\ \A j \in Jobs : JobStands(j, job[j])

(* The constants. *)
LEMMA ArtifactFacts ==
  /\ \E n \in Nat \ {0} : Members = 1 .. n
  /\ Packers \cap Replicators = {} /\ (Packers \cup Replicators) \cap Restorers = {} /\ MaxChanges \in Nat
  /\ NoFile \notin Packers \cup Replicators /\ NoFile \notin [Members -> 0 .. MaxChanges + 1]
<1>1. PICK n : n = Cardinality(Members)
  OBVIOUS
<1>2. n \in Nat
  BY <1>1, ArtifactAssumption, FS_CardinalityType
<1>3. Members = 1 .. n /\ Members # {}
  BY <1>1, ArtifactAssumption
<1>4. n # 0
  BY <1>2, <1>3
<1>5. Packers \cap Replicators = {} /\ (Packers \cup Replicators) \cap Restorers = {} /\ MaxChanges \in Nat
  /\ NoFile \notin Packers \cup Replicators /\ NoFile \notin [Members -> 0 .. MaxChanges + 1]
  BY ArtifactAssumption
<1>6. QED BY <1>2, <1>3, <1>4, <1>5

(* A process that has not begun, and an archive without bytes. *)
LEMMA IdleFacts ==
  /\ IdleJob \in Job /\ IdleJob.pc = "idle" /\ IdleJob.at = 1 /\ IdleJob.pinned = Empty /\ Empty \in Versions
  /\ 1 \in Members
  /\ \A m \in Members : Empty[m] = MaxChanges + 1
<1>1. Empty \in Versions /\ 1 \in Members /\ \A m \in Members : Empty[m] = MaxChanges + 1
  BY ArtifactFacts DEF Empty, Missing, Versions, Bytes
<1>2. QED
  BY <1>1 DEF IdleJob, Job, JobPCs, PackPCs

(* Nothing is packed at first. *)
LEMMA ArtifactInitially == ArtifactInit => ArtifactInv
<1> SUFFICES ASSUME ArtifactInit PROVE ArtifactInv
  OBVIOUS
<1>1. ArtifactTypeOK
  <2>1. live \in Versions
    BY ArtifactFacts DEF ArtifactInit, Versions, Bytes
  <2>2. changes \in 0 .. MaxChanges /\ restored = NoFile /\ reports = {}
    BY ArtifactFacts DEF ArtifactInit
  <2>3. content \in [Writers -> Versions] /\ job \in [Jobs -> Job] /\ name \in [Roots -> Writers \cup {NoFile}]
    BY IdleFacts DEF ArtifactInit, Roots
  <2>4. QED BY <2>1, <2>2, <2>3 DEF ArtifactTypeOK
<1>2. LiveStands /\ NamesStand /\ \A r \in reports : CaptureReportStands(r)
  BY DEF ArtifactInit, LiveStands, NamesStand
<1>3. ASSUME NEW j \in Jobs PROVE JobStands(j, job[j])
  <2>1. job[j].pc = "idle" /\ name["replica"] = NoFile
    BY IdleFacts DEF ArtifactInit
  <2>2. j \in Replicators => name["replica"] # j
    BY <2>1, ArtifactFacts
  <2>3. QED BY <2>1, <2>2 DEF JobStands, PackStands, SweepStands, RestorerStands, PackPCs, SweepPCs, RestorePCs
<1>4. QED BY <1>1, <1>2, <1>3 DEF ArtifactInv

(* Reports are only added, so a reported digest stays one. *)
LEMMA AnchorsStay ==
  ASSUME reports \subseteq reports'
  PROVE  Anchored \subseteq Anchored'
BY DEF Anchored

(* A reported digest has every member: it is no empty archive. *)
LEMMA AnchoredIsWhole ==
  ASSUME ArtifactInv, NEW d \in Anchored
  PROVE  d \in Versions /\ d # Empty /\ \A m \in Members : d[m] <= MaxChanges
<1>1. PICK r \in reports : r.kind = "pack" /\ d = r.digest
  BY DEF Anchored
<1>2. d \in Versions /\ \A m \in Members : d[m] <= MaxChanges
  BY <1>1 DEF ArtifactInv, ArtifactTypeOK, ArtReport, CaptureReportStands
<1>3. d[1] <= MaxChanges /\ Empty[1] = MaxChanges + 1
  BY <1>2, IdleFacts
<1>4. d # Empty
  BY <1>3, ArtifactFacts
<1>5. QED BY <1>2, <1>4

(* One process moves; what the others rely on stays. *)
LEMMA OneJobMoves ==
  ASSUME ArtifactInv, NEW j \in Jobs, NEW row \in Job, job' = [job EXCEPT ![j] = row], JobStands(j, row)',
         Still, reports \subseteq reports', reports' \subseteq ArtReport, \A r \in reports' : CaptureReportStands(r)',
         content' \in [Writers -> Versions], \A w \in Writers \ {j} : content'[w] = content[w],
         name["replica"] = j => content'[j] = content[j],
         name' \in [Roots -> Writers \cup {NoFile}], name'["primary"] \in Packers \cup {NoFile},
         name["primary"] # NoFile => name'["primary"] # NoFile,
         name'["replica"] = name["replica"] \/ (name'["replica"] = j /\ j \in Replicators /\ content'[j] \in Anchored),
         restored' \in Versions \cup {NoFile}, restored # NoFile => restored' # NoFile
  PROVE  ArtifactInv'
<1> USE DEF ArtifactInv
<1>1. UNCHANGED <<live, changes>>
  BY DEF Still
<1>2. Anchored \subseteq Anchored'
  BY AnchorsStay
<1>3. ArtifactTypeOK' /\ LiveStands'
  BY <1>1 DEF ArtifactTypeOK, LiveStands
<1>4. NamesStand'
  <2>1. CASE name'["replica"] = name["replica"]
    <3>1. name["replica"] # NoFile => content'[name["replica"]] = content[name["replica"]]
      BY DEF NamesStand, Writers
    <3>2. QED BY <1>2, <2>1, <3>1 DEF NamesStand
  <2>2. CASE name'["replica"] = j /\ j \in Replicators /\ content'[j] \in Anchored
    BY <1>2, <2>2 DEF NamesStand
  <2>3. QED BY <2>1, <2>2
<1>5. ASSUME NEW d \in Jobs PROVE JobStands(d, job[d])'
  <2>1. CASE d = j
    BY <2>1 DEF ArtifactTypeOK
  <2>2. CASE d # j
    <3>1. PICK r \in Job : r = job[d]
      BY DEF ArtifactTypeOK
    <3>2. job'[d] = r /\ JobStands(d, r)
      BY <2>2, <3>1 DEF ArtifactTypeOK
    <3>3. d \in Packers => PackStands(r)'
      BY <1>1, <3>2 DEF JobStands, PackStands
    <3>4. d \in Restorers => RestorerStands(r)'
      BY <1>2, <3>2 DEF JobStands, RestorerStands
    <3>5. ASSUME d \in Replicators PROVE SweepStands(d, r)'
      <4>1. SweepStands(d, r) /\ content'[d] = content[d]
        BY <2>2, <3>2, <3>5 DEF JobStands, Writers
      <4>2. name'["replica"] = d => name["replica"] = d
        BY <2>2
      <4>3. r.pc = "copy" => name'["primary"] \in Packers
        <5>1. SUFFICES ASSUME r.pc = "copy" PROVE name'["primary"] \in Packers
          OBVIOUS
        <5>2. name["primary"] \in Packers
          BY <4>1, <5>1 DEF SweepStands
        <5>3. name["primary"] # NoFile
          BY <5>2, ArtifactFacts
        <5>4. QED BY <5>3
      <4>4. QED BY <1>2, <4>1, <4>2, <4>3 DEF SweepStands
    <3>6. QED BY <3>2, <3>3, <3>4, <3>5 DEF JobStands
  <2>3. QED BY <2>1, <2>2
<1>6. QED BY <1>3, <1>4, <1>5

(* One process moves and nothing else does. *)
LEMMA OnlyJobMoves ==
  ASSUME ArtifactInv, NEW j \in Jobs, NEW row \in Job, job' = [job EXCEPT ![j] = row], JobStands(j, row),
         Still, UNCHANGED <<content, name, restored, reports>>
  PROVE  ArtifactInv'
<1>1. JobStands(j, row)'
  BY DEF JobStands, PackStands, SweepStands, RestorerStands, Anchored, Still
<1>2. /\ reports' \subseteq ArtReport /\ content' \in [Writers -> Versions] /\ name' \in [Roots -> Writers \cup {NoFile}]
      /\ restored' \in Versions \cup {NoFile} /\ name'["primary"] \in Packers \cup {NoFile}
  BY DEF ArtifactInv, ArtifactTypeOK, NamesStand
<1>3. \A r \in reports' : CaptureReportStands(r)'
  BY DEF ArtifactInv, CaptureReportStands
<1>4. QED BY <1>1, <1>2, <1>3, OneJobMoves

(* The facts that the steps of a process start from. *)
LEMMA JobFacts ==
  ASSUME ArtifactInv, NEW j \in Jobs
  PROVE  /\ job \in [Jobs -> Job] /\ job[j] \in Job /\ job[j].at \in Members /\ JobStands(j, job[j])
         /\ live \in Versions /\ changes \in 0 .. MaxChanges /\ \A m \in Members : live[m] \in Nat /\ live[m] <= changes
         /\ j \in Packers => j \in Writers /\ j \notin Replicators /\ j \notin Restorers
         /\ j \in Replicators => j \in Writers /\ j \notin Packers /\ j \notin Restorers
         /\ j \in Restorers => j \notin Packers /\ j \notin Replicators
         /\ \A m \in Members : m \in Nat /\ m >= 1 /\ (AfterLast(m) => \A k \in Members : k <= m)
<1>1. \A m \in Members : m \in Nat /\ m >= 1 /\ (AfterLast(m) => \A k \in Members : k <= m)
  BY ArtifactFacts DEF AfterLast
<1>2. \A m \in Members : live[m] \in Nat /\ live[m] <= changes
  BY DEF ArtifactInv, ArtifactTypeOK, LiveStands, Versions, Bytes
<1>3. QED BY <1>1, <1>2, ArtifactFacts DEF ArtifactInv, ArtifactTypeOK, Writers, Jobs, Job

(* Advance: the next member of this phase, or the first of the next one. *)
LEMMA AdvanceRow ==
  ASSUME ArtifactInv, NEW j \in Jobs, NEW here \in JobPCs, NEW next \in JobPCs, Advance(j, here, next)
  PROVE  \E row \in Job :
           /\ job' = [job EXCEPT ![j] = row]
           /\ row.pinned = job[j].pinned
           /\ row.at = IF AfterLast(job[j].at) THEN 1 ELSE job[j].at + 1
           /\ row.pc = IF AfterLast(job[j].at) THEN next ELSE here
           /\ row.moment = IF here = "copy" /\ AfterLast(job[j].at) THEN live = job[j].pinned ELSE job[j].moment
           /\ row.returned = job[j].returned
<1>1. PICK r \in Job : r = job[j]
  BY JobFacts
<1>2. PICK at, pc, moment : /\ at = (IF AfterLast(r.at) THEN 1 ELSE r.at + 1)
                            /\ pc = (IF AfterLast(r.at) THEN next ELSE here)
                            /\ moment = (IF here = "copy" /\ AfterLast(r.at) THEN live = r.pinned ELSE r.moment)
  OBVIOUS
<1>3. PICK row : row = [r EXCEPT !.at = at, !.pc = pc, !.moment = moment]
  OBVIOUS
<1>4. at \in Members /\ pc \in JobPCs
  BY <1>1, <1>2, IdleFacts DEF AfterLast, Job
<1>5. moment \in BOOLEAN
  BY <1>1, <1>2 DEF Job
<1>6. row \in Job /\ row.pinned = r.pinned /\ row.at = at /\ row.pc = pc /\ row.moment = moment /\ row.returned = r.returned
  BY <1>1, <1>3, <1>4, <1>5 DEF Job
<1>7. job' = [job EXCEPT ![j] = row]
  BY <1>1, <1>2, <1>3, JobFacts DEF Advance
<1>8. QED BY <1>1, <1>2, <1>6, <1>7

(* Begin and pinning. *)
LEMMA PinStands ==
  ASSUME ArtifactInv, NEW p \in Packers, CaptureBegin(p) \/ capturePrivateDependency(p)
  PROVE  ArtifactInv'
<1>1. p \in Jobs
  BY DEF Jobs, Writers
<1>2. PICK r \in Job : r = job[p]
  BY <1>1, JobFacts
<1>3. /\ job \in [Jobs -> Job] /\ r.at \in Members /\ PackStands(r) /\ p \notin Replicators /\ p \notin Restorers
      /\ changes \in Nat /\ live \in Versions
      /\ \A m \in Members : m \in Nat /\ m >= 1 /\ live[m] \in Nat /\ live[m] <= changes /\ (AfterLast(m) => \A k \in Members : k <= m)
  BY <1>1, <1>2, JobFacts DEF JobStands
<1>4. CASE CaptureBegin(p)
  <2>1. PICK idle : idle = IdleJob
    OBVIOUS
  <2>2. PICK row : row = [idle EXCEPT !.pc = "pin"]
    OBVIOUS
  <2>3. row \in Job /\ row.pc = "pin" /\ row.at = 1
    BY <2>1, <2>2, IdleFacts DEF Job, JobPCs, PackPCs
  <2>4. job' = [job EXCEPT ![p] = row] /\ Still /\ UNCHANGED <<content, name, restored, reports>>
    BY <1>4, <2>1, <2>2 DEF CaptureBegin
  <2>5. JobStands(p, row)
    BY <1>3, <2>3 DEF JobStands, PackStands, PackPCs
  <2>6. QED BY <1>1, <2>3, <2>4, <2>5, OnlyJobMoves
<1>5. CASE capturePrivateDependency(p)
  <2>1. PICK at, pc, pins : /\ at = (IF AfterLast(r.at) THEN 1 ELSE r.at + 1)
                            /\ pc = (IF AfterLast(r.at) THEN "inputs" ELSE "pin")
                            /\ pins = [r.pinned EXCEPT ![r.at] = live[r.at]]
    OBVIOUS
  <2>2. PICK row : row = [r EXCEPT !.pinned = pins, !.at = at, !.pc = pc]
    OBVIOUS
  <2>3. at \in Members /\ pc \in {"inputs", "pin"} /\ pc \in JobPCs
    BY <1>3, <2>1, IdleFacts DEF AfterLast, JobPCs, PackPCs
  <2>4. pins \in Versions /\ pins[r.at] = live[r.at] /\ \A m \in Members \ {r.at} : pins[m] = r.pinned[m]
    BY <1>2, <1>3, <2>1 DEF Versions, Job
  <2>5. row \in Job /\ row.pc = pc /\ row.at = at /\ row.pinned = pins
    BY <1>2, <2>2, <2>3, <2>4 DEF Job
  <2>6. job' = [job EXCEPT ![p] = row] /\ Still /\ UNCHANGED <<content, name, restored, reports>> /\ r.pc = "pin"
    BY <1>1, <1>2, <1>3, <1>5, <2>1, <2>2 DEF capturePrivateDependency, Job
  <2>7. \A m \in Members : m <= r.at => pins[m] <= changes
    BY <1>3, <2>4, <2>6 DEF PackStands
  <2>8. PackStands(row)
    <3>1. CASE AfterLast(r.at)
      BY <1>3, <2>1, <2>5, <2>7, <3>1 DEF PackStands, PackPCs
    <3>2. CASE ~AfterLast(r.at)
      BY <1>3, <2>1, <2>5, <2>7, <3>2 DEF PackStands, PackPCs
    <3>3. QED BY <3>1, <3>2
  <2>9. QED BY <1>1, <1>3, <2>5, <2>6, <2>8, OnlyJobMoves DEF JobStands
<1>6. QED BY <1>4, <1>5

(* The inputs, the copy and the second reading of a capture: a difference  *)
(* that the first moment had is found by the second reading.               *)
LEMMA PackReads ==
  ASSUME ArtifactInv, NEW p \in Packers, VerifyInputs(p) \/ PackCopy(p) \/ PackReread(p)
  PROVE  ArtifactInv'
<1>1. p \in Jobs
  BY DEF Jobs, Writers
<1>2. PICK r \in Job : r = job[p]
  BY <1>1, JobFacts
<1>3. /\ job \in [Jobs -> Job] /\ r.at \in Members /\ PackStands(r) /\ p \notin Replicators /\ p \notin Restorers /\ p \in Writers
      /\ changes \in Nat /\ live \in Versions
      /\ \A m \in Members : m \in Nat /\ m >= 1 /\ live[m] \in Nat /\ live[m] <= changes /\ (AfterLast(m) => \A k \in Members : k <= m)
  BY <1>1, <1>2, JobFacts DEF JobStands
<1>4. {"inputs", "copy", "reread", "check"} \subseteq JobPCs
  BY DEF JobPCs, PackPCs
<1>5. CASE VerifyInputs(p)
  <2>1. r.pc = "inputs" /\ Advance(p, "inputs", "copy") /\ Still /\ UNCHANGED <<content, name, restored, reports>>
    BY <1>2, <1>5 DEF VerifyInputs
  <2>2. PICK row \in Job : /\ job' = [job EXCEPT ![p] = row] /\ row.pinned = r.pinned
                           /\ row.pc = IF AfterLast(r.at) THEN "copy" ELSE "inputs"
    BY <1>1, <1>2, <1>4, <2>1, AdvanceRow
  <2>3. PackStands(row)
    BY <1>3, <2>1, <2>2 DEF PackStands, PackPCs
  <2>4. QED BY <1>1, <1>3, <2>1, <2>2, <2>3, OnlyJobMoves DEF JobStands
<1>6. CASE PackReread(p)
  <2>1. r.pc = "reread" /\ Advance(p, "reread", "check") /\ Still /\ UNCHANGED <<content, name, restored, reports>>
        /\ live[r.at] = r.pinned[r.at]
    BY <1>2, <1>6 DEF PackReread, copyExact
  <2>2. PICK row \in Job : /\ job' = [job EXCEPT ![p] = row] /\ row.pinned = r.pinned /\ row.moment = r.moment /\ row.returned = r.returned
                           /\ row.at = IF AfterLast(r.at) THEN 1 ELSE r.at + 1
                           /\ row.pc = IF AfterLast(r.at) THEN "check" ELSE "reread"
    BY <1>1, <1>2, <1>4, <2>1, AdvanceRow
  <2>3. ~r.moment /\ ~r.returned => \E m \in Members : m >= r.at /\ m # r.at /\ live[m] # r.pinned[m]
    BY <1>3, <2>1 DEF PackStands
  <2>4. CASE AfterLast(r.at)
    <3>1. r.moment \/ r.returned
      BY <1>3, <2>3, <2>4
    <3>2. PackStands(row)
      BY <1>3, <2>1, <2>2, <2>4, <3>1 DEF PackStands, PackPCs
    <3>3. QED BY <1>1, <1>3, <2>1, <2>2, <3>2, OnlyJobMoves DEF JobStands
  <2>5. CASE ~AfterLast(r.at)
    <3>1. ~row.moment /\ ~row.returned => \E m \in Members : m >= row.at /\ live[m] # row.pinned[m]
      BY <1>3, <2>2, <2>3, <2>5
    <3>2. PackStands(row)
      BY <1>3, <2>1, <2>2, <2>5, <3>1 DEF PackStands, PackPCs
    <3>3. QED BY <1>1, <1>3, <2>1, <2>2, <3>2, OnlyJobMoves DEF JobStands
  <2>6. QED BY <2>4, <2>5
<1>7. CASE PackCopy(p)
  <2>1. r.pc = "copy" /\ Advance(p, "copy", "reread") /\ Still /\ UNCHANGED <<name, restored, reports>>
        /\ content' = [content EXCEPT ![p][r.at] = live[r.at]]
    BY <1>2, <1>7 DEF PackCopy
  <2>2. PICK row \in Job : /\ job' = [job EXCEPT ![p] = row] /\ row.pinned = r.pinned
                           /\ row.at = IF AfterLast(r.at) THEN 1 ELSE r.at + 1
                           /\ row.pc = IF AfterLast(r.at) THEN "reread" ELSE "copy"
                           /\ row.moment = IF AfterLast(r.at) THEN live = r.pinned ELSE r.moment
    BY <1>1, <1>2, <1>4, <2>1, AdvanceRow
  <2>3. AfterLast(r.at) /\ ~row.moment => \E m \in Members : m >= row.at /\ live[m] # row.pinned[m]
    <3>1. r.pinned \in Versions
      BY <1>2 DEF Job
    <3>2. live # r.pinned => \E m \in Members : live[m] # r.pinned[m]
      BY <1>3, <3>1 DEF Versions
    <3>3. QED BY <1>3, <2>2, <3>2
  <2>4. PackStands(row)
    BY <1>3, <2>1, <2>2, <2>3 DEF PackStands, PackPCs
  <2>5. PackStands(row)'
    BY <2>1, <2>4 DEF PackStands, Still
  <2>6. content \in [Writers -> Versions] /\ name \in [Roots -> Writers \cup {NoFile}] /\ NamesStand
        /\ restored \in Versions \cup {NoFile} /\ reports \subseteq ArtReport
    BY DEF ArtifactInv, ArtifactTypeOK
  <2>7. content' \in [Writers -> Versions] /\ \A w \in Writers \ {p} : content'[w] = content[w]
    BY <1>3, <2>1, <2>6 DEF Versions
  <2>8. name["replica"] # p
    BY <1>3, <2>6, ArtifactFacts DEF NamesStand
  <2>9. \A x \in reports' : CaptureReportStands(x)'
    BY <2>1 DEF ArtifactInv, CaptureReportStands
  <2>10. JobStands(p, row)' /\ name'["primary"] \in Packers \cup {NoFile}
    BY <1>3, <2>1, <2>5, <2>6 DEF JobStands, NamesStand
  <2>11. QED BY <1>1, <2>1, <2>2, <2>6, <2>7, <2>8, <2>9, <2>10, OneJobMoves
<1>8. QED BY <1>5, <1>6, <1>7

(* Step: only the pc of one process. *)
LEMMA StepRow ==
  ASSUME ArtifactInv, NEW j \in Jobs, NEW pc \in JobPCs, Step(j, pc)
  PROVE  \E row \in Job : /\ job' = [job EXCEPT ![j] = row] /\ row.pc = pc /\ row.pinned = job[j].pinned
                          /\ row.at = job[j].at /\ row.moment = job[j].moment /\ row.exists = job[j].exists
                          /\ row.returned = job[j].returned
<1>1. PICK r \in Job : r = job[j]
  BY JobFacts
<1>2. PICK row : row = [r EXCEPT !.pc = pc]
  OBVIOUS
<1>3. /\ row \in Job /\ row.pc = pc /\ row.pinned = r.pinned /\ row.at = r.at /\ row.moment = r.moment
      /\ row.exists = r.exists /\ row.returned = r.returned
  BY <1>1, <1>2 DEF Job
<1>4. job' = [job EXCEPT ![j] = row]
  BY <1>1, <1>2, JobFacts DEF Step
<1>5. QED BY <1>1, <1>3, <1>4

(* A process that is idle relies on nothing. *)
LEMMA IdleStands ==
  ASSUME NEW j \in Jobs
  PROVE  JobStands(j, IdleJob) /\ JobStands(j, IdleJob)'
BY IdleFacts DEF JobStands, PackStands, SweepStands, RestorerStands, PackPCs, SweepPCs, RestorePCs

(* A process reports and ends. *)
LEMMA OneReports ==
  ASSUME ArtifactInv, NEW j \in Jobs, job' = [job EXCEPT ![j] = IdleJob], Still, UNCHANGED <<content, name, restored>>,
         NEW x \in ArtReport, reports' = reports \cup {x}, CaptureReportStands(x)
  PROVE  ArtifactInv'
<1>1. /\ reports' \subseteq ArtReport /\ content' \in [Writers -> Versions] /\ name' \in [Roots -> Writers \cup {NoFile}]
      /\ restored' \in Versions \cup {NoFile} /\ name'["primary"] \in Packers \cup {NoFile}
  BY DEF ArtifactInv, ArtifactTypeOK, NamesStand
<1>2. \A r \in reports' : CaptureReportStands(r)'
  BY DEF ArtifactInv, CaptureReportStands
<1>3. IdleJob \in Job /\ JobStands(j, IdleJob)'
  BY IdleFacts, IdleStands
<1>4. QED BY <1>1, <1>2, <1>3, OneJobMoves

(* The readback, the link and the end of the temporary name.  A sweep's    *)
(* file gets its name with the digest that it verified.                    *)
LEMMA PublishStands ==
  ASSUME ArtifactInv, NEW j \in Writers, CheckTemporary(j) \/ LinkFinal(j) \/ UnlinkTemporary(j)
  PROVE  ArtifactInv'
<1>1. j \in Jobs
  BY DEF Jobs
<1>2. PICK r \in Job : r = job[j]
  BY <1>1, JobFacts
<1>3. /\ job \in [Jobs -> Job] /\ JobStands(j, r) /\ j \notin Restorers
      /\ (j \in Packers => j \notin Replicators /\ PackStands(r)) /\ (j \in Replicators => j \notin Packers /\ SweepStands(j, r))
      /\ j \in Packers \cup Replicators
  BY <1>1, <1>2, JobFacts DEF JobStands, Writers
<1>4. {"link", "unlink", "final"} \subseteq JobPCs
  BY DEF JobPCs, PackPCs
<1>5. CASE CheckTemporary(j)
  <2>1. r.pc = "check" /\ content[j] = r.pinned /\ Step(j, "link") /\ Still /\ UNCHANGED <<content, name, restored, reports>>
    BY <1>2, <1>5 DEF CheckTemporary, Verify
  <2>2. PICK row \in Job : /\ job' = [job EXCEPT ![j] = row] /\ row.pc = "link" /\ row.pinned = r.pinned
                           /\ row.moment = r.moment /\ row.returned = r.returned
    BY <1>1, <1>2, <1>4, <2>1, StepRow
  <2>3. j \in Packers => PackStands(row)
    BY <1>3, <2>1, <2>2 DEF PackStands, PackPCs
  <2>4. j \in Replicators => SweepStands(j, row)
    BY <1>3, <2>1, <2>2 DEF SweepStands, SweepPCs
  <2>5. QED BY <1>1, <1>3, <2>1, <2>2, <2>3, <2>4, OnlyJobMoves DEF JobStands
<1>6. CASE UnlinkTemporary(j)
  <2>1. r.pc = "unlink" /\ Step(j, "final") /\ Still /\ UNCHANGED <<content, name, restored, reports>>
    BY <1>2, <1>6 DEF UnlinkTemporary
  <2>2. PICK row \in Job : /\ job' = [job EXCEPT ![j] = row] /\ row.pc = "final" /\ row.pinned = r.pinned
                           /\ row.moment = r.moment /\ row.returned = r.returned
    BY <1>1, <1>2, <1>4, <2>1, StepRow
  <2>3. j \in Packers => PackStands(row)
    BY <1>3, <2>1, <2>2 DEF PackStands, PackPCs
  <2>4. j \in Replicators => SweepStands(j, row)
    BY <1>3, <2>1, <2>2 DEF SweepStands, SweepPCs
  <2>5. QED BY <1>1, <1>3, <2>1, <2>2, <2>3, <2>4, OnlyJobMoves DEF JobStands
<1>7. CASE LinkFinal(j)
  <2>1. PICK n : n = Destination(j)
    OBVIOUS
  <2>2. r.pc = "link" /\ name[n] = NoFile /\ name' = [name EXCEPT ![n] = j] /\ Step(j, "unlink") /\ Still
        /\ UNCHANGED <<content, restored, reports>>
    BY <1>2, <1>7, <2>1 DEF LinkFinal
  <2>3. n \in Roots /\ (j \in Packers => n = "primary") /\ (j \in Replicators => n = "replica")
    BY <1>3, <2>1 DEF Destination, Roots
  <2>4. PICK row \in Job : /\ job' = [job EXCEPT ![j] = row] /\ row.pc = "unlink" /\ row.pinned = r.pinned
                           /\ row.moment = r.moment /\ row.returned = r.returned
    BY <1>1, <1>2, <1>4, <2>2, StepRow
  <2>5. content \in [Writers -> Versions] /\ name \in [Roots -> Writers \cup {NoFile}] /\ NamesStand
        /\ restored \in Versions \cup {NoFile} /\ reports \subseteq ArtReport
    BY DEF ArtifactInv, ArtifactTypeOK
  <2>6. name' \in [Roots -> Writers \cup {NoFile}] /\ name'[n] = j /\ \A k \in Roots \ {n} : name'[k] = name[k]
    BY <2>2, <2>3, <2>5
  <2>7. Anchored' = Anchored
    BY <2>2 DEF Anchored
  <2>8. CASE j \in Packers
    <3>1. PackStands(row)'
      BY <1>3, <2>2, <2>4, <2>8 DEF PackStands, PackPCs, Still
    <3>2. JobStands(j, row)'
      BY <1>3, <2>8, <3>1 DEF JobStands
    <3>3. name'["primary"] = j /\ name'["replica"] = name["replica"]
      BY <2>3, <2>6, <2>8 DEF Roots
    <3>4. \A x \in reports' : CaptureReportStands(x)'
      BY <2>2 DEF ArtifactInv, CaptureReportStands
    <3>5. j # NoFile
      BY <2>8, ArtifactFacts
    <3>6. QED BY <1>1, <2>2, <2>4, <2>5, <2>6, <2>8, <3>2, <3>3, <3>4, <3>5, OneJobMoves
  <2>9. CASE j \in Replicators
    <3>1. content[j] = r.pinned /\ r.pinned \in Anchored
      BY <1>3, <2>2, <2>9 DEF SweepStands
    <3>2. name'["replica"] = j /\ name'["primary"] = name["primary"]
      BY <2>3, <2>6, <2>9 DEF Roots
    <3>3. SweepStands(j, row)'
      BY <2>4, <2>7, <3>1, <3>2 DEF SweepStands, SweepPCs
    <3>4. JobStands(j, row)'
      BY <1>3, <2>9, <3>3 DEF JobStands
    <3>5. \A x \in reports' : CaptureReportStands(x)'
      BY <2>2 DEF ArtifactInv, CaptureReportStands
    <3>6. name'["primary"] \in Packers \cup {NoFile}
      BY <2>5, <3>2 DEF NamesStand
    <3>7. QED BY <1>1, <2>2, <2>4, <2>5, <2>6, <2>9, <3>1, <3>2, <3>4, <3>5, <3>6, OneJobMoves
  <2>10. QED BY <1>3, <2>8, <2>9
<1>8. QED BY <1>5, <1>6, <1>7

(* A capture is reported with its moment, or after a member came back. *)
LEMMA PackFinalStands ==
  ASSUME ArtifactInv, NEW p \in Packers, PackFinal(p)
  PROVE  ArtifactInv'
<1>1. p \in Jobs /\ p \in Writers
  BY DEF Jobs, Writers
<1>2. PICK r \in Job : r = job[p]
  BY <1>1, JobFacts
<1>3. PackStands(r) /\ changes \in 0 .. MaxChanges /\ r.pinned \in Versions
  BY <1>1, <1>2, JobFacts DEF JobStands, Job
<1>4. PICK x : x = [kind |-> "pack", by |-> p, digest |-> r.pinned, moment |-> r.moment, returned |-> r.returned]
  OBVIOUS
<1>5. r.pc = "final" /\ reports' = reports \cup {x} /\ job' = [job EXCEPT ![p] = IdleJob] /\ Still
      /\ UNCHANGED <<content, name, restored>>
  BY <1>2, <1>4 DEF PackFinal
<1>6. (r.moment \/ r.returned) /\ \A m \in Members : r.pinned[m] <= changes
  BY <1>3, <1>5 DEF PackStands
<1>7. x \in ArtReport /\ x.kind = "pack" /\ x.digest = r.pinned /\ (x.moment \/ x.returned)
  BY <1>1, <1>2, <1>3, <1>4, <1>6 DEF ArtReport, Job
<1>8. \A m \in Members : r.pinned[m] <= MaxChanges
  BY <1>3, <1>6, ArtifactFacts DEF Versions, Bytes
<1>9. CaptureReportStands(x)
  BY <1>7, <1>8 DEF CaptureReportStands
<1>10. QED BY <1>1, <1>5, <1>7, <1>9, OneReports

(* A sweep begins with the digest of a report, and with no file yet. *)
LEMMA SweepSteps ==
  ASSUME ArtifactInv, NEW s \in Replicators,
         (\E d \in Anchored : SweepBegin(s, d)) \/ SweepVerify(s) \/ SweepCopy(s) \/ SweepFinal(s)
  PROVE  ArtifactInv'
<1>1. s \in Jobs /\ s \in Writers
  BY DEF Jobs, Writers
<1>2. PICK r \in Job : r = job[s]
  BY <1>1, JobFacts
<1>3. /\ job \in [Jobs -> Job] /\ SweepStands(s, r) /\ s \notin Packers /\ s \notin Restorers /\ r.at \in Members
      /\ r.exists \in BOOLEAN /\ r.pinned \in Versions
  BY <1>1, <1>2, JobFacts DEF JobStands, Job
<1>4. content \in [Writers -> Versions] /\ name \in [Roots -> Writers \cup {NoFile}] /\ NamesStand
      /\ restored \in Versions \cup {NoFile} /\ reports \subseteq ArtReport
  BY DEF ArtifactInv, ArtifactTypeOK
<1>5. {"primary", "copy", "check", "final"} \subseteq JobPCs
  BY DEF JobPCs, SweepPCs
<1>6. s # NoFile
  BY ArtifactFacts
<1>7. CASE \E d \in Anchored : SweepBegin(s, d)
  <2>1. PICK d \in Anchored : SweepBegin(s, d)
    BY <1>7
  <2>2. PICK idle : idle = IdleJob
    OBVIOUS
  <2>3. PICK row : row = [idle EXCEPT !.pc = "primary", !.pinned = d]
    OBVIOUS
  <2>4. d \in Versions
    BY AnchoredIsWhole
  <2>5. row \in Job /\ row.pc = "primary" /\ row.pinned = d
    BY <1>5, <2>2, <2>3, <2>4, IdleFacts DEF Job
  <2>6. content[s] = Empty /\ job' = [job EXCEPT ![s] = row] /\ Still
  /\ UNCHANGED <<content, name, restored, reports>>
    BY <2>1, <2>2, <2>3 DEF SweepBegin
  <2>7. name["replica"] # s
    <3>1. ASSUME name["replica"] = s PROVE FALSE
      <4>1. content[s] \in Anchored
        BY <1>4, <1>6, <3>1 DEF NamesStand
      <4>2. QED BY <2>6, <4>1, AnchoredIsWhole
    <3>2. QED BY <3>1
  <2>8. SweepStands(s, row)
    BY <2>5, <2>7 DEF SweepStands, SweepPCs
  <2>9. QED BY <1>1, <1>3, <2>5, <2>6, <2>8, OnlyJobMoves DEF JobStands
<1>8. CASE SweepVerify(s)
  <2>1. r.pc = "primary" /\ name["primary"] # NoFile /\ Still /\ UNCHANGED <<content, name, restored, reports>>
    BY <1>2, <1>8 DEF SweepVerify, Verify
  <2>2. name["primary"] \in Packers
    BY <1>4, <2>1 DEF NamesStand
  <2>3. CASE Step(s, "copy")
    <3>1. PICK row \in Job : job' = [job EXCEPT ![s] = row] /\ row.pc = "copy" /\ row.pinned = r.pinned
      BY <1>1, <1>2, <1>5, <2>3, StepRow
    <3>2. SweepStands(s, row)
      BY <1>3, <2>1, <2>2, <3>1 DEF SweepStands, SweepPCs
    <3>3. QED BY <1>1, <1>3, <2>1, <3>1, <3>2, OnlyJobMoves DEF JobStands
  <2>4. CASE job' = [job EXCEPT ![s].pc = "final", ![s].exists = TRUE]
    <3>1. PICK row : row = [r EXCEPT !.pc = "final", !.exists = TRUE]
      OBVIOUS
    <3>2. row \in Job /\ row.pc = "final" /\ row.pinned = r.pinned
      BY <1>2, <1>5, <3>1 DEF Job
    <3>3. job' = [job EXCEPT ![s] = row]
      BY <1>2, <2>4, <3>1
    <3>4. SweepStands(s, row)
      BY <1>3, <2>1, <3>2 DEF SweepStands, SweepPCs
    <3>5. QED BY <1>1, <1>3, <2>1, <3>2, <3>3, <3>4, OnlyJobMoves DEF JobStands
  <2>5. QED BY <1>8, <2>3, <2>4 DEF SweepVerify
<1>9. CASE SweepCopy(s)
  <2>1. PICK f : f = name["primary"]
    OBVIOUS
  <2>2. r.pc = "copy" /\ content' = [content EXCEPT ![s][r.at] = content[f][r.at]] /\ Advance(s, "copy", "check") /\ Still
        /\ UNCHANGED <<name, restored, reports>>
    BY <1>2, <1>9, <2>1 DEF SweepCopy
  <2>3. f \in Writers /\ content[f][r.at] \in Bytes /\ name["replica"] # s
    <3>1. f \in Packers /\ name["replica"] # s
      BY <1>3, <2>1, <2>2 DEF SweepStands
    <3>2. QED BY <1>3, <1>4, <3>1 DEF Writers, Versions
  <2>4. content' \in [Writers -> Versions] /\ \A w \in Writers \ {s} : content'[w] = content[w]
    BY <1>1, <1>3, <1>4, <2>2, <2>3 DEF Versions
  <2>5. PICK row \in Job : job' = [job EXCEPT ![s] = row] /\ row.pinned = r.pinned
                           /\ row.pc = IF AfterLast(r.at) THEN "check" ELSE "copy"
    BY <1>1, <1>2, <1>5, <2>2, AdvanceRow
  <2>6. SweepStands(s, row)'
    BY <1>3, <2>2, <2>3, <2>5 DEF SweepStands, SweepPCs, Anchored
  <2>7. \A x \in reports' : CaptureReportStands(x)'
    BY <2>2 DEF ArtifactInv, CaptureReportStands
  <2>8. JobStands(s, row)' /\ name'["primary"] \in Packers \cup {NoFile}
    BY <1>3, <1>4, <2>2, <2>6 DEF JobStands, NamesStand
  <2>9. QED BY <1>1, <1>4, <2>2, <2>3, <2>4, <2>5, <2>7, <2>8, OneJobMoves
<1>10. CASE SweepFinal(s)
  <2>1. PICK x : x = [kind |-> "replica", by |-> name["replica"], digest |-> r.pinned, moment |-> TRUE, returned |-> FALSE]
    OBVIOUS
  <2>2. reports' = reports \cup {x} /\ job' = [job EXCEPT ![s] = IdleJob] /\ Still
  /\ UNCHANGED <<content, name, restored>>
    BY <1>2, <1>10, <2>1 DEF SweepFinal
  <2>3. x \in ArtReport /\ x.kind = "replica" /\ x.moment
    BY <1>3, <1>4, <2>1 DEF ArtReport, Roots
  <2>4. CaptureReportStands(x)
    BY <2>3 DEF CaptureReportStands
  <2>5. QED BY <1>1, <2>2, <2>3, <2>4, OneReports
<1>11. QED BY <1>7, <1>8, <1>9, <1>10

(* A restore fills a destination once: after its report no file of it is   *)
(* missing, so no other restore writes there.                              *)
LEMMA RestoreSteps ==
  ASSUME ArtifactInv, NEW x \in Restorers, NEW n \in Roots,
         (\E d \in Anchored : RestoreBegin(x, n, d)) \/ RestoreExtract(x, n) \/ RestoreMkdir(x) \/ RestoreReadback(x)
  PROVE  ArtifactInv'
<1>1. x \in Jobs
  BY DEF Jobs
<1>2. PICK r \in Job : r = job[x]
  BY <1>1, JobFacts
<1>3. /\ job \in [Jobs -> Job] /\ RestorerStands(r) /\ x \notin Packers /\ x \notin Replicators /\ r.at \in Members
      /\ r.pinned \in Versions
  BY <1>1, <1>2, JobFacts DEF JobStands, Job
<1>4. content \in [Writers -> Versions] /\ name \in [Roots -> Writers \cup {NoFile}] /\ NamesStand
      /\ restored \in Versions \cup {NoFile} /\ reports \subseteq ArtReport
      /\ \A y \in reports : CaptureReportStands(y)
  BY DEF ArtifactInv, ArtifactTypeOK
<1>5. {"mkdir", "extract", "readback"} \subseteq JobPCs
  BY DEF JobPCs, RestorePCs
<1>6. NoFile \notin Versions
  BY ArtifactFacts DEF Versions, Bytes
<1>7. ASSUME NEW row \in Job, job' = [job EXCEPT ![x] = row], RestorerStands(row)', Still, UNCHANGED <<content, name, reports>>,
             restored' \in Versions, \A y \in reports : y.kind # "restore"
      PROVE  ArtifactInv'
  <2>1. JobStands(x, row)'
    BY <1>3, <1>7 DEF JobStands
  <2>2. \A y \in reports' : CaptureReportStands(y)'
    BY <1>4, <1>7 DEF CaptureReportStands
  <2>3. name'["primary"] \in Packers \cup {NoFile}
    BY <1>4, <1>7 DEF NamesStand
  <2>4. restored' # NoFile
    BY <1>6, <1>7
  <2>5. QED BY <1>1, <1>4, <1>7, <2>1, <2>2, <2>3, <2>4, OneJobMoves
<1>8. CASE \E d \in Anchored : RestoreBegin(x, n, d)
  <2>1. PICK d \in Anchored : RestoreBegin(x, n, d)
    BY <1>8
  <2>2. PICK idle : idle = IdleJob
    OBVIOUS
  <2>3. PICK row : row = [idle EXCEPT !.pc = "mkdir", !.pinned = d]
    OBVIOUS
  <2>4. d \in Versions
    BY AnchoredIsWhole
  <2>5. row \in Job /\ row.pc = "mkdir" /\ row.pinned = d
    BY <1>5, <2>2, <2>3, <2>4, IdleFacts DEF Job
  <2>6. job' = [job EXCEPT ![x] = row] /\ Still /\ UNCHANGED <<content, name, restored, reports>>
    BY <2>1, <2>2, <2>3 DEF RestoreBegin
  <2>7. RestorerStands(row)
    BY <2>5 DEF RestorerStands, RestorePCs
  <2>8. QED BY <1>1, <1>3, <2>5, <2>6, <2>7, OnlyJobMoves DEF JobStands
<1>9. CASE RestoreMkdir(x)
  <2>1. r.pc = "mkdir" /\ restored = NoFile /\ restored' = Empty /\ Step(x, "extract") /\ Still /\ UNCHANGED <<content, name, reports>>
    BY <1>2, <1>9 DEF RestoreMkdir
  <2>2. PICK row \in Job : job' = [job EXCEPT ![x] = row] /\ row.pc = "extract" /\ row.pinned = r.pinned
    BY <1>1, <1>2, <1>5, <2>1, StepRow
  <2>3. restored' \in Versions /\ restored' # NoFile
    BY <1>6, <2>1, IdleFacts
  <2>4. RestorerStands(row)'
    BY <1>3, <2>1, <2>2, <2>3 DEF RestorerStands, RestorePCs, Anchored
  <2>5. \A y \in reports : y.kind # "restore"
    BY <1>4, <1>6, <2>1 DEF CaptureReportStands, ArtReport
  <2>6. QED BY <1>7, <2>1, <2>2, <2>3, <2>4, <2>5
<1>10. CASE RestoreExtract(x, n)
  <2>1. PICK f : f = name[n]
    OBVIOUS
  <2>2. /\ r.pc = "extract" /\ f # NoFile /\ restored[r.at] = MaxChanges + 1
        /\ restored' = [restored EXCEPT ![r.at] = content[f][r.at]]
        /\ Advance(x, "extract", "readback") /\ Still /\ UNCHANGED <<content, name, reports>>
    BY <1>2, <1>10, <2>1 DEF RestoreExtract, Missing
  <2>3. restored \in Versions /\ f \in Writers
    BY <1>3, <1>4, <2>1, <2>2 DEF RestorerStands
  <2>4. restored' \in Versions
    BY <1>3, <1>4, <2>2, <2>3 DEF Versions
  <2>5. \A y \in reports : y.kind # "restore"
    <3>1. SUFFICES ASSUME NEW y \in reports, y.kind = "restore" PROVE FALSE
      OBVIOUS
    <3>2. restored[r.at] <= MaxChanges
      BY <1>3, <1>4, <3>1 DEF CaptureReportStands
    <3>3. QED BY <2>2, <3>2, ArtifactFacts
  <2>6. PICK row \in Job : job' = [job EXCEPT ![x] = row] /\ row.pinned = r.pinned
                           /\ row.pc = IF AfterLast(r.at) THEN "readback" ELSE "extract"
    BY <1>1, <1>2, <1>5, <2>2, AdvanceRow
  <2>7. RestorerStands(row)'
    BY <1>3, <1>6, <2>2, <2>4, <2>6 DEF RestorerStands, RestorePCs, Anchored
  <2>8. QED BY <1>7, <2>2, <2>4, <2>5, <2>6, <2>7
<1>11. CASE RestoreReadback(x)
  <2>1. PICK y : y = [kind |-> "restore", by |-> NoFile, digest |-> r.pinned, moment |-> TRUE, returned |-> FALSE]
    OBVIOUS
  <2>2. /\ r.pc = "readback" /\ restored = r.pinned /\ reports' = reports \cup {y}
  /\ job' = [job EXCEPT ![x] = IdleJob]
        /\ Still /\ UNCHANGED <<content, name, restored>>
    BY <1>2, <1>11, <2>1 DEF RestoreReadback
  <2>3. y \in ArtReport /\ y.kind = "restore" /\ y.digest = r.pinned /\ y.moment
    BY <1>3, <2>1 DEF ArtReport
  <2>4. r.pinned \in Anchored
    BY <1>3, <2>2 DEF RestorerStands
  <2>5. \A m \in Members : r.pinned[m] <= MaxChanges
    BY <2>4, AnchoredIsWhole
  <2>6. CaptureReportStands(y)
    BY <2>2, <2>3, <2>5 DEF CaptureReportStands
  <2>7. QED BY <1>1, <2>2, <2>3, <2>6, OneReports
<1>12. QED BY <1>8, <1>9, <1>10, <1>11

(* A process fails or is killed. *)
LEMMA FailStands ==
  ASSUME ArtifactInv, NEW j \in Jobs, JobFails(j)
  PROVE  ArtifactInv'
<1>1. job' = [job EXCEPT ![j] = IdleJob] /\ Still /\ UNCHANGED <<content, name, restored, reports>>
  BY DEF JobFails
<1>2. QED BY <1>1, IdleFacts, IdleStands, OnlyJobMoves

(* A member changes.  For a capture that is reading a second time either   *)
(* the member is away from its pinned bytes, or the return is remembered.  *)
LEMMA MemberStands ==
  ASSUME ArtifactInv, NEW m \in Members, NEW v \in 0 .. changes + 1, MemberChanges(m, v)
  PROVE  ArtifactInv'
<1> USE DEF ArtifactInv
<1> DEFINE Back(r) == r.pc = "reread" /\ m >= r.at /\ r.pinned[m] = v
<1>1. /\ changes < MaxChanges /\ changes' = changes + 1 /\ live' = [live EXCEPT ![m] = v]
      /\ job' = [j \in Jobs |-> IF Back(job[j]) THEN [job[j] EXCEPT !.returned = TRUE] ELSE job[j]]
      /\ UNCHANGED <<content, name, restored, reports>>
  BY DEF MemberChanges
<1>2. live \in Versions /\ changes \in 0 .. MaxChanges /\ MaxChanges \in Nat /\ job \in [Jobs -> Job]
  BY ArtifactFacts DEF ArtifactTypeOK
<1>3. live'[m] = v /\ \A k \in Members \ {m} : live'[k] = live[k]
  BY <1>1, <1>2 DEF Versions
<1>4. live' \in Versions /\ changes' \in 0 .. MaxChanges
  BY <1>1, <1>2 DEF Versions, Bytes
<1>5. LiveStands'
  <2>1. ASSUME NEW k \in Members PROVE live'[k] <= changes'
    <3>1. live[k] \in Nat /\ live[k] <= changes
      BY <1>2 DEF LiveStands, Versions, Bytes
    <3>2. QED BY <1>1, <1>2, <1>3, <3>1
  <2>2. QED BY <2>1 DEF LiveStands
<1>6. ASSUME NEW j \in Jobs
      PROVE /\ job'[j] \in Job /\ job'[j].pc = job[j].pc /\ job'[j].pinned = job[j].pinned /\ job'[j].at = job[j].at
            /\ job'[j].moment = job[j].moment
            /\ IF Back(job[j]) THEN job'[j].returned ELSE job'[j].returned = job[j].returned
  <2>1. PICK r \in Job : r = job[j]
    BY <1>2
  <2>2. CASE Back(r)
    <3>1. job'[j] = [r EXCEPT !.returned = TRUE]
      BY <1>1, <2>1, <2>2
    <3>2. QED BY <2>1, <2>2, <3>1 DEF Job
  <2>3. CASE ~Back(r)
    <3>1. job'[j] = r
      BY <1>1, <2>1, <2>3
    <3>2. QED BY <2>1, <2>3, <3>1
  <2>4. QED BY <2>2, <2>3
<1>7. ArtifactTypeOK'
  <2>1. job' \in [Jobs -> Job]
    BY <1>1, <1>6
  <2>2. QED BY <1>1, <1>4, <2>1 DEF ArtifactTypeOK
<1>8. NamesStand' /\ \A r \in reports' : CaptureReportStands(r)'
  BY <1>1 DEF CaptureReportStands, NamesStand, Anchored
<1>9. ASSUME NEW j \in Jobs PROVE JobStands(j, job[j])'
  <2>1. PICK r \in Job : r = job[j]
    BY <1>2
  <2>2. PICK row \in Job : row = job'[j]
    BY <1>6
  <2>3. /\ row.pc = r.pc /\ row.pinned = r.pinned /\ row.at = r.at /\ row.moment = r.moment
        /\ IF Back(r) THEN row.returned ELSE row.returned = r.returned
    BY <1>6, <2>1, <2>2
  <2>4. JobStands(j, r) /\ \A k \in Members : r.pinned[k] \in Nat
    BY <2>1 DEF Job, Versions, Bytes
  <2>5. ASSUME j \in Packers PROVE PackStands(row)'
    <3>1. PackStands(r)
      BY <2>4, <2>5 DEF JobStands
    <3>2. \A k \in Members : r.pinned[k] <= changes => r.pinned[k] <= changes'
      BY <1>1, <1>2, <2>4
    <3>3. row.pc = "reread" /\ ~row.moment /\ ~row.returned => \E k \in Members : k >= row.at /\ live'[k] # row.pinned[k]
      <4>1. SUFFICES ASSUME r.pc = "reread", ~r.moment, ~row.returned PROVE \E k \in Members : k >= r.at /\ live'[k] # r.pinned[k]
        BY <2>3
      <4>2. ~Back(r) /\ ~r.returned
        BY <2>3, <4>1
      <4>3. PICK k \in Members : k >= r.at /\ live[k] # r.pinned[k]
        BY <3>1, <4>1, <4>2 DEF PackStands
      <4>4. live'[k] # r.pinned[k]
        BY <1>3, <4>1, <4>2, <4>3
      <4>5. QED BY <4>3, <4>4
    <3>4. r.moment \/ r.returned => row.moment \/ row.returned
      BY <2>3
    <3>5. QED BY <2>3, <3>1, <3>2, <3>3, <3>4 DEF PackStands
  <2>6. j \in Replicators => SweepStands(j, row)'
    BY <1>1, <2>3, <2>4 DEF JobStands, SweepStands, Anchored
  <2>7. j \in Restorers => RestorerStands(row)'
    BY <1>1, <2>3, <2>4 DEF JobStands, RestorerStands, Anchored
  <2>8. QED BY <2>2, <2>5, <2>6, <2>7 DEF JobStands
<1>10. QED BY <1>5, <1>7, <1>8, <1>9

(* The primary archive is a capture's file, never a sweep's. *)
LEMMA PrimaryStands ==
  ASSUME ArtifactInv, NEW m \in Members, PrimaryChanges(m)
  PROVE  ArtifactInv'
<1> USE DEF ArtifactInv
<1>1. PICK f : f = name["primary"]
  OBVIOUS
<1>2. /\ changes < MaxChanges /\ changes' = changes + 1 /\ f # NoFile
      /\ content' = [content EXCEPT ![f][m] = MaxChanges + 1]
      /\ UNCHANGED <<live, name, restored, job, reports>>
  BY <1>1 DEF PrimaryChanges, Missing
<1>3. /\ live \in Versions /\ changes \in 0 .. MaxChanges /\ MaxChanges \in Nat /\ job \in [Jobs -> Job]
      /\ content \in [Writers -> Versions]
  BY ArtifactFacts DEF ArtifactTypeOK
<1>4. f \in Packers /\ f \in Writers /\ f \notin Replicators
  BY <1>1, <1>2, ArtifactFacts DEF NamesStand, Writers
<1>5. content' \in [Writers -> Versions] /\ \A w \in Writers \ {f} : content'[w] = content[w]
  BY <1>2, <1>3, <1>4 DEF Versions, Bytes
<1>6. ArtifactTypeOK'
  BY <1>2, <1>3, <1>5 DEF ArtifactTypeOK
<1>7. LiveStands'
  BY <1>2, <1>3 DEF LiveStands, Versions, Bytes
<1>8. \A r \in reports' : CaptureReportStands(r)'
  BY <1>2 DEF CaptureReportStands
<1>9. NamesStand'
  <2>1. name["replica"] # NoFile => content'[name["replica"]] = content[name["replica"]]
    BY <1>4, <1>5 DEF NamesStand, Writers
  <2>2. QED BY <1>2, <2>1 DEF NamesStand, Anchored
<1>10. ASSUME NEW j \in Jobs PROVE JobStands(j, job[j])'
  <2>1. PICK r \in Job : r = job[j]
    BY <1>3
  <2>2. job'[j] = r /\ JobStands(j, r) /\ \A k \in Members : r.pinned[k] \in Nat
    BY <1>2, <2>1 DEF Job, Versions, Bytes
  <2>3. ASSUME j \in Packers PROVE PackStands(r)'
    <3>1. PackStands(r)
      BY <2>2, <2>3 DEF JobStands
    <3>2. \A k \in Members : r.pinned[k] <= changes => r.pinned[k] <= changes'
      BY <1>2, <1>3, <2>2
    <3>3. QED BY <1>2, <3>1, <3>2 DEF PackStands
  <2>4. j \in Replicators => SweepStands(j, r)'
    BY <1>2, <1>4, <1>5, <2>2 DEF JobStands, SweepStands, Anchored, Writers
  <2>5. j \in Restorers => RestorerStands(r)'
    BY <1>2, <2>2 DEF JobStands, RestorerStands, Anchored
  <2>6. QED BY <2>2, <2>3, <2>4, <2>5 DEF JobStands
<1>11. QED BY <1>6, <1>7, <1>8, <1>9, <1>10

(* A step that touches only temporary names. *)
LEMMA NothingMoves ==
  ASSUME ArtifactInv, UNCHANGED <<live, content, name, restored, job, reports, changes>>
  PROVE  ArtifactInv'
<1> USE DEF ArtifactInv
<1>1. ArtifactTypeOK' /\ LiveStands'
  BY DEF ArtifactTypeOK, LiveStands
<1>2. NamesStand' /\ \A r \in reports' : CaptureReportStands(r)'
  BY DEF NamesStand, CaptureReportStands, Anchored
<1>3. \A j \in Jobs : JobStands(j, job[j])'
  BY DEF JobStands, PackStands, SweepStands, RestorerStands, Anchored
<1>4. QED BY <1>1, <1>2, <1>3

(* Every step of captures, sweeps and restores keeps the invariant. *)
LEMMA ArtifactStep == ArtifactInv /\ [ArtifactNext]_artifactVars => ArtifactInv'
<1> SUFFICES ASSUME ArtifactInv, [ArtifactNext]_artifactVars PROVE ArtifactInv'
  OBVIOUS
<1>1. DOMAIN name = Roots /\ "primary" \in Roots
  BY DEF ArtifactInv, ArtifactTypeOK, Roots
<1>2. CASE UNCHANGED artifactVars
  BY <1>2, NothingMoves DEF artifactVars
<1>3. CASE \E p \in Packers : CaptureBegin(p) \/ capturePrivateDependency(p) \/ VerifyInputs(p) \/ PackCopy(p) \/ PackReread(p) \/ PackFinal(p)
  BY <1>3, PinStands, PackReads, PackFinalStands
<1>4. CASE \E j \in Writers : CheckTemporary(j) \/ LinkFinal(j) \/ UnlinkTemporary(j) \/ Reconcile(j)
  <2>1. ASSUME NEW j \in Writers, Reconcile(j) PROVE ArtifactInv'
    BY <2>1, NothingMoves DEF Reconcile
  <2>2. QED BY <1>4, <2>1, PublishStands
<1>5. CASE \E r \in Replicators : (\E d \in Anchored : SweepBegin(r, d)) \/ SweepVerify(r) \/ SweepCopy(r) \/ SweepFinal(r)
  BY <1>5, SweepSteps
<1>6. CASE \E x \in Restorers :
             \/ \E n \in DOMAIN name : (\E d \in Anchored : RestoreBegin(x, n, d)) \/ RestoreExtract(x, n)
             \/ RestoreMkdir(x) \/ RestoreReadback(x)
  BY <1>1, <1>6, RestoreSteps
<1>7. CASE \E j \in Jobs : JobFails(j)
  BY <1>7, FailStands
<1>8. CASE \E m \in Members : (\E v \in 0 .. changes + 1 : MemberChanges(m, v)) \/ PrimaryChanges(m)
  BY <1>8, MemberStands, PrimaryStands
<1>9. QED BY <1>2, <1>3, <1>4, <1>5, <1>6, <1>7, <1>8 DEF ArtifactNext

(* A reported capture is a snapshot of the moment its copy ended, unless a *)
(* changed member was written back before the second reading came to it;   *)
(* the replica and a reported restore have the bytes of a reported         *)
(* capture: for any number of members and processes, whatever changes (to  *)
(* new bytes or to earlier ones), fails or is killed.                      *)
THEOREM RetainedIsAlwaysTrue == ArtifactSpec => []RetainedIsTrue
<1>1. ArtifactInv => RetainedIsTrue
  BY DEF ArtifactInv, CaptureReportStands, NamesStand, RetainedIsTrue
<1>2. ArtifactInv /\ [ArtifactNext]_artifactVars => ArtifactInv'
  BY ArtifactStep
<1>3. QED BY <1>1, <1>2, ArtifactInitially, PTL DEF ArtifactSpec

-----------------------------------------------------------------------------
(* Release. *)

(* The types of the parent directory, of an installation and of a switch. *)
Places == [Releases -> Trees \cup {NoEntry}]
FileSets == [Files -> Commits \cup {NoEntry}]
Manifests == Manifest \cup {NoManifest}
InstallPCs == {"idle", "read", "mkdir", "copy", "verify", "compare", "seal", "sync", "final"}
SwitchPCs == {"idle", "lock", "recheck", "away", "sync", "in", "sync2", "readback"}
Install == [pc : InstallPCs, into : Releases, expected : Commits \cup {NoEntry}, facts : FileSets, at : Files,
            made : Trees \cup {NoEntry}]
Switch == [pc : SwitchPCs, candidate : Releases, previous : Releases, old : Manifests, new : Manifests]
Report == [id : Trees, commit : Commits, own : BOOLEAN]

ReleaseTypeOK ==
  /\ build \in [Files -> Commits]
  /\ entry \in Places /\ durable \in Places
  /\ tree \in [Trees -> Tree]
  /\ installer \in [Installers -> Install]
  /\ switcher \in [Switchers -> Switch]
  /\ lock \in Switchers \cup {NoEntry}
  /\ installed \subseteq Report
  /\ broken \in BOOLEAN

(* A directory has a name in a copy of the parent. *)
Holds(e, t) == \E n \in Releases : e[n] = t

(* A whole release of a real commit. *)
Sound(x) == Whole(x) /\ x.manifest.commit \in Commits
SoundAt(e, n) == e[n] \in Trees /\ Sound(tree[e[n]])
TwoSound(e) == \E a, b \in Releases : a # b /\ SoundAt(e, a) /\ SoundAt(e, b)

(* What is durable is in place, and an empty active name leaves two whole  *)
(* releases, in the parent as it is and as a crash would leave it.         *)
ParentStands ==
  /\ \A t \in Trees : Holds(durable, t) => Holds(entry, t)
  /\ entry[Active] = NoEntry => TwoSound(entry)
  /\ durable[Active] = NoEntry => TwoSound(durable)

(* The directory an installation made is in place, after the sync durably. *)
InstallStands(r) ==
  /\ r.pc # "idle" => r.expected \in Commits
  /\ r.pc \in {"copy", "verify", "compare", "seal", "sync", "final"} => r.made \in Trees /\ Holds(entry, r.made)
  /\ r.pc = "final" => Holds(durable, r.made)

(* A reported release has its bytes and, if its reporter made it, a name.  *)
ReportStands(r) ==
  /\ verifyMembers(tree[r.id].files, r.commit)
  /\ r.own => Holds(durable, r.id)

(* What a switch has verified is where the renames so far have put it.     *)
SwitchStands(r) ==
  /\ r.pc # "idle" => Active # r.candidate /\ Active # r.previous /\ r.candidate # r.previous /\ r.old \in Manifest /\ r.new \in Manifest
  /\ r.pc = "away" => SoundAt(entry, Active) /\ SoundAt(entry, r.candidate)
  /\ r.pc \in {"sync", "in"} => SoundAt(entry, r.previous) /\ SoundAt(entry, r.candidate)
  /\ r.pc \in {"sync2", "readback"} => SoundAt(entry, Active) /\ SoundAt(entry, r.previous)

LockedPCs == {"recheck", "away", "sync", "in", "sync2", "readback"}

(* From the recheck on, a switch holds the lock; and the active name is    *)
(* empty only within a switch or when one was broken off.                  *)
LockStands ==
  /\ \A s \in Switchers : switcher[s].pc \in LockedPCs => lock = s
  /\ entry[Active] = NoEntry => broken \/ \E s \in Switchers : switcher[s].pc \in {"sync", "in"}

ReleaseInv ==
  /\ ReleaseTypeOK
  /\ ParentStands
  /\ \A i \in Installers : InstallStands(installer[i])
  /\ \A r \in installed : ReportStands(r)
  /\ \A s \in Switchers : SwitchStands(switcher[s])
  /\ LockStands

(* No written member is written again, and no manifest either. *)
TreesStay ==
  /\ tree' \in [Trees -> Tree]
  /\ \A t \in Trees : Sound(tree[t]) => Sound(tree'[t])
  /\ \A t \in Trees, c \in Commits : verifyMembers(tree[t].files, c) => verifyMembers(tree'[t].files, c)

(* The constants. *)
LEMMA ReleaseFacts ==
  /\ \E n \in Nat \ {0} : Files = 1 .. n
  /\ Active \in Releases /\ IsFiniteSet(Releases) /\ Commits # {} /\ NoEntry \notin Commits /\ NoEntry \notin Switchers
  /\ FirstTree \in Trees /\ NoEntry \notin Trees /\ MaxRebuilds \in Nat
<1>1. PICK n : n = Cardinality(Files)
  OBVIOUS
<1>2. n \in Nat
  BY <1>1, ReleaseAssumption, FS_CardinalityType
<1>3. Files = 1 .. n /\ Files # {}
  BY <1>1, ReleaseAssumption
<1>4. n # 0
  BY <1>2, <1>3
<1>5. Active \in Releases /\ IsFiniteSet(Releases) /\ Commits # {} /\ NoEntry \notin Commits /\ NoEntry \notin Switchers
  /\ FirstTree \in Trees /\ NoEntry \notin Trees /\ MaxRebuilds \in Nat
  BY ReleaseAssumption
<1>6. QED BY <1>2, <1>3, <1>4, <1>5

(* One release is active at first. *)
LEMMA ReleaseInitially == ReleaseInit => ReleaseInv
<1> SUFFICES ASSUME ReleaseInit PROVE ReleaseInv
  OBVIOUS
<1>1. PICK first \in Commits : first = CHOOSE c \in Commits : TRUE
  BY ReleaseFacts
<1>2. NoManifest \in Manifests /\ NoManifest.facts \in FileSets /\ 1 \in Files
  BY ReleaseFacts DEF NoManifest, Manifests, FileSets
<1>3. WholeTree(first) \in Tree /\ Sound(WholeTree(first)) /\ verifyMembers(WholeTree(first).files, first)
  BY DEF WholeTree, Tree, Manifest, Sound, Whole, verifyMembers
<1>4. EmptyTree \in Tree
  BY <1>2 DEF EmptyTree, Tree, Manifests
<1>5. NoInstall \in Install /\ NoInstall.pc = "idle"
  BY <1>2, ReleaseFacts DEF NoInstall, Install, InstallPCs
<1>6. NoSwitch \in Switch /\ NoSwitch.pc = "idle"
  BY <1>2, ReleaseFacts DEF NoSwitch, Switch, SwitchPCs
<1>7. /\ build \in [Files -> Commits] /\ lock = NoEntry /\ broken = FALSE
      /\ entry = [n \in Releases |-> IF n = Active THEN FirstTree ELSE NoEntry] /\ durable = entry
      /\ tree = [t \in Trees |-> IF t = FirstTree THEN WholeTree(first) ELSE EmptyTree]
      /\ installer = [i \in Installers |-> NoInstall] /\ switcher = [s \in Switchers |-> NoSwitch]
      /\ installed = {[id |-> FirstTree, commit |-> first, own |-> TRUE]}
  BY <1>1 DEF ReleaseInit
<1>8. entry \in Places /\ durable \in Places /\ tree \in [Trees -> Tree]
  BY <1>3, <1>4, <1>7, ReleaseFacts DEF Places, FileSets
<1>9. entry[Active] = FirstTree /\ durable[Active] = FirstTree /\ FirstTree # NoEntry /\ Holds(durable, FirstTree)
  BY <1>7, ReleaseFacts DEF Holds
<1>10. [id |-> FirstTree, commit |-> first, own |-> TRUE] \in Report
  BY ReleaseFacts DEF Report
<1>11. ReleaseTypeOK
  BY <1>5, <1>6, <1>7, <1>8, <1>10 DEF ReleaseTypeOK
<1>12. ParentStands /\ LockStands
  BY <1>6, <1>7, <1>9 DEF ParentStands, LockStands, LockedPCs
<1>13. \A i \in Installers : InstallStands(installer[i])
  BY <1>5, <1>7 DEF InstallStands
<1>14. \A r \in installed : ReportStands(r)
  BY <1>3, <1>7, <1>9, ReleaseFacts DEF ReportStands
<1>15. \A s \in Switchers : SwitchStands(switcher[s])
  BY <1>6, <1>7 DEF SwitchStands
<1>16. QED BY <1>11, <1>12, <1>13, <1>14, <1>15 DEF ReleaseInv

(* A rename keeps every directory. *)
LEMMA RenameKeeps ==
  ASSUME NEW e \in Places, NEW a \in Releases, NEW b \in Releases
  PROVE  /\ CanRename(e, a, b) => /\ Rename(e, a, b) \in Places
                                  /\ \A t \in Trees : Holds(e, t) => Holds(Rename(e, a, b), t)
                                  /\ Rename(e, a, b)[b] = e[a] /\ a # b
                                  /\ \A n \in Releases \ {a, b} : Rename(e, a, b)[n] = e[n]
         /\ TryRename(e, a, b) \in Places
         /\ \A t \in Trees : Holds(e, t) => Holds(TryRename(e, a, b), t)
<1>1. ASSUME CanRename(e, a, b)
      PROVE  /\ Rename(e, a, b) \in Places
             /\ \A t \in Trees : Holds(e, t) => Holds(Rename(e, a, b), t)
             /\ Rename(e, a, b)[b] = e[a] /\ a # b
             /\ \A n \in Releases \ {a, b} : Rename(e, a, b)[n] = e[n]
  <2>1. e[a] # NoEntry /\ e[b] = NoEntry /\ a # b /\ e[a] \in Trees \cup {NoEntry}
    BY <1>1 DEF CanRename, Places
  <2>2. PICK f : f = Rename(e, a, b)
    OBVIOUS
  <2>3. f \in Places /\ f[b] = e[a] /\ \A n \in Releases \ {a, b} : f[n] = e[n]
    BY <2>1, <2>2 DEF Rename, Places
  <2>4. ASSUME NEW t \in Trees, Holds(e, t) PROVE Holds(f, t)
    <3>1. PICK n \in Releases : e[n] = t
      BY <2>4 DEF Holds
    <3>2. n # b
      BY <2>1, <3>1, ReleaseFacts
    <3>3. f[IF n = a THEN b ELSE n] = t
      BY <2>3, <3>1, <3>2
    <3>4. QED BY <3>3 DEF Holds
  <2>5. QED BY <2>1, <2>2, <2>3, <2>4
<1>2. QED BY <1>1 DEF TryRename

(* Members are written once: wholeness is for ever. *)
LEMMA WritesKeepTrees ==
  ASSUME ReleaseInv, NEW i \in Installers, InstallCopy(i) \/ InstallCompare(i) \/ InstallSeal(i)
  PROVE  TreesStay
<1>1. tree \in [Trees -> Tree] /\ installer[i] \in Install /\ build \in [Files -> Commits] /\ entry \in Places
  BY DEF ReleaseInv, ReleaseTypeOK
<1>2. PICK t : t = entry[installer[i].into]
  OBVIOUS
<1>3. t \in Trees
  BY <1>1, <1>2 DEF Places, Install, InstallCopy, InstallCompare, InstallSeal
<1>4. PICK x \in Tree : x = tree[t]
  BY <1>1, <1>3
<1>5. ASSUME NEW y \in Tree, tree' = [tree EXCEPT ![t] = y], Sound(x) => Sound(y),
             \A c \in Commits : verifyMembers(x.files, c) => verifyMembers(y.files, c)
      PROVE  TreesStay
  BY <1>1, <1>3, <1>4, <1>5 DEF TreesStay
<1>6. CASE InstallCopy(i)
  <2>1. PICK at : at = installer[i].at
    OBVIOUS
  <2>2. at \in Files /\ x.files[at] = NoEntry /\ tree' = [tree EXCEPT ![t].files[at] = build[at]]
    BY <1>1, <1>2, <1>4, <1>6, <2>1 DEF InstallCopy, Install
  <2> DEFINE y == [x EXCEPT !.files = [x.files EXCEPT ![at] = build[at]]]
  <2>3. tree' = [tree EXCEPT ![t] = y]
    BY <1>1, <1>3, <1>4, <2>2 DEF Tree
  <2>4. y \in Tree
    BY <1>1, <2>2 DEF Tree, FileSets
  <2>5. \A c \in Commits : ~verifyMembers(x.files, c)
    BY <2>2, ReleaseFacts DEF verifyMembers
  <2>6. ~Sound(x)
    BY <2>5 DEF Sound, Whole
  <2>7. QED BY <1>5, <2>3, <2>4, <2>5, <2>6
<1>7. CASE InstallCompare(i)
  <2>1. PICK m : m = [commit |-> installer[i].expected, facts |-> installer[i].facts]
    OBVIOUS
  <2>2. x.manifest = NoManifest /\ tree' = [tree EXCEPT ![t].manifest = m] /\ installer[i].pc = "compare"
  /\ build = installer[i].facts
    BY <1>2, <1>4, <1>7, <2>1 DEF InstallCompare
  <2>3. m \in Manifest
    <3>1. installer[i].expected \in Commits
      BY <2>2 DEF ReleaseInv, InstallStands
    <3>2. QED BY <1>1, <2>1, <2>2, <3>1 DEF Manifest
  <2>4. PICK y : y = [x EXCEPT !.manifest = m]
    OBVIOUS
  <2>5. tree' = [tree EXCEPT ![t] = y] /\ y \in Tree /\ y.files = x.files
    BY <1>1, <1>3, <1>4, <2>2, <2>3, <2>4 DEF Tree
  <2>6. ~Sound(x)
    BY <2>2, ReleaseFacts DEF Sound, NoManifest
  <2>7. QED BY <1>5, <2>5, <2>6
<1>8. CASE InstallSeal(i)
  <2>1. tree' = [tree EXCEPT ![t].sealed = TRUE]
    BY <1>2, <1>8 DEF InstallSeal
  <2>2. PICK y : y = [x EXCEPT !.sealed = TRUE]
    OBVIOUS
  <2>3. tree' = [tree EXCEPT ![t] = y] /\ y \in Tree /\ y.files = x.files /\ y.manifest = x.manifest /\ y.sealed
    BY <1>1, <1>3, <1>4, <2>1, <2>2 DEF Tree
  <2>4. Sound(x) => Sound(y)
    BY <2>3 DEF Sound, Whole
  <2>5. QED BY <1>5, <2>3, <2>4
<1>9. QED BY <1>6, <1>7, <1>8


(* Wholeness carries a sound entry over a step that keeps it. *)
LEMMA SoundStays ==
  ASSUME TreesStay, NEW e, NEW f, NEW n, f[n] = e[n], SoundAt(e, n)
  PROVE  SoundAt(f, n)'
BY DEF SoundAt, TreesStay

(* An installation writes below its directory and may report; no name      *)
(* changes.                                                                *)
LEMMA InstallerMoves ==
  ASSUME ReleaseInv, NEW i \in Installers, NEW row \in Install, installer' = [installer EXCEPT ![i] = row],
         InstallStands(row), TreesStay, UNCHANGED <<entry, durable, switcher, lock, broken>>,
         build' \in [Files -> Commits],
         installed' \subseteq Report, \A r \in installed' \ installed : ReportStands(r)'
  PROVE  ReleaseInv'
<1> USE DEF ReleaseInv
<1>1. ReleaseTypeOK'
  BY DEF ReleaseTypeOK, TreesStay
<1>2. \A n \in Releases : (SoundAt(entry, n) => SoundAt(entry, n)') /\ (SoundAt(durable, n) => SoundAt(durable, n)')
  BY SoundStays
<1>3. \A t \in Trees : Holds(entry, t)' = Holds(entry, t) /\ Holds(durable, t)' = Holds(durable, t)
  BY DEF Holds
<1>4. (TwoSound(entry) => TwoSound(entry)') /\ (TwoSound(durable) => TwoSound(durable)')
  BY <1>2 DEF TwoSound
<1>5. ParentStands' /\ LockStands'
  BY <1>3, <1>4 DEF ParentStands, LockStands
<1>6. ASSUME NEW j \in Installers PROVE InstallStands(installer[j])'
  <2>1. InstallStands(installer'[j])
    BY DEF ReleaseTypeOK
  <2>2. \A t : Holds(entry, t)' = Holds(entry, t) /\ Holds(durable, t)' = Holds(durable, t)
    BY DEF Holds
  <2>3. QED BY <2>1, <2>2 DEF InstallStands
<1>7. ASSUME NEW r \in installed' PROVE ReportStands(r)'
  <2>1. CASE r \in installed
    <3>1. ReportStands(r) /\ r.id \in Trees /\ r.commit \in Commits
      BY <2>1 DEF ReleaseTypeOK, Report
    <3>2. QED BY <1>3, <3>1 DEF ReportStands, TreesStay
  <2>2. QED BY <2>1
<1>8. ASSUME NEW s \in Switchers PROVE SwitchStands(switcher[s])'
  <2>1. SwitchStands(switcher[s]) /\ switcher[s].candidate \in Releases /\ switcher[s].previous \in Releases /\ Active \in Releases
    BY ReleaseFacts DEF ReleaseTypeOK, Switch
  <2>2. QED BY <1>2, <2>1 DEF SwitchStands
<1>9. QED BY <1>1, <1>5, <1>6, <1>7, <1>8

(* The steps of Install that leave the parent alone. *)
LEMMA InstallSteps ==
  ASSUME ReleaseInv, NEW i \in Installers,
         \/ \E n \in Releases, c \in Commits : InstallBegin(i, n, c)
         \/ InstallRead(i) \/ InstallCopy(i) \/ InstallVerify(i) \/ InstallCompare(i) \/ InstallSeal(i) \/ InstallFinal(i)
         \/ InstallFails(i)
  PROVE  ReleaseInv'
<1>1. /\ installer \in [Installers -> Install] /\ installer[i] \in Install /\ InstallStands(installer[i])
      /\ build \in [Files -> Commits] /\ installed \subseteq Report /\ tree \in [Trees -> Tree] /\ entry \in Places
  BY DEF ReleaseInv, ReleaseTypeOK
<1>2. /\ UNCHANGED <<entry, durable, switcher, lock, broken>> /\ build' = build
  BY DEF InstallBegin, InstallRead, InstallCopy, InstallVerify, InstallCompare, InstallSeal, InstallFinal,
     InstallFails, InstallUnchanged
<1>3. UNCHANGED tree => TreesStay
  BY <1>1 DEF TreesStay
<1>4. NoInstall \in Install /\ NoInstall.pc = "idle" /\ NoManifest.facts \in FileSets /\ 1 \in Files
  BY ReleaseFacts DEF NoInstall, Install, InstallPCs, NoManifest, FileSets
<1>5. build \in FileSets
  BY <1>1 DEF FileSets
<1>6. CASE \E n \in Releases, c \in Commits : InstallBegin(i, n, c)
  <2>1. PICK n \in Releases, c \in Commits : InstallBegin(i, n, c)
    BY <1>6
  <2>2. PICK idle : idle = NoInstall
    OBVIOUS
  <2>3. PICK row : row = [idle EXCEPT !.pc = "read", !.into = n, !.expected = c]
    OBVIOUS
  <2>4. row \in Install /\ row.pc = "read" /\ row.expected = c
    BY <1>4, <2>2, <2>3 DEF Install, InstallPCs
  <2>5. installer' = [installer EXCEPT ![i] = row] /\ UNCHANGED <<tree, installed>>
    BY <2>1, <2>2, <2>3 DEF InstallBegin
  <2>6. InstallStands(row)
    BY <2>4 DEF InstallStands
  <2>7. QED BY <1>1, <1>2, <1>3, <2>4, <2>5, <2>6, InstallerMoves
<1>7. CASE InstallRead(i)
  <2>1. PICK row : row = [installer[i] EXCEPT !.pc = "mkdir", !.facts = build]
    OBVIOUS
  <2>2. row \in Install /\ row.pc = "mkdir" /\ row.expected = installer[i].expected
    BY <1>1, <1>5, <2>1 DEF Install, InstallPCs
  <2>3. installer' = [installer EXCEPT ![i] = row] /\ UNCHANGED <<tree, installed>> /\ installer[i].pc = "read"
    BY <1>1, <1>7, <2>1 DEF InstallRead
  <2>4. InstallStands(row)
    BY <1>1, <2>2, <2>3 DEF InstallStands
  <2>5. QED BY <1>1, <1>2, <1>3, <2>2, <2>3, <2>4, InstallerMoves
<1>8. CASE InstallCopy(i)
  <2>1. PICK at, pc : /\ at = (IF installer[i].at + 1 \in Files THEN installer[i].at + 1 ELSE installer[i].at)
                      /\ pc = (IF installer[i].at + 1 \in Files THEN "copy" ELSE "verify")
    OBVIOUS
  <2>2. PICK row : row = [installer[i] EXCEPT !.at = at, !.pc = pc]
    OBVIOUS
  <2>3. at \in Files /\ pc \in {"copy", "verify"} /\ pc \in InstallPCs
    BY <1>1, <2>1 DEF Install, InstallPCs
  <2>4. row \in Install /\ row.pc = pc /\ row.expected = installer[i].expected /\ row.made = installer[i].made
    BY <1>1, <2>2, <2>3 DEF Install
  <2>5. installer' = [installer EXCEPT ![i] = row] /\ UNCHANGED installed /\ installer[i].pc = "copy"
    BY <1>1, <1>8, <2>1, <2>2 DEF InstallCopy
  <2>6. InstallStands(row)
    BY <1>1, <2>3, <2>4, <2>5 DEF InstallStands
  <2>7. TreesStay
    BY <1>8, WritesKeepTrees
  <2>8. QED BY <1>1, <1>2, <2>4, <2>5, <2>6, <2>7, InstallerMoves
<1>9. CASE InstallVerify(i) \/ InstallCompare(i) \/ InstallSeal(i)
  <2>1. PICK pc \in {"compare", "seal", "sync"} : installer' = [installer EXCEPT ![i].pc = pc]
    BY <1>9 DEF InstallVerify, InstallCompare, InstallSeal, InstallStep
  <2>2. installer[i].pc \in {"verify", "compare", "seal"} /\ UNCHANGED installed
    BY <1>9 DEF InstallVerify, InstallCompare, InstallSeal
  <2>3. PICK row : row = [installer[i] EXCEPT !.pc = pc]
    OBVIOUS
  <2>4. row \in Install /\ row.pc = pc /\ row.expected = installer[i].expected /\ row.made = installer[i].made
    BY <1>1, <2>3 DEF Install, InstallPCs
  <2>5. installer' = [installer EXCEPT ![i] = row]
    BY <1>1, <2>1, <2>3
  <2>6. InstallStands(row)
    BY <1>1, <2>2, <2>4 DEF InstallStands
  <2>7. TreesStay
    BY <1>3, <1>9, WritesKeepTrees DEF InstallVerify
  <2>8. QED BY <1>1, <1>2, <2>2, <2>4, <2>5, <2>6, <2>7, InstallerMoves
<1>10. CASE InstallFinal(i)
  <2>1. PICK t : t = entry[installer[i].into]
    OBVIOUS
  <2>2. PICK c : c = installer[i].expected
    OBVIOUS
  <2>3. t \in Trees /\ c \in Commits /\ verifyMembers(tree[t].files, c) /\ installer[i].pc = "final" /\ UNCHANGED tree
    <3>1. installer[i].pc = "final" /\ UNCHANGED tree /\ verifyInstallation(installer[i].into, c)
      BY <1>10, <2>2 DEF InstallFinal
    <3>2. t # NoEntry /\ verifyMembers(tree[t].files, c)
      BY <2>1, <3>1 DEF verifyInstallation, VerifyInstalledRelease
    <3>3. t \in Trees
      BY <1>1, <2>1, <3>2 DEF Places, Install
    <3>4. c \in Commits
      BY <1>1, <2>2, <3>1 DEF InstallStands
    <3>5. QED BY <3>1, <3>2, <3>3, <3>4
  <2>4. PICK r : r = [id |-> t, commit |-> c, own |-> t = installer[i].made]
    OBVIOUS
  <2>5. r \in Report /\ r.id = t /\ r.commit = c /\ (r.own => t = installer[i].made)
    BY <2>3, <2>4 DEF Report
  <2>6. installed' = installed \cup {r} /\ installer' = [installer EXCEPT ![i] = NoInstall]
    BY <1>10, <2>1, <2>2, <2>4 DEF InstallFinal, Reported
  <2>7. ReportStands(r)'
    <3>1. verifyMembers(tree'[r.id].files, r.commit)
      BY <2>3, <2>5
    <3>2. r.own => Holds(durable', r.id)
      BY <1>1, <1>2, <2>3, <2>5 DEF InstallStands
    <3>3. QED BY <3>1, <3>2 DEF ReportStands
  <2>8. installed' \subseteq Report /\ \A x \in installed' \ installed : ReportStands(x)'
    BY <1>1, <2>5, <2>6, <2>7
  <2>9. InstallStands(NoInstall)
    BY <1>4 DEF InstallStands
  <2>10. QED BY <1>1, <1>2, <1>3, <1>4, <2>3, <2>6, <2>8, <2>9, InstallerMoves
<1>11. CASE InstallFails(i)
  <2>1. installer' = [installer EXCEPT ![i] = NoInstall] /\ UNCHANGED <<tree, installed>>
    BY <1>11 DEF InstallFails
  <2>2. InstallStands(NoInstall)
    BY <1>4 DEF InstallStands
  <2>3. QED BY <1>1, <1>2, <1>3, <1>4, <2>1, <2>2, InstallerMoves
<1>12. QED BY <1>6, <1>7, <1>8, <1>9, <1>10, <1>11


(* Names change and directories do not: what was durable still is. *)
LEMMA ReportsStay ==
  ASSUME ReleaseInv, UNCHANGED <<tree, installed>>, \A t \in Trees : Holds(durable, t) => Holds(durable', t)
  PROVE  \A r \in installed' : ReportStands(r)'
<1> SUFFICES ASSUME NEW r \in installed PROVE ReportStands(r)'
  OBVIOUS
<1>1. ReportStands(r) /\ r.id \in Trees
  BY DEF ReleaseInv, ReleaseTypeOK, Report
<1>2. QED BY <1>1 DEF ReportStands

(* An installation keeps its place while names are only added or moved. *)
LEMMA InstallsStay ==
  ASSUME NEW r \in Install, InstallStands(r),
         \A t \in Trees : (Holds(durable, t) => Holds(durable', t)) /\ (Holds(entry, t) => Holds(entry', t))
  PROVE  InstallStands(r)'
BY DEF InstallStands

(* A sound place is sound after a step that keeps it. *)
LEMMA PlaceStays ==
  ASSUME UNCHANGED tree, NEW e, NEW f, NEW n, NEW k, f[k] = e[n], SoundAt(e, n)
  PROVE  SoundAt(f, k)'
BY DEF SoundAt

(* Mkdir takes a free name and no other. *)
LEMMA MkdirStands ==
  ASSUME ReleaseInv, NEW i \in Installers, NEW t \in Trees, InstallMkdir(i, t)
  PROVE  ReleaseInv'
<1> USE DEF ReleaseInv
<1>1. /\ installer \in [Installers -> Install] /\ installer[i] \in Install /\ InstallStands(installer[i])
      /\ entry \in Places /\ durable \in Places /\ switcher \in [Switchers -> Switch] /\ Active \in Releases
  BY ReleaseFacts DEF ReleaseTypeOK
<1>2. PICK k \in Releases : k = installer[i].into
  BY <1>1 DEF Install
<1>3. PICK row : row = [installer[i] EXCEPT !.pc = "copy", !.made = t]
  OBVIOUS
<1>4. /\ installer[i].pc = "mkdir" /\ entry[k] = NoEntry /\ entry' = [entry EXCEPT ![k] = t]
      /\ installer' = [installer EXCEPT ![i] = row]
      /\ UNCHANGED <<durable, tree, installed, build, switcher, lock, broken>>
  BY <1>1, <1>2, <1>3 DEF InstallMkdir, InstallUnchanged
<1>5. row \in Install /\ row.pc = "copy" /\ row.made = t /\ row.expected = installer[i].expected
  BY <1>1, <1>3 DEF Install, InstallPCs
<1>6. entry' \in Places /\ entry'[k] = t /\ \A n \in Releases \ {k} : entry'[n] = entry[n]
  BY <1>1, <1>4 DEF Places
<1>7. /\ \A u \in Trees : (Holds(entry, u) => Holds(entry', u)) /\ Holds(durable', u) = Holds(durable, u)
      /\ Holds(entry', t)
  <2>1. ASSUME NEW u \in Trees, NEW n \in Releases, entry[n] = u PROVE entry'[n] = u
    BY <1>4, <1>6, <2>1, ReleaseFacts
  <2>2. QED BY <1>4, <1>6, <2>1 DEF Holds
<1>8. \A n \in Releases : (SoundAt(entry, n) => SoundAt(entry, n)') /\ (SoundAt(durable, n) => SoundAt(durable, n)')
  <2>1. ASSUME NEW n \in Releases, SoundAt(entry, n) PROVE SoundAt(entry, n)'
    BY <1>4, <1>6, <2>1, ReleaseFacts DEF SoundAt
  <2>2. QED BY <1>4, <2>1 DEF SoundAt
<1>9. (TwoSound(entry) => TwoSound(entry)') /\ (TwoSound(durable) => TwoSound(durable)')
  BY <1>8 DEF TwoSound
<1>10. entry'[Active] = NoEntry => entry[Active] = NoEntry
  BY <1>1, <1>6, ReleaseFacts
<1>11. ReleaseTypeOK'
  BY <1>1, <1>4, <1>5, <1>6 DEF ReleaseTypeOK
<1>12. ParentStands' /\ LockStands'
  BY <1>4, <1>7, <1>9, <1>10 DEF ParentStands, LockStands
<1>13. ASSUME NEW j \in Installers PROVE InstallStands(installer[j])'
  <2>1. CASE j = i
    <3>1. installer'[j] = row BY <1>1, <1>4, <2>1
    <3>2. row.expected \in Commits BY <1>1, <1>4, <1>5 DEF InstallStands
    <3>3. QED BY <1>5, <1>7, <3>1, <3>2 DEF InstallStands
  <2>2. CASE j # i
    <3>1. installer'[j] = installer[j] /\ installer[j] \in Install /\ InstallStands(installer[j])
      BY <1>1, <1>4, <2>2
    <3>2. PICK r : r = installer[j] OBVIOUS
    <3>3. InstallStands(r)' BY <1>7, <3>1, <3>2, InstallsStay
    <3>4. QED BY <3>1, <3>2, <3>3
  <2>3. QED BY <2>1, <2>2
<1>14. \A r \in installed' : ReportStands(r)'
  BY <1>4, <1>7, ReportsStay
<1>15. ASSUME NEW s \in Switchers PROVE SwitchStands(switcher[s])'
  <2>1. SwitchStands(switcher[s]) /\ switcher[s].candidate \in Releases /\ switcher[s].previous \in Releases
    BY <1>1 DEF Switch
  <2>2. QED BY <1>1, <1>4, <1>8, <2>1 DEF SwitchStands
<1>16. QED BY <1>11, <1>12, <1>13, <1>14, <1>15

(* A sync makes the parent durable as it is. *)
LEMMA SyncStands ==
  ASSUME ReleaseInv, NEW i \in Installers, InstallSync(i)
  PROVE  ReleaseInv'
<1> USE DEF ReleaseInv
<1>1. /\ installer \in [Installers -> Install] /\ installer[i] \in Install /\ InstallStands(installer[i])
      /\ entry \in Places /\ durable \in Places /\ switcher \in [Switchers -> Switch]
  BY DEF ReleaseTypeOK
<1>2. PICK row : row = [installer[i] EXCEPT !.pc = "final"]
  OBVIOUS
<1>3. /\ installer[i].pc = "sync" /\ durable' = entry
      /\ installer' = [installer EXCEPT ![i] = row]
      /\ UNCHANGED <<entry, tree, installed, build, switcher, lock, broken>>
  BY <1>1, <1>2 DEF InstallSync, InstallStep, InstallUnchanged
<1>4. row \in Install /\ row.pc = "final" /\ row.made = installer[i].made /\ row.expected = installer[i].expected
  BY <1>1, <1>2 DEF Install, InstallPCs
<1>5. /\ \A u \in Trees : Holds(durable, u) => Holds(entry, u)
      /\ \A u : Holds(durable', u) = Holds(entry, u) /\ Holds(entry', u) = Holds(entry, u)
  BY <1>3 DEF ParentStands, Holds
<1>6. (TwoSound(entry) => TwoSound(entry)') /\ (TwoSound(entry) => TwoSound(durable)')
  BY <1>3 DEF TwoSound, SoundAt
<1>7. ReleaseTypeOK'
  BY <1>1, <1>3, <1>4 DEF ReleaseTypeOK
<1>8. ParentStands' /\ LockStands'
  BY <1>3, <1>5, <1>6 DEF ParentStands, LockStands
<1>9. ASSUME NEW j \in Installers PROVE InstallStands(installer[j])'
  <2>1. CASE j = i
    <3>1. installer'[j] = row BY <1>1, <1>3, <2>1
    <3>2. QED BY <1>1, <1>3, <1>4, <1>5, <3>1 DEF InstallStands
  <2>2. CASE j # i
    <3>1. installer'[j] = installer[j] /\ installer[j] \in Install /\ InstallStands(installer[j])
      BY <1>1, <1>3, <2>2
    <3>2. PICK r : r = installer[j] OBVIOUS
    <3>3. InstallStands(r)' BY <1>5, <3>1, <3>2, InstallsStay
    <3>4. QED BY <3>1, <3>2, <3>3
  <2>3. QED BY <2>1, <2>2
<1>10. \A r \in installed' : ReportStands(r)'
  BY <1>3, <1>5, ReportsStay
<1>11. ASSUME NEW s \in Switchers PROVE SwitchStands(switcher[s])'
  BY <1>3 DEF SwitchStands, SoundAt
<1>12. QED BY <1>7, <1>8, <1>9, <1>10, <1>11

(* One switch moves under the lock, or without touching a name. *)
LEMMA SwitcherMoves ==
  ASSUME ReleaseInv, NEW s \in Switchers, NEW row \in Switch, switcher' = [switcher EXCEPT ![s] = row],
         SwitchUnchanged,
         SwitchStands(row)',
         entry' \in Places, entry' # entry => lock = s,
         \A t \in Trees : Holds(entry, t) => Holds(entry', t),
         durable' = durable \/ durable' = entry',
         entry'[Active] = NoEntry => TwoSound(entry'),
         entry'[Active] = NoEntry => broken' \/ row.pc \in {"sync", "in"}
           \/ (entry[Active] = NoEntry /\ ~broken /\ switcher[s].pc \notin {"sync", "in"}),
         broken' \in BOOLEAN,
         lock' \in Switchers \cup {NoEntry},
         row.pc \in LockedPCs => lock' = s,
         \A d \in Switchers \ {s} : lock = d => lock' = d
  PROVE  ReleaseInv'
<1> USE DEF ReleaseInv
<1>1. UNCHANGED <<build, tree, installer, installed>>
  BY DEF SwitchUnchanged
<1>2. /\ entry \in Places /\ durable \in Places /\ switcher \in [Switchers -> Switch] /\ Active \in Releases
      /\ \A t \in Trees : Holds(durable, t) => Holds(entry, t)
  BY ReleaseFacts DEF ReleaseTypeOK, ParentStands
<1>3. \A e \in Places : TwoSound(e)' = TwoSound(e)
  BY <1>1 DEF TwoSound, SoundAt
<1>4. switcher'[s] = row /\ \A d \in Switchers \ {s} : switcher'[d] = switcher[d]
  BY <1>2
<1>5. ReleaseTypeOK'
  BY <1>1, <1>2 DEF ReleaseTypeOK
<1>6. /\ \A t \in Trees : Holds(durable, t) => Holds(durable', t)
      /\ \A t \in Trees : Holds(durable', t) => Holds(entry', t)
  BY <1>2
<1>7. ParentStands'
  <2>1. entry'[Active] = NoEntry => TwoSound(entry)'
    BY <1>1 DEF TwoSound, SoundAt
  <2>2. CASE durable' = durable
    <3>1. TwoSound(durable) => TwoSound(durable)'
      BY <1>1, <2>2 DEF TwoSound, SoundAt
    <3>2. QED BY <1>6, <2>1, <2>2, <3>1 DEF ParentStands
  <2>3. CASE durable' = entry'
    <3>1. TwoSound(entry)' => TwoSound(durable)'
      BY <2>3 DEF TwoSound, SoundAt
    <3>2. QED BY <1>6, <2>1, <2>3, <3>1 DEF ParentStands
  <2>4. QED BY <2>2, <2>3
<1>8. ASSUME NEW j \in Installers PROVE InstallStands(installer[j])'
  <2>1. installer'[j] = installer[j] /\ installer[j] \in Install /\ InstallStands(installer[j])
    BY <1>1 DEF ReleaseTypeOK
  <2>2. PICK r : r = installer[j] OBVIOUS
  <2>3. InstallStands(r)' BY <1>6, <2>1, <2>2, InstallsStay
  <2>4. QED BY <2>1, <2>2, <2>3
<1>9. \A r \in installed' : ReportStands(r)'
  BY <1>1, <1>6, ReportsStay
<1>10. ASSUME NEW d \in Switchers, d # s, switcher[d].pc \in LockedPCs PROVE lock = d /\ lock' = d /\ entry' = entry
  BY <1>10 DEF LockStands
<1>11. ASSUME NEW d \in Switchers PROVE SwitchStands(switcher[d])'
  <2>1. CASE d = s
    BY <1>4, <2>1
  <2>2. CASE d # s
    <3>1. switcher'[d] = switcher[d] /\ SwitchStands(switcher[d])
      BY <1>4, <2>2
    <3>2. switcher[d].pc \in {"away", "sync", "in", "sync2", "readback"} => entry' = entry
      BY <1>10, <2>2 DEF LockedPCs
    <3>3. QED BY <1>1, <3>1, <3>2 DEF SwitchStands, SoundAt
  <2>3. QED BY <2>1, <2>2
<1>12. LockStands'
  <2>1. ASSUME NEW d \in Switchers, switcher'[d].pc \in LockedPCs PROVE lock' = d
    BY <1>4, <1>10, <2>1
  <2>2. ASSUME entry'[Active] = NoEntry PROVE broken' \/ \E d \in Switchers : switcher'[d].pc \in {"sync", "in"}
    <3>1. CASE row.pc \in {"sync", "in"}
      BY <1>4, <3>1
    <3>2. CASE entry[Active] = NoEntry /\ ~broken /\ switcher[s].pc \notin {"sync", "in"}
      <4>1. PICK d \in Switchers : switcher[d].pc \in {"sync", "in"}
        BY <3>2 DEF LockStands
      <4>2. d # s
        BY <3>2, <4>1
      <4>3. QED BY <1>4, <4>1, <4>2
    <3>3. QED BY <2>2, <3>1, <3>2
  <2>3. QED BY <2>1, <2>2 DEF LockStands
<1>13. QED BY <1>5, <1>7, <1>8, <1>9, <1>11, <1>12


(* Distinct names, from the count that the switch checks. *)
LEMMA ThreeNames ==
  ASSUME NEW a, NEW b, NEW c, Cardinality({a, b, c}) = 3
  PROVE  a # b /\ a # c /\ b # c
<1>1. \A x, y : Cardinality({x, y}) # 3
  <2> SUFFICES ASSUME NEW x, NEW y PROVE Cardinality({x, y}) # 3
    OBVIOUS
  <2>1. IsFiniteSet({x}) /\ Cardinality({x}) = 1
    BY FS_Singleton
  <2>2. {x, y} = {x} \cup {y}
    OBVIOUS
  <2>3. Cardinality({x} \cup {y}) \in {1, 2}
    BY <2>1, FS_AddElement
  <2>4. QED BY <2>2, <2>3
<1>2. (a = b => {a, b, c} = {a, c}) /\ (a = c => {a, b, c} = {a, b}) /\ (b = c => {a, b, c} = {a, b})
  OBVIOUS
<1>3. QED BY <1>1, <1>2

(* Two members of a finite set. *)
LEMMA TwoNames ==
  ASSUME NEW S, IsFiniteSet(S), NEW a \in S, NEW b \in S, a # b
  PROVE  Cardinality(S) >= 2
<1>1. IsFiniteSet({a}) /\ Cardinality({a}) = 1
  BY FS_Singleton
<1>2. IsFiniteSet({a} \cup {b}) /\ Cardinality({a} \cup {b}) = 2
  <2>1. PICK T : T = {a}
    OBVIOUS
  <2>2. IsFiniteSet(T) /\ Cardinality(T) = 1 /\ b \notin T
    BY <1>1, <2>1
  <2>3. IsFiniteSet(T \cup {b}) /\ Cardinality(T \cup {b}) = Cardinality(T) + 1
    BY <2>2, FS_AddElement
  <2>4. QED BY <2>1, <2>2, <2>3
<1>3. Cardinality({a} \cup {b}) <= Cardinality(S)
  BY <1>2, FS_Subset
<1>4. Cardinality(S) \in Nat
  BY FS_CardinalityType
<1>5. QED BY <1>2, <1>3, <1>4

(* A release that reads back is whole. *)
LEMMA VerifiedIsSound ==
  ASSUME ReleaseInv, NEW n \in Releases, NEW id \in Manifest, VerifyInstalledRelease(n, id)
  PROVE  SoundAt(entry, n)
<1>1. entry[n] \in Trees
  BY ReleaseFacts DEF VerifyInstalledRelease, ReleaseInv, ReleaseTypeOK, Places
<1>2. QED
  BY <1>1 DEF VerifyInstalledRelease, SoundAt, Sound, Whole, Manifest

(* The facts every step of a switch starts from. *)
LEMMA SwitcherFacts ==
  ASSUME ReleaseInv, NEW s \in Switchers
  PROVE  /\ switcher \in [Switchers -> Switch] /\ switcher[s] \in Switch /\ SwitchStands(switcher[s])
         /\ switcher[s].candidate \in Releases /\ switcher[s].previous \in Releases /\ Active \in Releases
         /\ entry \in Places /\ broken \in BOOLEAN /\ lock \in Switchers \cup {NoEntry}
         /\ switcher[s].pc \in LockedPCs => lock = s
         /\ NoSwitch \in Switch /\ NoSwitch.pc = "idle" /\ SwitchStands(NoSwitch)'
         /\ entry[Active] = NoEntry => TwoSound(entry)
<1>1. NoSwitch \in Switch /\ NoSwitch.pc = "idle"
  BY ReleaseFacts DEF NoSwitch, Switch, SwitchPCs, Manifests, NoManifest
<1>2. SwitchStands(NoSwitch)'
  BY <1>1 DEF SwitchStands
<1>3. QED BY <1>1, <1>2, ReleaseFacts DEF ReleaseInv, ReleaseTypeOK, ParentStands, LockStands, Switch

(* A step of a switch that changes no name and only its own pc. *)
LEMMA SwitchGoes ==
  ASSUME ReleaseInv, NEW s \in Switchers, NEW pc \in SwitchPCs, SwitchStep(s, pc), SwitchUnchanged,
         UNCHANGED <<entry, broken>>, durable' = durable \/ durable' = entry,
         lock' \in Switchers \cup {NoEntry}, pc \in LockedPCs => lock' = s,
         \A d \in Switchers \ {s} : lock = d => lock' = d,
         SwitchStands([switcher[s] EXCEPT !.pc = pc]),
         switcher[s].pc \in {"sync", "in"} => pc \in {"sync", "in"}
  PROVE  ReleaseInv'
<1>1. PICK row : row = [switcher[s] EXCEPT !.pc = pc]
  OBVIOUS
<1>2. row \in Switch /\ row.pc = pc /\ switcher' = [switcher EXCEPT ![s] = row]
  BY <1>1, SwitcherFacts DEF SwitchStep, Switch
<1>3. UNCHANGED <<tree, entry>>
  BY DEF SwitchUnchanged
<1>4. SwitchStands(row)
  BY <1>1
<1>5. SwitchStands(row)'
  BY <1>3, <1>4 DEF SwitchStands, SoundAt
<1>6. entry' \in Places /\ broken' \in BOOLEAN /\ (entry'[Active] = NoEntry => TwoSound(entry'))
      /\ \A t \in Trees : Holds(entry, t) => Holds(entry', t)
  BY <1>3, SwitcherFacts
<1>7. entry'[Active] = NoEntry => broken' \/ row.pc \in {"sync", "in"}
           \/ (entry[Active] = NoEntry /\ ~broken /\ switcher[s].pc \notin {"sync", "in"})
  BY <1>2, <1>3
<1>8. QED BY <1>2, <1>3, <1>5, <1>6, <1>7, SwitcherMoves

(* A switch ends; names may have been put back. *)
LEMMA SwitchReturns ==
  ASSUME ReleaseInv, NEW s \in Switchers, SwitchEnds(s), SwitchUnchanged,
         entry' \in Places, entry' # entry => lock = s,
         \A t \in Trees : Holds(entry, t) => Holds(entry', t),
         durable' = durable \/ durable' = entry',
         entry'[Active] = NoEntry => TwoSound(entry'),
         entry'[Active] = NoEntry => broken' \/ (entry[Active] = NoEntry /\ ~broken /\ switcher[s].pc \notin {"sync", "in"}),
         broken' \in BOOLEAN
  PROVE  ReleaseInv'
<1>1. switcher' = [switcher EXCEPT ![s] = NoSwitch] /\ lock' = IF lock = s THEN NoEntry ELSE lock
  BY DEF SwitchEnds
<1>2. NoSwitch \in Switch /\ NoSwitch.pc \notin LockedPCs /\ SwitchStands(NoSwitch)' /\ lock \in Switchers \cup {NoEntry}
  BY SwitcherFacts DEF LockedPCs
<1>3. lock' \in Switchers \cup {NoEntry} /\ \A d \in Switchers \ {s} : lock = d => lock' = d
  BY <1>1, <1>2
<1>4. QED BY <1>1, <1>2, <1>3, SwitcherMoves

(* A switch begins once all three names differ and both releases verify. *)
LEMMA BeginStands ==
  ASSUME ReleaseInv, NEW s \in Switchers, NEW c \in Releases, NEW p \in Releases, NEW x \in Manifest, NEW y \in Manifest,
         SwitchBegin(s, c, p, x, y)
  PROVE  ReleaseInv'
<1>1. PICK row : row = [pc |-> "lock", candidate |-> c, previous |-> p, old |-> x, new |-> y]
  OBVIOUS
<1>2. /\ switcher[s].pc = "idle" /\ Cardinality({Active, c, p}) = 3 /\ Preconditions(row)
      /\ switcher' = [switcher EXCEPT ![s] = row]
      /\ UNCHANGED <<entry, durable, lock, broken>> /\ SwitchUnchanged
  BY <1>1 DEF SwitchBegin
<1>3. /\ row \in Switch /\ row.pc = "lock" /\ row.candidate = c /\ row.previous = p /\ row.old = x /\ row.new = y
  BY <1>1 DEF Switch, SwitchPCs, Manifests
<1>4. Active # c /\ Active # p /\ c # p
  BY <1>2, ThreeNames
<1>5. SwitchStands(row)'
  BY <1>3, <1>4 DEF SwitchStands
<1>6. entry[Active] # NoEntry
  BY <1>2 DEF Preconditions, VerifyInstalledRelease
<1>7. entry' \in Places /\ broken' \in BOOLEAN /\ lock' \in Switchers \cup {NoEntry}
      /\ \A t \in Trees : Holds(entry, t) => Holds(entry', t)
  BY <1>2, SwitcherFacts
<1>8. row.pc \notin LockedPCs
  BY <1>3 DEF LockedPCs
<1>9. QED BY <1>2, <1>3, <1>5, <1>6, <1>7, <1>8, SwitcherMoves

(* The lock is taken, and everything is checked again under it. *)
LEMMA LockAndRecheck ==
  ASSUME ReleaseInv, NEW s \in Switchers, SwitchLock(s) \/ SwitchRecheck(s)
  PROVE  ReleaseInv'
<1>1. /\ switcher[s] \in Switch /\ SwitchStands(switcher[s]) /\ lock \in Switchers \cup {NoEntry}
      /\ switcher[s].candidate \in Releases /\ Active \in Releases
      /\ switcher[s].pc \in LockedPCs => lock = s
  BY SwitcherFacts
<1>2. CASE SwitchLock(s)
  <2>1. /\ switcher[s].pc = "lock" /\ lock = NoEntry /\ lock' = s /\ SwitchStep(s, "recheck")
        /\ UNCHANGED <<entry, durable, broken>> /\ SwitchUnchanged
    BY <1>2 DEF SwitchLock
  <2>2. PICK r : r = [switcher[s] EXCEPT !.pc = "recheck"]
    OBVIOUS
  <2>3. /\ r.pc = "recheck" /\ r.candidate = switcher[s].candidate /\ r.previous = switcher[s].previous
        /\ r.old = switcher[s].old /\ r.new = switcher[s].new
    BY <1>1, <2>2 DEF Switch
  <2>4. SwitchStands(r)
    BY <1>1, <2>1, <2>3 DEF SwitchStands
  <2>5. "recheck" \in SwitchPCs
    BY DEF SwitchPCs
  <2>6. \A d \in Switchers \ {s} : lock = d => lock' = d
    BY <2>1, ReleaseFacts
  <2>7. QED BY <2>1, <2>2, <2>4, <2>5, <2>6, SwitchGoes
<1>3. CASE SwitchRecheck(s)
  <2>1. /\ switcher[s].pc = "recheck" /\ Preconditions(switcher[s]) /\ SwitchStep(s, "away")
        /\ UNCHANGED <<entry, durable, lock, broken>> /\ SwitchUnchanged
    BY <1>3 DEF SwitchRecheck
  <2>2. PICK r : r = [switcher[s] EXCEPT !.pc = "away"]
    OBVIOUS
  <2>3. /\ r.pc = "away" /\ r.candidate = switcher[s].candidate /\ r.previous = switcher[s].previous
        /\ r.old = switcher[s].old /\ r.new = switcher[s].new
    BY <1>1, <2>2 DEF Switch
  <2>4. switcher[s].old \in Manifest /\ switcher[s].new \in Manifest
    BY <1>1, <2>1 DEF SwitchStands
  <2>5. SoundAt(entry, Active) /\ SoundAt(entry, switcher[s].candidate)
    BY <1>1, <2>1, <2>4, VerifiedIsSound DEF Preconditions
  <2>6. SwitchStands(r)
    BY <1>1, <2>1, <2>3, <2>5 DEF SwitchStands
  <2>7. "away" \in SwitchPCs /\ lock = s
    BY <1>1, <2>1 DEF SwitchPCs, LockedPCs
  <2>8. QED BY <1>1, <2>1, <2>2, <2>6, <2>7, SwitchGoes
<1>4. QED BY <1>2, <1>3

(* The old release goes aside: it and the candidate are whole. *)
LEMMA AwayStands ==
  ASSUME ReleaseInv, NEW s \in Switchers, RenameAway(s)
  PROVE  ReleaseInv'
<1>1. PICK r : r = switcher[s]
  OBVIOUS
<1>2. PICK row : row = [r EXCEPT !.pc = "sync"]
  OBVIOUS
<1>3. /\ r \in Switch /\ SwitchStands(r) /\ r.candidate \in Releases /\ r.previous \in Releases /\ Active \in Releases
      /\ entry \in Places /\ broken \in BOOLEAN /\ (r.pc \in LockedPCs => lock = s) /\ switcher \in [Switchers -> Switch]
      /\ lock \in Switchers \cup {NoEntry}
  BY <1>1, SwitcherFacts
<1>4. /\ r.pc = "away" /\ CanRename(entry, Active, r.previous) /\ entry' = Rename(entry, Active, r.previous)
      /\ UNCHANGED <<durable, lock, broken>> /\ SwitchUnchanged
  BY <1>1 DEF RenameAway
<1>5. switcher' = [switcher EXCEPT ![s] = row]
  BY <1>1, <1>2, <1>3 DEF RenameAway, SwitchStep
<1>6. /\ row \in Switch /\ row.pc = "sync" /\ row.candidate = r.candidate /\ row.previous = r.previous
      /\ row.old = r.old /\ row.new = r.new
  BY <1>2, <1>3 DEF Switch, SwitchPCs
<1>7. Active # r.candidate /\ Active # r.previous /\ r.candidate # r.previous /\ SoundAt(entry, Active) /\ SoundAt(entry, r.candidate)
  BY <1>3, <1>4 DEF SwitchStands
<1>8. /\ entry' \in Places /\ \A t \in Trees : Holds(entry, t) => Holds(entry', t)
      /\ entry'[r.previous] = entry[Active] /\ entry'[r.candidate] = entry[r.candidate]
  <2>1. PICK e \in Places, a \in Releases, b \in Releases : e = entry /\ a = Active /\ b = r.previous
    BY <1>3
  <2>2. CanRename(e, a, b) /\ entry' = Rename(e, a, b)
    BY <1>4, <2>1
  <2>3. /\ Rename(e, a, b) \in Places /\ Rename(e, a, b)[b] = e[a]
        /\ \A t \in Trees : Holds(e, t) => Holds(Rename(e, a, b), t)
        /\ \A n \in Releases \ {a, b} : Rename(e, a, b)[n] = e[n]
    BY <2>2, RenameKeeps
  <2>4. r.candidate \in Releases \ {a, b}
    BY <1>3, <1>7, <2>1
  <2>5. QED BY <2>1, <2>2, <2>3, <2>4
<1>9. SoundAt(entry', r.previous) /\ SoundAt(entry', r.candidate)
  BY <1>7, <1>8 DEF SoundAt
<1>10. TwoSound(entry')
  BY <1>3, <1>7, <1>9 DEF TwoSound
<1>11. UNCHANGED tree
  BY <1>4 DEF SwitchUnchanged
<1>12. SoundAt(entry, r.previous)' /\ SoundAt(entry, r.candidate)'
  BY <1>1, <1>9, <1>11 DEF SoundAt
<1>13. SwitchStands(row)'
  BY <1>3, <1>4, <1>6, <1>7, <1>12 DEF SwitchStands
<1>14. lock = s
  BY <1>3, <1>4 DEF LockedPCs
<1>15. QED BY <1>3, <1>4, <1>5, <1>6, <1>8, <1>10, <1>13, <1>14, SwitcherMoves

(* A restore fills the active name, unless another has taken it. *)
LEMMA RestoreStands ==
  ASSUME ReleaseInv, NEW s \in Switchers, switcher[s].pc \in {"sync", "in"}, Restore(s), SwitchUnchanged
  PROVE  ReleaseInv'
<1>1. PICK r : r = switcher[s]
  OBVIOUS
<1>2. /\ SwitchStands(r) /\ r.previous \in Releases /\ Active \in Releases
      /\ entry \in Places /\ broken \in BOOLEAN /\ (r.pc \in LockedPCs => lock = s)
  BY <1>1, SwitcherFacts
<1>3. PICK e : e = TryRename(entry, r.previous, Active)
  OBVIOUS
<1>4. entry' = e /\ durable' \in {durable, e} /\ broken' = (broken \/ entry[Active] # NoEntry) /\ SwitchEnds(s)
  BY <1>1, <1>3 DEF Restore
<1>5. SoundAt(entry, r.previous) /\ lock = s
  BY <1>1, <1>2 DEF SwitchStands, LockedPCs
<1>6. entry[r.previous] # NoEntry
  BY <1>5, ReleaseFacts DEF SoundAt
<1>7. e \in Places /\ \A t \in Trees : Holds(entry, t) => Holds(e, t)
  BY <1>2, <1>3, RenameKeeps
<1>8. e[Active] # NoEntry
  <2>1. CASE entry[Active] = NoEntry
    <3>1. CanRename(entry, r.previous, Active)
      BY <1>6, <2>1 DEF CanRename
    <3>2. e = Rename(entry, r.previous, Active) /\ e[Active] = entry[r.previous]
      BY <1>2, <1>3, <3>1, RenameKeeps DEF TryRename
    <3>3. QED BY <1>6, <3>2
  <2>2. CASE entry[Active] # NoEntry
    BY <1>3, <2>2 DEF TryRename, CanRename
  <2>3. QED BY <2>1, <2>2
<1>9. broken' \in BOOLEAN
  BY <1>2, <1>4
<1>10. QED BY <1>4, <1>5, <1>7, <1>8, <1>9, SwitchReturns

(* The parent is synced with the active name empty, or all is put back. *)
LEMMA SwitchSyncStands ==
  ASSUME ReleaseInv, NEW s \in Switchers, SwitchSync(s)
  PROVE  ReleaseInv'
<1>1. PICK r : r = switcher[s]
  OBVIOUS
<1>2. r \in Switch /\ SwitchStands(r) /\ lock \in Switchers \cup {NoEntry} /\ (r.pc \in LockedPCs => lock = s)
  BY <1>1, SwitcherFacts
<1>3. r.pc = "sync" /\ SwitchUnchanged
  BY <1>1 DEF SwitchSync
<1>4. CASE durable' = entry /\ SwitchStep(s, "in") /\ UNCHANGED <<entry, lock, broken>>
  <2>1. PICK row : row = [r EXCEPT !.pc = "in"]
    OBVIOUS
  <2>2. row.pc = "in" /\ row.candidate = r.candidate /\ row.previous = r.previous /\ row.old = r.old
  /\ row.new = r.new
    BY <1>2, <2>1 DEF Switch
  <2>3. SwitchStands(row)
    BY <1>2, <1>3, <2>2 DEF SwitchStands
  <2>4. "in" \in SwitchPCs /\ lock = s
    BY <1>2, <1>3 DEF SwitchPCs, LockedPCs
  <2>5. QED BY <1>1, <1>2, <1>3, <1>4, <2>1, <2>3, <2>4, SwitchGoes
<1>5. CASE Restore(s)
  BY <1>1, <1>3, <1>5, RestoreStands
<1>6. QED BY <1>4, <1>5 DEF SwitchSync

(* The candidate takes the active name, or the old release goes back. *)
LEMMA InStands ==
  ASSUME ReleaseInv, NEW s \in Switchers, RenameIn(s)
  PROVE  ReleaseInv'
<1>1. PICK r : r = switcher[s]
  OBVIOUS
<1>2. /\ r \in Switch /\ SwitchStands(r) /\ r.candidate \in Releases /\ r.previous \in Releases /\ Active \in Releases
      /\ entry \in Places /\ broken \in BOOLEAN /\ (r.pc \in LockedPCs => lock = s) /\ switcher \in [Switchers -> Switch]
      /\ lock \in Switchers \cup {NoEntry}
  BY <1>1, SwitcherFacts
<1>3. r.pc = "in" /\ SwitchUnchanged
  BY <1>1 DEF RenameIn
<1>4. CASE /\ CanRename(entry, r.candidate, Active) /\ entry' = Rename(entry, r.candidate, Active)
           /\ SwitchStep(s, "sync2") /\ UNCHANGED <<durable, lock, broken>>
  <2>1. PICK row : row = [r EXCEPT !.pc = "sync2"]
    OBVIOUS
  <2>2. /\ row \in Switch /\ row.pc = "sync2" /\ row.candidate = r.candidate /\ row.previous = r.previous
        /\ row.old = r.old /\ row.new = r.new
    BY <1>2, <2>1 DEF Switch, SwitchPCs
  <2>3. switcher' = [switcher EXCEPT ![s] = row]
    BY <1>1, <1>2, <1>4, <2>1 DEF SwitchStep
  <2>4. Active # r.candidate /\ Active # r.previous /\ r.candidate # r.previous /\ SoundAt(entry, r.previous) /\ SoundAt(entry, r.candidate)
    BY <1>2, <1>3 DEF SwitchStands
  <2>5. /\ entry' \in Places /\ \A t \in Trees : Holds(entry, t) => Holds(entry', t)
        /\ entry'[Active] = entry[r.candidate] /\ entry'[r.previous] = entry[r.previous]
    BY <1>2, <1>4, <2>4, RenameKeeps
  <2>6. UNCHANGED tree
    BY <1>3 DEF SwitchUnchanged
  <2>7. SoundAt(entry, Active)' /\ SoundAt(entry, r.previous)'
    BY <2>4, <2>5, <2>6 DEF SoundAt
  <2>8. SwitchStands(row)'
    BY <1>2, <1>3, <2>2, <2>4, <2>7 DEF SwitchStands
  <2>9. entry'[Active] # NoEntry
    BY <2>4, <2>5, ReleaseFacts DEF SoundAt
  <2>10. lock = s
    BY <1>2, <1>3 DEF LockedPCs
  <2>11. QED BY <1>2, <1>3, <1>4, <2>2, <2>3, <2>5, <2>8, <2>9, <2>10, SwitcherMoves
<1>5. CASE Restore(s)
  BY <1>1, <1>3, <1>5, RestoreStands
<1>6. QED BY <1>1, <1>4, <1>5 DEF RenameIn

(* With the new release in place, a failed sync changes no name. *)
LEMMA Sync2Stands ==
  ASSUME ReleaseInv, NEW s \in Switchers, SwitchSync2(s)
  PROVE  ReleaseInv'
<1>1. PICK r : r = switcher[s]
  OBVIOUS
<1>2. /\ r \in Switch /\ SwitchStands(r) /\ lock \in Switchers \cup {NoEntry} /\ (r.pc \in LockedPCs => lock = s)
      /\ entry \in Places /\ broken \in BOOLEAN
  BY <1>1, SwitcherFacts
<1>3. r.pc = "sync2" /\ UNCHANGED <<entry, broken>> /\ SwitchUnchanged
  BY <1>1 DEF SwitchSync2
<1>4. CASE durable' = entry /\ SwitchStep(s, "readback") /\ UNCHANGED lock
  <2>1. PICK row : row = [r EXCEPT !.pc = "readback"]
    OBVIOUS
  <2>2. row.pc = "readback" /\ row.candidate = r.candidate /\ row.previous = r.previous /\ row.old = r.old
  /\ row.new = r.new
    BY <1>2, <2>1 DEF Switch
  <2>3. SwitchStands(row)
    BY <1>2, <1>3, <2>2 DEF SwitchStands
  <2>4. "readback" \in SwitchPCs /\ lock = s
    BY <1>2, <1>3 DEF SwitchPCs, LockedPCs
  <2>5. QED BY <1>1, <1>2, <1>3, <1>4, <2>1, <2>3, <2>4, SwitchGoes
<1>5. CASE SwitchEnds(s) /\ UNCHANGED durable
  <2>1. entry[Active] # NoEntry
    BY <1>2, <1>3, ReleaseFacts DEF SwitchStands, SoundAt
  <2>2. QED BY <1>2, <1>3, <1>5, <2>1, SwitchReturns
<1>6. QED BY <1>4, <1>5 DEF SwitchSync2

(* Both renames undone as far as they can be: the active name is filled.   *)
LEMMA ReadbackStands ==
  ASSUME ReleaseInv, NEW s \in Switchers, SwitchReadback(s)
  PROVE  ReleaseInv'
<1>1. PICK r : r = switcher[s]
  OBVIOUS
<1>2. /\ SwitchStands(r) /\ r.candidate \in Releases /\ r.previous \in Releases /\ Active \in Releases
      /\ entry \in Places /\ broken \in BOOLEAN /\ (r.pc \in LockedPCs => lock = s)
  BY <1>1, SwitcherFacts
<1>3. PICK e : e = TryRename(entry, Active, r.candidate)
  OBVIOUS
<1>4. PICK back : back = TryRename(e, r.previous, Active)
  OBVIOUS
<1>5. r.pc = "readback" /\ SwitchEnds(s) /\ SwitchUnchanged
  BY <1>1 DEF SwitchReadback
<1>6. /\ Active # r.candidate /\ Active # r.previous /\ r.candidate # r.previous
      /\ entry[Active] # NoEntry /\ entry[r.previous] # NoEntry /\ lock = s
  BY <1>2, <1>5, ReleaseFacts DEF SwitchStands, SoundAt, LockedPCs
<1>7. CASE UNCHANGED <<entry, durable, broken>>
  BY <1>2, <1>5, <1>6, <1>7, SwitchReturns
<1>8. CASE entry' = back /\ durable' \in {durable, back} /\ broken' = (broken \/ back[Active] # entry[r.previous])
  <2>1. e \in Places /\ \A t \in Trees : Holds(entry, t) => Holds(e, t)
    BY <1>2, <1>3, RenameKeeps
  <2>2. back \in Places /\ \A t \in Trees : Holds(e, t) => Holds(back, t)
    BY <1>2, <1>4, <2>1, RenameKeeps
  <2>3. e[r.previous] # NoEntry
    <3>1. CASE CanRename(entry, Active, r.candidate)
      <4>1. e = Rename(entry, Active, r.candidate)
        BY <1>3, <3>1 DEF TryRename
      <4>2. e[r.previous] = entry[r.previous]
        BY <1>2, <1>6, <3>1, <4>1, RenameKeeps
      <4>3. QED BY <1>6, <4>2
    <3>2. CASE ~CanRename(entry, Active, r.candidate)
      BY <1>3, <1>6, <3>2 DEF TryRename
    <3>3. QED BY <3>1, <3>2
  <2>4. back[Active] # NoEntry
    <3>1. CASE CanRename(e, r.previous, Active)
      <4>1. back = Rename(e, r.previous, Active)
        BY <1>4, <3>1 DEF TryRename
      <4>2. back[Active] = e[r.previous]
        BY <1>2, <2>1, <3>1, <4>1, RenameKeeps
      <4>3. QED BY <2>3, <4>2
    <3>2. CASE ~CanRename(e, r.previous, Active)
      BY <1>4, <2>3, <3>2 DEF TryRename, CanRename
    <3>3. QED BY <3>1, <3>2
  <2>5. broken' \in BOOLEAN
    BY <1>2, <1>8
  <2>6. \A t \in Trees : Holds(entry, t) => Holds(entry', t)
    BY <1>8, <2>1, <2>2
  <2>7. QED BY <1>5, <1>6, <1>8, <2>2, <2>4, <2>5, <2>6, SwitchReturns
<1>9. QED
  <2>1. UNCHANGED <<entry, durable, broken>>
        \/ (entry' = back /\ durable' \in {durable, back} /\ broken' = (broken \/ back[Active] # entry[r.previous]))
    BY <1>1, <1>3, <1>4 DEF SwitchReadback
  <2>2. QED BY <1>7, <1>8, <2>1

(* A switch that fails before its renames, or is killed between them. *)
LEMMA SwitchStops ==
  ASSUME ReleaseInv, NEW s \in Switchers, SwitchFails(s) \/ SwitchKilled(s)
  PROVE  ReleaseInv'
<1>1. /\ entry \in Places /\ broken \in BOOLEAN /\ (entry[Active] = NoEntry => TwoSound(entry))
  BY SwitcherFacts
<1>2. CASE SwitchFails(s)
  BY <1>1, <1>2, SwitchReturns DEF SwitchFails
<1>3. CASE SwitchKilled(s)
  BY <1>1, <1>3, SwitchReturns DEF SwitchKilled
<1>4. QED BY <1>2, <1>3

(* Every process ends; the parent is as it was, or as it was last synced.  *)
LEMMA CrashStands ==
  ASSUME ReleaseInv, HostCrash
  PROVE  ReleaseInv'
<1> USE DEF ReleaseInv
<1>1. /\ entry' \in {entry, durable} /\ durable' = entry' /\ lock' = NoEntry /\ broken' = TRUE
      /\ installer' = [i \in Installers |-> NoInstall] /\ switcher' = [s \in Switchers |-> NoSwitch]
      /\ UNCHANGED <<build, tree, installed>>
  BY DEF HostCrash
<1>2. NoInstall \in Install /\ NoInstall.pc = "idle"
  BY ReleaseFacts DEF NoInstall, Install, InstallPCs, NoManifest, FileSets
<1>3. NoSwitch \in Switch /\ NoSwitch.pc = "idle"
  BY ReleaseFacts DEF NoSwitch, Switch, SwitchPCs, Manifests, NoManifest
<1>4. entry' \in Places /\ durable' \in Places
  BY <1>1 DEF ReleaseTypeOK
<1>5. ReleaseTypeOK'
  BY <1>1, <1>2, <1>3, <1>4 DEF ReleaseTypeOK
<1>6. \A t \in Trees : Holds(durable, t) => Holds(durable', t)
  BY <1>1 DEF ParentStands
<1>7. ParentStands'
  BY <1>1 DEF ParentStands, TwoSound, SoundAt
<1>8. LockStands'
  BY <1>1, <1>3 DEF LockStands, LockedPCs
<1>9. \A i \in Installers : InstallStands(installer[i])'
  BY <1>1, <1>2 DEF InstallStands
<1>10. \A s \in Switchers : SwitchStands(switcher[s])'
  BY <1>1, <1>3 DEF SwitchStands
<1>11. \A r \in installed' : ReportStands(r)'
  BY <1>1, <1>6, ReportsStay
<1>12. QED BY <1>5, <1>7, <1>8, <1>9, <1>10, <1>11

(* The operator's rename fills the active name while no switch runs. *)
LEMMA ByHandStands ==
  ASSUME ReleaseInv, NEW n \in Releases, NEW id, RestoreByHand(n, id)
  PROVE  ReleaseInv'
<1> USE DEF ReleaseInv
<1>1. /\ \A s \in Switchers : switcher[s].pc = "idle"
      /\ CanRename(entry, n, Active) /\ entry' = Rename(entry, n, Active) /\ durable' = entry' /\ broken' = FALSE
      /\ UNCHANGED <<lock, switcher, build, tree, installer, installed>>
  BY DEF RestoreByHand, SwitchUnchanged
<1>2. entry \in Places /\ Active \in Releases /\ installer \in [Installers -> Install]
  BY ReleaseFacts DEF ReleaseTypeOK
<1>3. /\ entry' \in Places /\ entry'[Active] = entry[n] /\ \A t \in Trees : Holds(entry, t) => Holds(entry', t)
  BY <1>1, <1>2, RenameKeeps
<1>4. entry'[Active] # NoEntry
  BY <1>1, <1>3 DEF CanRename
<1>5. \A t \in Trees : Holds(durable, t) => Holds(durable', t)
  BY <1>1, <1>3 DEF ParentStands
<1>6. ReleaseTypeOK'
  BY <1>1, <1>3 DEF ReleaseTypeOK
<1>7. ParentStands'
  BY <1>1, <1>4 DEF ParentStands
<1>8. LockStands'
  BY <1>1, <1>4 DEF LockStands
<1>9. ASSUME NEW j \in Installers PROVE InstallStands(installer[j])'
  <2>1. installer'[j] = installer[j] /\ installer[j] \in Install /\ InstallStands(installer[j])
    BY <1>1, <1>2
  <2>2. PICK r : r = installer[j] OBVIOUS
  <2>3. InstallStands(r)' BY <1>3, <1>5, <2>1, <2>2, InstallsStay
  <2>4. QED BY <2>1, <2>2, <2>3
<1>10. \A s \in Switchers : SwitchStands(switcher[s])'
  BY <1>1 DEF SwitchStands
<1>11. \A r \in installed' : ReportStands(r)'
  BY <1>1, <1>5, ReportsStay
<1>12. QED BY <1>6, <1>7, <1>8, <1>9, <1>10, <1>11

(* Nothing of the parent is touched by a new build. *)
LEMMA RebuildStands ==
  ASSUME ReleaseInv, UNCHANGED <<entry, durable, tree, installer, switcher, lock, installed, broken>>,
         build' \in [Files -> Commits]
  PROVE  ReleaseInv'
<1> USE DEF ReleaseInv
<1>1. ReleaseTypeOK'
  BY DEF ReleaseTypeOK
<1>2. ParentStands' /\ LockStands'
  BY DEF ParentStands, LockStands, TwoSound, SoundAt, Holds
<1>3. \A i \in Installers : InstallStands(installer[i])'
  BY DEF InstallStands, Holds
<1>4. \A s \in Switchers : SwitchStands(switcher[s])'
  BY DEF SwitchStands, SoundAt
<1>5. \A r \in installed' : ReportStands(r)'
  BY DEF ReportStands, Holds
<1>6. QED BY <1>1, <1>2, <1>3, <1>4, <1>5

(* Every step of the release parent keeps the invariant. *)
LEMMA ReleaseStep == ReleaseInv /\ [ReleaseNext]_releaseVars => ReleaseInv'
<1> SUFFICES ASSUME ReleaseInv, [ReleaseNext]_releaseVars PROVE ReleaseInv'
  OBVIOUS
<1>1. build \in [Files -> Commits] /\ tree \in [Trees -> Tree]
  BY DEF ReleaseInv, ReleaseTypeOK
<1>2. {tree[t].manifest : t \in Trees} \ {NoManifest} \subseteq Manifest
  BY <1>1 DEF Tree
<1>3. CASE UNCHANGED releaseVars
  BY <1>1, <1>3, RebuildStands DEF releaseVars
<1>4. CASE \E m \in Files, c \in Commits : Rebuild(m, c)
  BY <1>1, <1>4, RebuildStands DEF Rebuild
<1>5. CASE \E i \in Installers, n \in Releases, c \in Commits : InstallBegin(i, n, c)
  BY <1>5, InstallSteps
<1>6. CASE \E i \in Installers, t \in Trees : InstallMkdir(i, t)
  BY <1>6, MkdirStands
<1>7. CASE \E i \in Installers :
             InstallRead(i) \/ InstallCopy(i) \/ InstallVerify(i) \/ InstallCompare(i)
             \/ InstallSeal(i) \/ InstallSync(i) \/ InstallFinal(i) \/ InstallFails(i)
  BY <1>7, InstallSteps, SyncStands
<1>8. CASE \E s \in Switchers, c \in Releases, p \in Releases, x, y \in {tree[t].manifest : t \in Trees} \ {NoManifest} :
             SwitchBegin(s, c, p, x, y)
  BY <1>2, <1>8, BeginStands
<1>9. CASE \E s \in Switchers :
             SwitchLock(s) \/ SwitchRecheck(s) \/ RenameAway(s) \/ SwitchSync(s) \/ RenameIn(s)
             \/ SwitchSync2(s) \/ SwitchReadback(s) \/ SwitchFails(s) \/ SwitchKilled(s)
  BY <1>9, LockAndRecheck, AwayStands, SwitchSyncStands, InStands, Sync2Stands, ReadbackStands, SwitchStops
<1>10. CASE HostCrash
  BY <1>10, CrashStands
<1>11. CASE \E n \in Releases, id \in {tree[t].manifest : t \in Trees} \ {NoManifest} : RestoreByHand(n, id)
  BY <1>11, ByHandStands
<1>12. QED
  BY <1>3, <1>4, <1>5, <1>6, <1>7, <1>8, <1>9, <1>10, <1>11 DEF ReleaseNext

(* The invariant of the releases. *)
LEMMA ReleaseInvAlways == ReleaseSpec => []ReleaseInv
<1>1. ReleaseInv /\ [ReleaseNext]_releaseVars => ReleaseInv'
  BY ReleaseStep
<1>2. QED BY <1>1, ReleaseInitially, PTL DEF ReleaseSpec

(* A release reported as installed holds the bytes of its commit and, when *)
(* its reporter made it, has a name that a crash does not take: for any    *)
(* number of installers and switches, whatever the build directory does.   *)
THEOREM InstalledIsAlwaysWhole == ReleaseSpec => []InstalledIsWhole
<1>1. ReleaseInv => InstalledIsWhole
  <2> SUFFICES ASSUME ReleaseInv, NEW r \in installed
               PROVE  /\ verifyMembers(tree[r.id].files, r.commit)
                      /\ r.own => r.id \in Range(entry) \cap Range(durable)
    BY DEF InstalledIsWhole
  <2>1. ReportStands(r) /\ r.id \in Trees /\ entry \in Places /\ durable \in Places
        /\ (Holds(durable, r.id) => Holds(entry, r.id))
    BY DEF ReleaseInv, ReleaseTypeOK, Report, ParentStands
  <2>2. DOMAIN entry = Releases /\ DOMAIN durable = Releases
    BY <2>1 DEF Places
  <2>3. QED BY <2>1, <2>2 DEF ReportStands, Holds, Range
<1>2. QED BY <1>1, ReleaseInvAlways, PTL

(* The active name is empty only within a switch, or after one was killed  *)
(* or not restored, and then two whole releases have names.                *)
THEOREM ActiveAlwaysStands == ReleaseSpec => []ActiveStands
<1>1. ReleaseInv => ActiveStands
  <2> SUFFICES ASSUME ReleaseInv, entry[Active] = NoEntry
               PROVE  /\ broken \/ \E s \in Switchers : switcher[s].pc \in {"sync", "in"}
                      /\ Cardinality({n \in Releases : \E t \in Trees : entry[n] = t /\ Whole(tree[t])}) >= 2
    BY DEF ActiveStands
  <2> DEFINE S == {n \in Releases : \E t \in Trees : entry[n] = t /\ Whole(tree[t])}
  <2>1. TwoSound(entry) /\ (broken \/ \E s \in Switchers : switcher[s].pc \in {"sync", "in"})
    BY DEF ReleaseInv, ParentStands, LockStands
  <2>2. PICK a \in Releases, b \in Releases : a # b /\ SoundAt(entry, a) /\ SoundAt(entry, b)
    BY <2>1 DEF TwoSound
  <2>3. a \in S /\ b \in S
    BY <2>2 DEF SoundAt, Sound
  <2>4. IsFiniteSet(S)
    <3>1. S \subseteq Releases
      OBVIOUS
    <3>2. QED BY <3>1, ReleaseFacts, FS_Subset
  <2> HIDE DEF S
  <2>5. Cardinality(S) >= 2
    BY <2>2, <2>3, <2>4, TwoNames
  <2>6. QED BY <2>1, <2>5 DEF S
<1>2. QED BY <1>1, ReleaseInvAlways, PTL
=============================================================================
