------------------------------ MODULE Release ------------------------------
(***************************************************************************)
(* Installed releases (internal/distribution): installing a built          *)
(* distribution into a new directory, reading an installation back from    *)
(* its retained identity, and switching the active release by two renames. *)
(*                                                                         *)
(* A release directory is a child of one parent.  Its members are copied   *)
(* one by one while the build directory may be rebuilt.  Any process may   *)
(* be killed, any call may fail, and the host may crash: a change of the   *)
(* parent directory that was not synced may then be gone.  Templates are   *)
(* members the installer itself carries; ownership, modes and aliases of   *)
(* paths are not modelled.                                                 *)
(***************************************************************************)
EXTENDS Naturals, FiniteSets, Functions

CONSTANTS
  Active,       \* the path the services run from
  Releases,        \* the children of the release parent, Active among them
  Commits,      \* source commits
  Files,      \* 1 .. number of files, in manifest order
  Installers, Switchers,  \* processes of the operator command line
  Trees,        \* directory inodes: one for every Mkdir, and the first release
  FirstTree,
  NoEntry,
  MaxRebuilds   \* bound: members of the build directory that are replaced

ASSUME ReleaseAssumption ==
  /\ Active \in Releases /\ IsFiniteSet(Releases)
  /\ Commits # {} /\ NoEntry \notin Commits
  /\ IsFiniteSet(Files) /\ Files # {} /\ Files = 1 .. Cardinality(Files)
  /\ NoEntry \notin Switchers
  /\ FirstTree \in Trees /\ NoEntry \notin Trees
  /\ MaxRebuilds \in Nat

VARIABLES
  build,      \* [Files -> the commit its bytes were built from]
  rebuilds,
  entry,      \* [Releases -> Trees or NoEntry]: the parent directory
  durable,    \* the same as last synced
  tree,       \* [Trees -> what is below the directory]
  installer,  \* [Installers -> Install]
  switcher,   \* [Switchers -> SwitchInstalledRelease]
  lock,       \* the flock of the parent: a switcher or NoEntry
  installed,  \* history: releases reported INSTALLED_BYTES_VERIFIED
  broken      \* history: a switch was killed or one of its restores failed

releaseVars == <<build, rebuilds, entry, durable, tree, installer, switcher, lock, installed, broken>>

(* A manifest names the commit and the digest of every member. *)
Manifest == [commit : Commits, facts : [Files -> Commits]]
NoManifest == [commit |-> NoEntry, facts |-> [m \in Files |-> NoEntry]]

Tree == [files : [Files -> Commits \cup {NoEntry}], manifest : Manifest \cup {NoManifest},
         sealed : BOOLEAN]
EmptyTree == [files |-> [m \in Files |-> NoEntry], manifest |-> NoManifest, sealed |-> FALSE]
WholeTree(c) == [files |-> [m \in Files |-> c], sealed |-> TRUE,
                 manifest |-> [commit |-> c, facts |-> [m \in Files |-> c]]]

(* made is a ghost: the directory the installation made. *)
NoInstall == [pc |-> "idle", into |-> Active, expected |-> NoEntry, facts |-> NoManifest.facts, at |-> 1,
              made |-> NoEntry]
NoSwitch == [pc |-> "idle", candidate |-> Active, previous |-> Active,
             old |-> NoManifest, new |-> NoManifest]

-----------------------------------------------------------------------------
(* Verify: every role is present, as its manifest says, from one commit. *)
verifyMembers(files, c) == \A m \in Files : files[m] = c
VerifiedSource(files) == \E c \in Commits : verifyMembers(files, c)

(* VerifyInstalledRelease: the manifest has the retained digest, every     *)
(* member has the bytes it says and the binaries are of its commit.        *)
VerifyInstalledRelease(name, id) ==
  /\ entry[name] # NoEntry
  /\ LET t == tree[entry[name]] IN
     /\ t.sealed /\ t.manifest = id
     /\ t.files = id.facts
     /\ verifyMembers(t.files, id.commit)

(* verifyInstallation: as the binaries in place and the commit demand. *)
verifyInstallation(name, expected) ==
  VerifyInstalledRelease(name, [commit |-> expected, facts |-> [m \in Files |-> expected]])

(* A new build replaces the members of the build directory one by one. *)
Rebuild(m, c) ==
  /\ rebuilds < MaxRebuilds /\ build[m] # c
  /\ build' = [build EXCEPT ![m] = c]
  /\ rebuilds' = rebuilds + 1
  /\ UNCHANGED <<entry, durable, tree, installer, switcher, lock, installed, broken>>

-----------------------------------------------------------------------------
(* Install. *)

InstallStep(i, pc) == installer' = [installer EXCEPT ![i].pc = pc]
InstallUnchanged == UNCHANGED <<build, rebuilds, switcher, lock, broken>>

(* The distribution verified as the expected commit, the path free. *)
InstallBegin(i, into, expected) ==
  /\ installer[i].pc = "idle"
  /\ verifyMembers(build, expected)
  /\ entry[into] = NoEntry
  /\ installer' = [installer EXCEPT ![i] = [NoInstall EXCEPT !.pc = "read", !.into = into, !.expected = expected]]
  /\ UNCHANGED <<entry, durable, tree, installed>> /\ InstallUnchanged

(* installFiles: sizes and digests of every member. *)
InstallRead(i) ==
  /\ installer[i].pc = "read"
  /\ installer' = [installer EXCEPT ![i].pc = "mkdir", ![i].facts = build]
  /\ UNCHANGED <<entry, durable, tree, installed>> /\ InstallUnchanged

(* Mkdir is exclusive and decides between concurrent attempts. *)
InstallMkdir(i, t) ==
  /\ installer[i].pc = "mkdir"
  /\ entry[installer[i].into] = NoEntry
  /\ t \notin Range(entry) /\ tree[t] = EmptyTree
  /\ entry' = [entry EXCEPT ![installer[i].into] = t]
  /\ installer' = [installer EXCEPT ![i].pc = "copy", ![i].made = t]
  /\ UNCHANGED <<durable, tree, installed>> /\ InstallUnchanged

(* One member: its bytes still have the digest read before; the file is    *)
(* created exclusively below the path.                                     *)
InstallCopy(i) ==
  LET at == installer[i].at
      t == entry[installer[i].into]
  IN
  /\ installer[i].pc = "copy"
  /\ build[at] = installer[i].facts[at]
  /\ t # NoEntry /\ tree[t].files[at] = NoEntry
  /\ tree' = [tree EXCEPT ![t].files[at] = build[at]]
  /\ installer' = [installer EXCEPT ![i].at = IF at + 1 \in Files THEN at + 1 ELSE at,
                                    ![i].pc = IF at + 1 \in Files THEN "copy" ELSE "verify"]
  /\ UNCHANGED <<entry, durable, installed>> /\ InstallUnchanged

(* The source is verified again, of whichever commit. *)
InstallVerify(i) ==
  /\ installer[i].pc = "verify"
  /\ VerifiedSource(build)
  /\ InstallStep(i, "compare")
  /\ UNCHANGED <<entry, durable, tree, installed>> /\ InstallUnchanged

(* It still has the facts it had; the manifest is written last. *)
InstallCompare(i) ==
  LET t == entry[installer[i].into] IN
  /\ installer[i].pc = "compare"
  /\ build = installer[i].facts
  /\ t # NoEntry /\ tree[t].manifest = NoManifest
  /\ tree' = [tree EXCEPT ![t].manifest = [commit |-> installer[i].expected, facts |-> installer[i].facts]]
  /\ InstallStep(i, "seal")
  /\ UNCHANGED <<entry, durable, installed>> /\ InstallUnchanged

(* Directories are closed and synced. *)
InstallSeal(i) ==
  LET t == entry[installer[i].into] IN
  /\ installer[i].pc = "seal"
  /\ t # NoEntry
  /\ tree' = [tree EXCEPT ![t].sealed = TRUE]
  /\ InstallStep(i, "sync")
  /\ UNCHANGED <<entry, durable, installed>> /\ InstallUnchanged

(* The parent is synced last. *)
InstallSync(i) ==
  /\ installer[i].pc = "sync"
  /\ durable' = entry
  /\ InstallStep(i, "final")
  /\ UNCHANGED <<entry, tree, installed>> /\ InstallUnchanged

(* What is in place under the path: the reporter's own directory, unless a *)
(* switch moved that away and another installation took the path.          *)
Reported(i) ==
  LET id == entry[installer[i].into] IN
  [id |-> id, commit |-> installer[i].expected, own |-> id = installer[i].made]

(* Mutant of InstallFinal: the commit that was read first is reported. *)
ReportWithoutReadback(i) ==
  /\ installer[i].pc = "final"
  /\ installed' = installed \cup {Reported(i)}
  /\ installer' = [installer EXCEPT ![i] = NoInstall]
  /\ UNCHANGED <<entry, durable, tree>> /\ InstallUnchanged

(* The readback of the installation; only then it is reported. *)
InstallFinal(i) ==
  /\ installer[i].pc = "final"
  /\ verifyInstallation(installer[i].into, installer[i].expected)
  /\ installed' = installed \cup {Reported(i)}
  /\ installer' = [installer EXCEPT ![i] = NoInstall]
  /\ UNCHANGED <<entry, durable, tree>> /\ InstallUnchanged

(* Any check or call fails, or the process dies: what was written stays. *)
InstallFails(i) ==
  /\ installer[i].pc # "idle"
  /\ installer' = [installer EXCEPT ![i] = NoInstall]
  /\ UNCHANGED <<entry, durable, tree, installed>> /\ InstallUnchanged

-----------------------------------------------------------------------------
(* SwitchInstalledRelease. *)

SwitchStep(s, pc) == switcher' = [switcher EXCEPT ![s].pc = pc]
SwitchUnchanged == UNCHANGED <<build, rebuilds, tree, installer, installed>>
SwitchEnds(s) ==
  /\ switcher' = [switcher EXCEPT ![s] = NoSwitch]
  /\ lock' = IF lock = s THEN NoEntry ELSE lock

(* os.Rename of a directory: refused when the new name exists. *)
CanRename(e, a, b) == e[a] # NoEntry /\ e[b] = NoEntry
Rename(e, a, b) == [e EXCEPT ![a] = NoEntry, ![b] = e[a]]
TryRename(e, a, b) == IF CanRename(e, a, b) THEN Rename(e, a, b) ELSE e

(* The checks made before and again under the lock. *)
Preconditions(s) ==
  /\ entry[s.previous] = NoEntry
  /\ VerifyInstalledRelease(Active, s.old)
  /\ VerifyInstalledRelease(s.candidate, s.new)

SwitchBegin(s, candidate, previous, old, new) ==
  LET sw == [pc |-> "lock", candidate |-> candidate, previous |-> previous, old |-> old, new |-> new] IN
  /\ switcher[s].pc = "idle"
  /\ old.commit # new.commit
  /\ Cardinality({Active, candidate, previous}) = 3
  /\ Preconditions(sw)
  /\ switcher' = [switcher EXCEPT ![s] = sw]
  /\ UNCHANGED <<entry, durable, lock, broken>> /\ SwitchUnchanged

SwitchLock(s) ==
  /\ switcher[s].pc = "lock"
  /\ lock = NoEntry
  /\ lock' = s
  /\ SwitchStep(s, "recheck")
  /\ UNCHANGED <<entry, durable, broken>> /\ SwitchUnchanged

(* Also no other process may run from either release; one that does ends   *)
(* the switch (SwitchFails).                                               *)
SwitchRecheck(s) ==
  /\ switcher[s].pc = "recheck"
  /\ Preconditions(switcher[s])
  /\ SwitchStep(s, "away")
  /\ UNCHANGED <<entry, durable, lock, broken>> /\ SwitchUnchanged

(* The active release moves to previous; the parent must then be synced. *)
RenameAway(s) ==
  /\ switcher[s].pc = "away"
  /\ CanRename(entry, Active, switcher[s].previous)
  /\ entry' = Rename(entry, Active, switcher[s].previous)
  /\ SwitchStep(s, "sync")
  /\ UNCHANGED <<durable, lock, broken>> /\ SwitchUnchanged

(* Mutant of Restore: the failure is only reported. *)
LeaveAside(s) == UNCHANGED <<entry, durable, broken>> /\ SwitchEnds(s)

(* The old release is put back, if its name is free; synced or not. *)
Restore(s) ==
  LET e == TryRename(entry, switcher[s].previous, Active) IN
  /\ entry' = e
  /\ durable' \in {durable, e}
  /\ broken' = (broken \/ entry[Active] # NoEntry)
  /\ SwitchEnds(s)

SwitchSync(s) ==
  /\ switcher[s].pc = "sync"
  /\ \/ durable' = entry /\ SwitchStep(s, "in") /\ UNCHANGED <<entry, lock, broken>>
     \/ Restore(s)
  /\ SwitchUnchanged

(* The candidate takes the active name, or the old release is restored. *)
RenameIn(s) ==
  /\ switcher[s].pc = "in"
  /\ \/ /\ CanRename(entry, switcher[s].candidate, Active)
        /\ entry' = Rename(entry, switcher[s].candidate, Active)
        /\ SwitchStep(s, "sync2")
        /\ UNCHANGED <<durable, lock, broken>>
     \/ Restore(s)
  /\ SwitchUnchanged

(* A failed sync leaves the new release active, for reconciliation. *)
SwitchSync2(s) ==
  /\ switcher[s].pc = "sync2"
  /\ \/ durable' = entry /\ SwitchStep(s, "readback") /\ UNCHANGED lock
     \/ SwitchEnds(s) /\ UNCHANGED durable
  /\ UNCHANGED <<entry, broken>> /\ SwitchUnchanged

(* Both releases are read back; if one is not as retained, or the caller   *)
(* has given up, both renames are undone as far as they can be.            *)
SwitchReadback(s) ==
  LET sw == switcher[s]
      back == TryRename(TryRename(entry, Active, sw.candidate), sw.previous, Active)
  IN
  /\ sw.pc = "readback"
  /\ \/ /\ VerifyInstalledRelease(Active, sw.new) /\ VerifyInstalledRelease(sw.previous, sw.old)
        /\ UNCHANGED <<entry, durable, broken>>
     \/ /\ entry' = back
        /\ durable' \in {durable, back}
        /\ broken' = (broken \/ back[Active] # entry[sw.previous])
  /\ SwitchEnds(s) /\ SwitchUnchanged

(* A check fails, the lock is taken or a process runs: nothing was moved. *)
SwitchFails(s) ==
  /\ switcher[s].pc \in {"lock", "recheck", "away"}
  /\ SwitchEnds(s)
  /\ UNCHANGED <<entry, durable, broken>> /\ SwitchUnchanged

(* The process is killed; the lock goes with its descriptor. *)
SwitchKilled(s) ==
  /\ switcher[s].pc \in {"sync", "in", "sync2", "readback"}
  /\ SwitchEnds(s)
  /\ broken' = TRUE
  /\ UNCHANGED <<entry, durable>> /\ SwitchUnchanged

-----------------------------------------------------------------------------
(* A host crash ends every process; unsynced changes of the parent may go. *)
HostCrash ==
  /\ \/ \E i \in Installers : installer[i].pc # "idle"
     \/ \E s \in Switchers : switcher[s].pc # "idle"
  /\ entry' \in {entry, durable}
  /\ durable' = entry'
  /\ installer' = [i \in Installers |-> NoInstall]
  /\ switcher' = [s \in Switchers |-> NoSwitch]
  /\ lock' = NoEntry
  /\ broken' = TRUE
  /\ UNCHANGED <<build, rebuilds, tree, installed>>

(* The operator restores a surviving release by hand. *)
RestoreByHand(name, id) ==
  /\ broken
  /\ \A s \in Switchers : switcher[s].pc = "idle"
  /\ VerifyInstalledRelease(name, id)
  /\ CanRename(entry, name, Active)
  /\ entry' = Rename(entry, name, Active)
  /\ durable' = entry'
  /\ broken' = FALSE
  /\ UNCHANGED <<lock, switcher>> /\ SwitchUnchanged

ReleaseInit ==
  LET first == CHOOSE c \in Commits : TRUE IN
  /\ build \in [Files -> Commits] /\ VerifiedSource(build)
  /\ rebuilds = 0
  /\ entry = [n \in Releases |-> IF n = Active THEN FirstTree ELSE NoEntry]
  /\ durable = entry
  /\ tree = [t \in Trees |-> IF t = FirstTree THEN WholeTree(first) ELSE EmptyTree]
  /\ installer = [i \in Installers |-> NoInstall]
  /\ switcher = [s \in Switchers |-> NoSwitch]
  /\ lock = NoEntry /\ installed = {[id |-> FirstTree, commit |-> first, own |-> TRUE]} /\ broken = FALSE

ReleaseNext ==
  \/ \E m \in Files, c \in Commits : Rebuild(m, c)
  \/ \E i \in Installers, n \in Releases, c \in Commits : InstallBegin(i, n, c)
  \/ \E i \in Installers, t \in Trees : InstallMkdir(i, t)
  \/ \E i \in Installers :
       InstallRead(i) \/ InstallCopy(i) \/ InstallVerify(i) \/ InstallCompare(i)
       \/ InstallSeal(i) \/ InstallSync(i) \/ InstallFinal(i) \/ InstallFails(i)
  \/ \E s \in Switchers, c \in Releases, p \in Releases, x, y \in {tree[t].manifest : t \in Trees} \ {NoManifest} :
       SwitchBegin(s, c, p, x, y)
  \/ \E s \in Switchers :
       SwitchLock(s) \/ SwitchRecheck(s) \/ RenameAway(s) \/ SwitchSync(s) \/ RenameIn(s)
       \/ SwitchSync2(s) \/ SwitchReadback(s) \/ SwitchFails(s) \/ SwitchKilled(s)
  \/ HostCrash
  \/ \E n \in Releases, id \in {tree[t].manifest : t \in Trees} \ {NoManifest} : RestoreByHand(n, id)

ReleaseSpec == ReleaseInit /\ [][ReleaseNext]_releaseVars

-----------------------------------------------------------------------------
Whole(t) == t.sealed /\ t.files = t.manifest.facts /\ verifyMembers(t.files, t.manifest.commit)

(* A release that install reported holds the bytes of the one commit it    *)
(* was reported for, whatever the build directory did during the copy.  If *)
(* it is the one the reporter made, it is never lost: it stays under some  *)
(* name, and would after a crash.  Another's is not durable before that    *)
(* other has synced it.                                                    *)
InstalledIsWhole ==
  \A r \in installed :
    /\ verifyMembers(tree[r.id].files, r.commit)
    /\ r.own => r.id \in Range(entry) \cap Range(durable)

(* The active name is taken unless a switch is between its two renames, a  *)
(* switch was killed there or its restore failed; and even then two whole  *)
(* releases survive for the operator, as the switch's comment promises.    *)
ActiveStands ==
  entry[Active] = NoEntry =>
    /\ broken \/ \E s \in Switchers : switcher[s].pc \in {"sync", "in"}
    /\ Cardinality({n \in Releases : \E t \in Trees : entry[n] = t /\ Whole(tree[t])}) >= 2
=============================================================================
