-------------------------- MODULE ExecutionRecords --------------------------
(***************************************************************************)
(* What a Codex execution leaves on the worker's disk (workeragent,        *)
(* preparation, workspace, sourcecheckpoint): ExecuteCodex writes one      *)
(* record per step, finalizes the changed source into a bundle, reports    *)
(* the result to Core, and after a failure retains the stopped source.     *)
(* Meanwhile or later an operator reads the records back                   *)
(* (InspectPostTurn) and compares them with Core (ObservePostTurnCore).    *)
(*                                                                         *)
(* One execution.  The agent may die at any step and any write may fail,   *)
(* leaving no file, a torn file or the whole file.  Records are created    *)
(* exclusively and never replaced or removed.                              *)
(***************************************************************************)
EXTENDS Naturals, Sequences, FiniteSets

CONSTANTS
  MaxEdits    \* bound: changes Codex makes to the source

ASSUME RecordsAssumption == MaxEdits \in Nat

VARIABLES
  records,    \* [Names -> record]
  failed,     \* what the post-turn-failure record says
  source,     \* [bytes: version, head: "base", its "child" or "stray"]
  codex,      \* the Codex process: "running" or "stopped"
  bundle,     \* the result bundle: "absent", "partial" or "whole"
  archive,    \* the checkpoint archive: its source version; Nothing, Partial
  agent,      \* ExecuteCodex
  row,        \* Core's execution: state, sealed transcript, checkpoint
  reader      \* InspectPostTurn, then ObservePostTurnCore

recordVars == <<records, failed, source, codex, bundle, archive, agent, row, reader>>

postTurnPhases == <<"TURN_RECEIPT", "FINALIZE", "RESULT_PERSIST", "REPORT_RENEW", "RESULT_REPORT", "RECEIPT_VERIFY">>
Phases == DOMAIN postTurnPhases

(* The order in which the readback asks for the records. *)
ReadOrder == <<"permit", "control", "history">> \o postTurnPhases \o <<"failure", "checkpoint", "turn", "result">>
Names == {ReadOrder[k] : k \in DOMAIN ReadOrder}

(* digest: the record carries the expected result digest. *)
Absent == [state |-> "absent", digest |-> FALSE]
RecordOf(s, d) == [state |-> s, digest |-> d]
Saved(rs, n) == rs[n].state = "whole"

Nothing == MaxEdits + 1
Partial == MaxEdits + 2

IdleReader == [pc |-> "idle", at |-> 0, seen |-> [n \in Names |-> Absent], failed |-> 0, snapshot |-> FALSE,
         core |-> "none"]

Unread == UNCHANGED reader
Disk == <<source, codex, bundle, archive>>

-----------------------------------------------------------------------------
(* ExecuteCodex. *)

(* SaveCodex: an exclusive create, a write, a sync of file and directory.  *)
Save(n, ok, bad) ==
  \/ /\ records' = [records EXCEPT ![n] = RecordOf("whole", agent.expected)]
     /\ agent' = ok
  \/ \E s \in {"absent", "torn", "whole"} :
       /\ records' = [records EXCEPT ![n] = IF s = "absent" THEN Absent ELSE RecordOf(s, agent.expected)]
       /\ agent' = bad

Goto(pc) == [agent EXCEPT !.pc = pc]
(* Every failure after the first phase retains the source, then a failure  *)
(* record; before it, the source alone.                                    *)
Failure == Goto("retain")

SavePermit ==
  /\ agent.pc = "permit"
  /\ Save("permit", Goto("turn"), Goto("ended"))
  /\ UNCHANGED <<failed, Disk, row>> /\ Unread

(* Codex edits the source while its process may run, and may commit. *)
Edit ==
  /\ codex = "running"
  /\ source.bytes < MaxEdits
  /\ \E h \in {source.head, "child", "stray"} : source' = [bytes |-> source.bytes + 1, head |-> h]
  /\ UNCHANGED <<records, failed, codex, bundle, archive, agent, row>> /\ Unread

(* retainEngineeringHistory, when the turn was observed to its end. *)
RetainHistory ==
  /\ agent.pc = "turn"
  /\ Save("history", Goto("close"), [agent EXCEPT !.pc = "close", !.ok = FALSE])
  /\ UNCHANGED <<failed, Disk, row>> /\ Unread

(* The turn ends: its process is settled, quiescent or not, and Core seals *)
(* the transcript.  A transcript that is not answered is not retained, and *)
(* RunCodexTurn succeeds only for a completed, quiescent turn.             *)
RunCodexTurn(completed, quiescent, sealed, answered) ==
  LET ok == agent.ok /\ completed /\ quiescent /\ answered IN
  /\ agent.pc = "close" \/ (agent.pc = "turn" /\ ~completed)
  /\ answered => sealed
  /\ codex' = IF quiescent THEN "stopped" ELSE codex
  /\ row' = [row EXCEPT !.sealed = sealed]
  /\ agent' = [agent EXCEPT !.quiescent = quiescent, !.sealed = answered, !.ok = ok /\ agent.pc = "close",
                            !.pc = IF answered THEN "control" ELSE "retain"]
  /\ UNCHANGED <<records, failed, source, bundle, archive>> /\ Unread

(* The sealed transcript is saved, whether the turn succeeded or not. *)
SaveControl ==
  /\ agent.pc = "control"
  /\ Save("control", Goto(IF agent.ok THEN "phase" ELSE "retain"), Failure)
  /\ UNCHANGED <<failed, Disk, row>> /\ Unread

(* phaseStart: the phase counts as entered from before its record. *)
StepAfter == <<"turnrecord", "commit", "resultrecord", "renew", "report", "verify">>
phaseStart ==
  LET next == [agent EXCEPT !.phase = @ + 1] IN
  /\ agent.pc = "phase"
  /\ Save(postTurnPhases[next.phase],
          [next EXCEPT !.pc = StepAfter[next.phase], !.finalizing = @ \/ next.phase = 2], [next EXCEPT !.pc = "retain"])
  /\ UNCHANGED <<failed, Disk, row>> /\ Unread

SaveTurn ==
  /\ agent.pc = "turnrecord"
  /\ Save("turn", Goto("phase"), Failure)
  /\ UNCHANGED <<failed, Disk, row>> /\ Unread

(* Finalize: HEAD is the base and the source has changed; one commit. *)
FinalizeCommit ==
  /\ agent.pc = "commit"
  /\ source.bytes > 0 /\ source.head = "base"
  /\ source' = [source EXCEPT !.head = "child"]
  /\ agent' = Goto("create")
  /\ UNCHANGED <<records, failed, codex, bundle, archive, row>> /\ Unread

FinalizeCreate ==
  /\ agent.pc = "create"
  /\ bundle = "absent"
  /\ bundle' = "partial"
  /\ agent' = Goto("check")
  /\ UNCHANGED <<records, failed, source, codex, archive, row>> /\ Unread

(* Mutant of FinalizeCheck: the digest is expected before the result is    *)
(* known to be valid.                                                      *)
ExpectedTooEarly ==
  /\ agent.pc = "check"
  /\ \/ /\ bundle' = "whole"
        /\ \E pc \in {"phase", "retain"} : agent' = [agent EXCEPT !.pc = pc, !.expected = TRUE]
     \/ bundle' = "absent" /\ agent' = Failure
  /\ UNCHANGED <<records, failed, source, codex, archive, row>> /\ Unread

(* bundle verify, the independent readbacks and the digest; a bundle that  *)
(* fails is removed.  The result must then be valid and deliverable before *)
(* its digest is expected.                                                 *)
FinalizeCheck ==
  /\ agent.pc = "check"
  /\ \/ bundle' = "whole" /\ agent' \in {[agent EXCEPT !.pc = "phase", !.expected = TRUE], Failure}
     \/ bundle' = "absent" /\ agent' = Failure
  /\ UNCHANGED <<records, failed, source, codex, archive, row>> /\ Unread

SaveResult ==
  /\ agent.pc = "resultrecord"
  /\ Save("result", Goto("phase"), Failure)
  /\ UNCHANGED <<failed, Disk, row>> /\ Unread

ReportRenew ==
  /\ agent.pc = "renew"
  /\ agent' = IF row.state = "AUTHORIZED" THEN Goto("phase") ELSE Failure
  /\ UNCHANGED <<records, failed, Disk, row>> /\ Unread

(* The report, once more when it got no answer; either may be lost before  *)
(* or after Core has finished the execution.                               *)
ReportResult ==
  /\ agent.pc = "report"
  /\ row' \in {row, [row EXCEPT !.state = IF @ = "AUTHORIZED" THEN "FINISHED" ELSE @]}
  /\ \/ row'.state = "FINISHED" /\ agent' = Goto("phase")
     \/ agent' = Failure
  /\ UNCHANGED <<records, failed, Disk>> /\ Unread

VerifyReceipt ==
  /\ agent.pc = "verify"
  /\ agent' = Goto("delivered")
  /\ UNCHANGED <<records, failed, Disk, row>> /\ Unread

(* A step with no record of its own fails; before FINALIZE the run may be  *)
(* found cancelled.                                                        *)
StepFails ==
  /\ agent.pc \in {"phase", "commit", "create", "renew", "report", "verify"}
  /\ agent.pc = "phase" => agent.phase = 1
  /\ agent' = Failure
  /\ UNCHANGED <<records, failed, Disk, row>> /\ Unread

-----------------------------------------------------------------------------
(* retainSource and retainPostTurnFailure. *)

AfterRetain == IF agent.phase > 0 THEN "failure" ELSE "ended"

(* Only under a sealed transcript that proves the process scope empty. *)
Retainable == agent.sealed /\ agent.quiescent

(* Head is strict; once Finalize was entered its one commit is admitted. *)
PreservationHead == source.head \in {"base", "child"}
checkpointPaths == IF agent.finalizing THEN PreservationHead ELSE source.head = "base"

RetainPaths ==
  /\ agent.pc = "retain"
  /\ \/ Retainable /\ checkpointPaths /\ agent' = Goto("graph")
     \/ agent' = Goto(AfterRetain)
  /\ UNCHANGED <<records, failed, Disk, row>> /\ Unread

(* The Git graph goes into a private bundle that holds HEAD and the frozen *)
(* base; a bundle that fails its readback is removed.                      *)
RetainPreservationBundle ==
  /\ agent.pc = "graph"
  /\ \/ checkpointPaths /\ agent' = Goto("capture")
     \/ agent' = Goto(AfterRetain)
  /\ UNCHANGED <<records, failed, Disk, row>> /\ Unread

(* collect: every path below the source and its bytes, but not .git. *)
collect == source.bytes

(* Capture: the archive is created exclusively, and stays whatever fails.  *)
CaptureCreate ==
  /\ agent.pc = "capture"
  /\ archive = Nothing
  /\ archive' = Partial
  /\ agent' = [agent EXCEPT !.pc = "captured", !.version = collect]
  /\ UNCHANGED <<records, failed, source, codex, bundle, row>> /\ Unread

(* Its bytes are compared with the first listing and a second one. *)
CaptureVerify ==
  /\ agent.pc = "captured"
  /\ \/ /\ collect = agent.version
        /\ archive' = agent.version
        /\ agent' = [agent EXCEPT !.pc = "record", !.retained = TRUE]
     \/ UNCHANGED archive /\ agent' = Goto(AfterRetain)
  /\ UNCHANGED <<records, failed, source, codex, bundle, row>> /\ Unread

(* The temporary Git bundle was removed; the record may fail. *)
SaveCheckpoint ==
  /\ agent.pc = "record"
  /\ Save("checkpoint", Goto("register"), Goto("register"))
  /\ UNCHANGED <<failed, Disk, row>> /\ Unread

(* Core keeps the descriptor, or refuses; the answer may be lost. *)
RegisterCheckpoint ==
  /\ agent.pc = "register"
  /\ row' \in {row, [row EXCEPT !.checkpoint = archive]}
  /\ \E heard \in BOOLEAN :
       /\ heard => row'.checkpoint = archive
       /\ agent' = [agent EXCEPT !.pc = AfterRetain, !.registered = heard]
  /\ UNCHANGED <<records, failed, Disk>> /\ Unread

SaveFailure ==
  /\ agent.pc = "failure"
  /\ Save("failure", Goto("ended"), Goto("ended"))
  /\ failed' = [phase |-> agent.phase, checkpoint |-> agent.retained, registered |-> agent.registered]
  /\ UNCHANGED <<Disk, row>> /\ Unread

AgentDies ==
  /\ agent.pc \notin {"ended", "delivered"}
  /\ agent' = Goto("ended")
  /\ UNCHANGED <<records, failed, Disk, row>> /\ Unread

(* The lease runs out in Core. *)
RowExpires ==
  /\ row.state = "AUTHORIZED"
  /\ row' = [row EXCEPT !.state = "UNKNOWN"]
  /\ UNCHANGED <<records, failed, Disk, agent>> /\ Unread

-----------------------------------------------------------------------------
(* InspectPostTurn. *)

Entered(rs) == {k \in Phases : Saved(rs, postTurnPhases[k])}

(* validatePhase: the early phases carry no result digest, the others do. *)
validatePhase(record, k) == record.digest = (k > 2)

(* The checks of one set of records; f is the phase of the failure record. *)
Coherent(rs, f) ==
  LET n == Cardinality(Entered(rs)) IN
  /\ \A name \in Names : rs[name].state # "torn"
  /\ Saved(rs, "permit")
  /\ Entered(rs) = 1 .. n
  /\ \A k \in Entered(rs) : validatePhase(rs[postTurnPhases[k]], k)
  /\ Saved(rs, "failure") => f \in {n, n + 1} \cap Phases /\ validatePhase(rs["failure"], f)
  /\ Saved(rs, "turn") => n >= 1 /\ Saved(rs, "history")
  /\ n >= 2 => Saved(rs, "turn")
  /\ Saved(rs, "result") => Saved(rs, "turn") /\ n >= 3
  /\ n >= 4 => Saved(rs, "result")

(* readbackFile: one open file, unchanged while it is read; or absent. *)
readbackFile(n) == records[n]

InspectBegin ==
  /\ reader.pc = "idle"
  /\ reader' = [IdleReader EXCEPT !.pc = "read"]
  /\ UNCHANGED <<records, failed, Disk, agent, row>>

(* get: a torn record ends the readback, as do a missing permit and a      *)
(* phase after a missing one.  snapshot is a ghost: what was read is what  *)
(* is there after the last read.                                           *)
InspectRead ==
  LET k == reader.at + 1
      n == ReadOrder[k]
      seen == [reader.seen EXCEPT ![n] = readbackFile(n)]
      last == k = Len(ReadOrder)
  IN
  /\ reader.pc = "read"
  /\ reader' = IF \/ readbackFile(n).state = "torn"
                  \/ n = "permit" /\ ~Saved(records, n)
                  \/ \E p \in Entered(seen) : p > 1 /\ p - 1 \notin Entered(seen)
               THEN IdleReader
               ELSE [reader EXCEPT !.at = k, !.seen = seen, !.failed = IF n = "failure" THEN failed.phase ELSE @,
                                   !.pc = IF last THEN "check" ELSE "read",
                                   !.snapshot = last /\ seen = records]
  /\ UNCHANGED <<records, failed, Disk, agent, row>>

InspectCheck ==
  /\ reader.pc = "check"
  /\ reader' = IF Coherent(reader.seen, reader.failed) THEN [reader EXCEPT !.pc = "recheck", !.at = 0] ELSE IdleReader
  /\ UNCHANGED <<records, failed, Disk, agent, row>>

(* Mutant of SameRecord: a record that was absent is not looked at again. *)
SameIfPresent(n) == reader.seen[n] # Absent => records[n] = reader.seen[n]

(* Every record that was read, and every absence, is compared again. *)
SameRecord(n) == readbackFile(n) = reader.seen[n]

InspectRecheck ==
  LET k == reader.at + 1 IN
  /\ reader.pc = "recheck"
  /\ reader' = IF ~SameRecord(ReadOrder[k]) THEN IdleReader
               ELSE [reader EXCEPT !.at = k, !.pc = IF k = Len(ReadOrder) THEN "accepted" ELSE "recheck"]
  /\ UNCHANGED <<records, failed, Disk, agent, row>>

(* ObservePostTurnCore: a finished execution must have the digest that the *)
(* phases expect, and a transcript seen here must be sealed there.         *)
HasTranscript(rs) == \E n \in {"control", "failure", "checkpoint"} \cup {postTurnPhases[k] : k \in Phases} : Saved(rs, n)
CoreAgrees(rs) ==
  /\ row.state = "FINISHED" => \E k \in Phases : Saved(rs, postTurnPhases[k]) /\ rs[postTurnPhases[k]].digest
  /\ HasTranscript(rs) => row.sealed

ObservePostTurnCore ==
  /\ reader.pc = "accepted" /\ reader.core = "none"
  /\ reader' = IF CoreAgrees(reader.seen) THEN [reader EXCEPT !.core = row.state] ELSE IdleReader
  /\ UNCHANGED <<records, failed, Disk, agent, row>>

InspectEnds ==
  /\ reader.pc = "accepted"
  /\ reader' = IdleReader
  /\ UNCHANGED <<records, failed, Disk, agent, row>>

RecordsInit ==
  /\ records = [n \in Names |-> Absent]
  /\ failed = [phase |-> 0, checkpoint |-> FALSE, registered |-> FALSE]
  /\ source = [bytes |-> 0, head |-> "base"]
  /\ codex = "running" /\ bundle = "absent" /\ archive = Nothing
  /\ agent = [pc |-> "permit", ok |-> TRUE, sealed |-> FALSE, quiescent |-> FALSE, phase |-> 0, finalizing |-> FALSE,
              expected |-> FALSE, version |-> 0, retained |-> FALSE, registered |-> FALSE]
  /\ row = [state |-> "AUTHORIZED", sealed |-> FALSE, checkpoint |-> Nothing]
  /\ reader = IdleReader

RecordsNext ==
  \/ SavePermit \/ Edit \/ RetainHistory
  \/ \E c, q, s, a \in BOOLEAN : RunCodexTurn(c, q, s, a)
  \/ SaveControl \/ phaseStart \/ SaveTurn \/ FinalizeCommit \/ FinalizeCreate \/ FinalizeCheck \/ SaveResult
  \/ ReportRenew \/ ReportResult \/ VerifyReceipt \/ StepFails
  \/ RetainPaths \/ RetainPreservationBundle \/ CaptureCreate \/ CaptureVerify \/ SaveCheckpoint \/ RegisterCheckpoint \/ SaveFailure
  \/ AgentDies \/ RowExpires
  \/ InspectBegin \/ InspectRead \/ InspectCheck \/ InspectRecheck \/ ObservePostTurnCore \/ InspectEnds

RecordsSpec == RecordsInit /\ [][RecordsNext]_recordVars

-----------------------------------------------------------------------------
(* Wherever the agent dies or fails, and while it still runs, the records  *)
(* are accepted by the readback unless a write was torn.                   *)
RecordsReadable ==
  Saved(records, "permit") /\ (\A n \in Names : records[n].state # "torn") => Coherent(records, failed.phase)

(* An accepted readback is the set of records of one moment, although the  *)
(* agent was writing; a saved result, or a FINISHED execution, has its     *)
(* whole bundle beside it; a checkpoint, saved or registered, is the       *)
(* source as Codex finally left it, on the base or one commit after it;    *)
(* and no failure is on record for an execution whose receipt was          *)
(* verified.                                                               *)
ReadbackTruthful ==
  /\ reader.pc = "accepted" => reader.snapshot
  /\ reader.core = "FINISHED" \/ Saved(records, "result") => bundle = "whole"
  /\ (Saved(records, "checkpoint") => archive = source.bytes) /\ row.checkpoint \in {Nothing, source.bytes}
  /\ Saved(records, "checkpoint") \/ row.checkpoint # Nothing => source.head # "stray"
  /\ (Saved(records, "failure") /\ failed.checkpoint => archive = source.bytes)
  /\ Saved(records, "failure") => agent.pc # "delivered"
=============================================================================
