----------------------- MODULE ExecutionRecordsProofs -----------------------
(***************************************************************************)
(* The records of a Codex execution and their readback, for any number of  *)
(* edits.  AgentInv relates the records to the place the agent has reached;*)
(* ReaderInv says that a record, once written, is never written again, so  *)
(* that two readings that agree are of one moment.                         *)
(***************************************************************************)
EXTENDS ExecutionRecords, FiniteSetTheorems, SequenceTheorems, TLAPS

(* The types of a record, of the agent and of the reader. *)
Record == [state : {"absent", "torn", "whole"}, digest : BOOLEAN]
EarlyPCs == {"permit", "turn", "close", "control"}
PhasePCs == {"phase", "turnrecord", "commit", "create", "check", "resultrecord", "renew", "report", "verify", "delivered"}
FailPCs == {"retain", "graph", "capture", "captured", "record", "register", "failure", "ended"}
AgentPCs == EarlyPCs \cup PhasePCs \cup FailPCs
Agent == [pc : AgentPCs, ok : BOOLEAN, sealed : BOOLEAN, quiescent : BOOLEAN, phase : 0 .. 6, finalizing : BOOLEAN,
          expected : BOOLEAN, version : 0 .. MaxEdits, retained : BOOLEAN, registered : BOOLEAN]
Row == [state : {"AUTHORIZED", "FINISHED", "UNKNOWN"}, sealed : BOOLEAN, checkpoint : 0 .. MaxEdits + 2]
ReaderPCs == {"idle", "read", "check", "recheck", "accepted"}
Reader == [pc : ReaderPCs, at : 0 .. Len(ReadOrder), seen : [Names -> Record],
           failed : 0 .. 6, snapshot : BOOLEAN, core : {"none", "AUTHORIZED", "FINISHED", "UNKNOWN"}]

RecordsTypeOK ==
  /\ records \in [Names -> Record]
  /\ failed \in [phase : 0 .. 6, checkpoint : BOOLEAN, registered : BOOLEAN]
  /\ source \in [bytes : 0 .. MaxEdits, head : {"base", "child", "stray"}]
  /\ codex \in {"running", "stopped"}
  /\ bundle \in {"absent", "partial", "whole"}
  /\ archive \in 0 .. MaxEdits + 2
  /\ agent \in Agent
  /\ row \in Row

(* Phase k is complete. *)
Past(a, k) == a.phase > k \/ (a.phase = k /\ a.pc = "phase")

(* Where the agent is says which phase it has entered, and whether the     *)
(* result's digest is known.                                               *)
PlaceStands(a) ==
  /\ a.pc \in EarlyPCs => a.phase = 0
  /\ a.pc = "phase" => a.phase \in 0 .. 5
  /\ a.pc = "turnrecord" => a.phase = 1
  /\ a.pc \in {"commit", "create", "check"} => a.phase = 2
  /\ a.pc = "resultrecord" => a.phase = 3
  /\ a.pc = "renew" => a.phase = 4
  /\ a.pc = "report" => a.phase = 5
  /\ a.pc \in {"verify", "delivered"} => a.phase = 6
  /\ a.pc = "failure" => a.phase > 0
  /\ a.pc # "ended" => (a.expected <=> Past(a, 2))

(* Phases before the last one entered are on record with the right digest; *)
(* the last one is too, unless the agent has failed.                       *)
PhasesStand(a) ==
  \A k \in Phases :
    /\ k > a.phase => records[postTurnPhases[k]] = Absent
    /\ k < a.phase \/ (k = a.phase /\ a.pc \notin FailPCs) => Saved(records, postTurnPhases[k])
    /\ records[postTurnPhases[k]] = Absent \/ (records[postTurnPhases[k]].digest <=> k > 2)

(* Each of the other records is written once, at its place. *)
RecordsStand(a) ==
  /\ a.pc = "permit" => records["permit"] = Absent
  /\ a.pc \in {"permit", "turn"} => records["history"] = Absent
  /\ a.pc \in EarlyPCs => records["control"] = Absent
  /\ a.phase = 0 \/ a.pc = "turnrecord" => records["turn"] = Absent
  /\ a.phase < 3 \/ a.pc = "resultrecord" => records["result"] = Absent
  /\ a.pc \notin {"register", "failure", "ended"} => records["checkpoint"] = Absent
  /\ a.pc # "ended" => records["failure"] = Absent
  /\ a.ok /\ a.pc \in {"close", "control"} => Saved(records, "history")
  /\ Past(a, 0) => Saved(records, "history")
  /\ Past(a, 1) => Saved(records, "turn")
  /\ Past(a, 3) => Saved(records, "result")
  /\ Saved(records, "turn") => Saved(records, postTurnPhases[1])
  /\ Saved(records, "result") => Saved(records, postTurnPhases[3])
  /\ records["failure"] # Absent => a.phase > 0 /\ failed.phase = a.phase /\ (records["failure"].digest <=> a.phase > 2)

(* A checkpoint is made of a source that no process changes any more. *)
SourceStands(a) ==
  /\ a.quiescent => codex = "stopped"
  /\ a.pc \in {"graph", "capture", "captured", "record", "register"} => a.quiescent
  /\ a.pc \in {"capture", "captured"} => source.head # "stray"
  /\ a.pc = "captured" => a.version = source.bytes
  /\ a.pc \in {"record", "register"} => a.retained
  /\ a.retained => /\ a.quiescent /\ archive = source.bytes /\ source.head # "stray"
                   /\ a.pc \in {"record", "register", "failure", "ended"}
  /\ records["checkpoint"] # Absent => a.retained
  /\ row.checkpoint # Nothing => a.retained /\ row.checkpoint = archive
  /\ records["failure"] # Absent /\ failed.checkpoint => a.retained

(* A result that Core may know has its bundle. *)
ResultStands(a) ==
  /\ Past(a, 2) => bundle = "whole"
  /\ row.state = "FINISHED" => a.phase >= 5

AgentInv ==
  /\ RecordsTypeOK
  /\ PlaceStands(agent)
  /\ PhasesStand(agent)
  /\ RecordsStand(agent)
  /\ SourceStands(agent)
  /\ ResultStands(agent)

(* Records are written once: what was read is there, or was still absent,  *)
(* and an absence that is over is found by the second reading.             *)
ReaderInv ==
  /\ reader \in Reader
  /\ \A n \in Names : reader.seen[n] \in {Absent, records[n]}
  /\ reader.pc = "read" => reader.at < Len(ReadOrder)
  /\ reader.pc = "check" /\ ~reader.snapshot => \E n \in Names : reader.seen[n] # records[n]
  /\ reader.pc = "recheck" => reader.at < Len(ReadOrder)
  /\ reader.pc = "recheck" /\ ~reader.snapshot => \E k \in DOMAIN ReadOrder : k > reader.at /\ reader.seen[ReadOrder[k]] # records[ReadOrder[k]]
  /\ reader.pc = "accepted" => reader.snapshot
  /\ reader.core = "FINISHED" => row.state = "FINISHED"

WriteOnce == \A n \in Names : records[n] # Absent => records'[n] = records[n]

-----------------------------------------------------------------------------
(* The parts of a concatenation. *)
LEMMA Joined ==
  ASSUME NEW S, NEW s \in Seq(S), NEW t \in Seq(S), NEW f, f = s \o t
  PROVE  /\ f \in Seq(S) /\ Len(f) = Len(s) + Len(t)
         /\ \A k \in 1 .. Len(s) : f[k] = s[k]
         /\ \A k \in 1 .. Len(t) : f[Len(s) + k] = t[k]
<1>1. /\ s \o t \in Seq(S) /\ Len(s \o t) = Len(s) + Len(t)
      /\ \A i \in 1 .. Len(s) + Len(t) : (s \o t)[i] = IF i <= Len(s) THEN s[i] ELSE t[i - Len(s)]
  BY ConcatProperties, Zenon
<1>2. Len(s) \in Nat /\ Len(t) \in Nat
  OBVIOUS
<1>4. \A i \in 1 .. Len(s) + Len(t) : f[i] = IF i <= Len(s) THEN s[i] ELSE t[i - Len(s)]
  BY <1>1
<1>5. ASSUME NEW k \in 1 .. Len(s) PROVE f[k] = s[k]
  BY <1>2, <1>4
<1>6. ASSUME NEW k \in 1 .. Len(t) PROVE f[Len(s) + k] = t[k]
  <2>1. Len(s) + k \in 1 .. Len(s) + Len(t) /\ ~(Len(s) + k <= Len(s)) /\ (Len(s) + k) - Len(s) = k
    BY <1>2
  <2>2. f[Len(s) + k] = t[(Len(s) + k) - Len(s)]
    BY <1>4, <2>1
  <2>3. QED BY <2>1, <2>2
<1>7. QED BY <1>1, <1>5, <1>6

(* The names of the records. *)
LEMMA OrderFacts ==
  /\ Len(ReadOrder) = 13 /\ DOMAIN ReadOrder = 1 .. 13
  /\ Phases = 1 .. 6
  /\ {"permit", "control", "history", "failure", "checkpoint", "turn", "result"} \subseteq Names
  /\ \A k \in Phases : postTurnPhases[k] \in Names
<1>21. PICK L : L = {"permit", "control", "history", "TURN_RECEIPT", "FINALIZE", "RESULT_PERSIST", "REPORT_RENEW", "RESULT_REPORT",
                 "RECEIPT_VERIFY", "failure", "checkpoint", "turn", "result"}
  OBVIOUS
<1>1. PICK a : a = <<"permit", "control", "history">>
  OBVIOUS
<1>2. PICK b : b = postTurnPhases
  OBVIOUS
<1>3. PICK c : c = <<"failure", "checkpoint", "turn", "result">>
  OBVIOUS
<1>4. a \in Seq(L) /\ Len(a) = 3 /\ a[1] = "permit" /\ a[2] = "control" /\ a[3] = "history"
  BY <1>1, <1>21
<1>5. b \in Seq(L) /\ Len(b) = 6
  BY <1>2, <1>21 DEF postTurnPhases
<1>6. Phases = 1 .. 6
  BY DEF Phases, postTurnPhases
<1>17. c \in Seq(L) /\ Len(c) = 4 /\ c[1] = "failure" /\ c[2] = "checkpoint" /\ c[3] = "turn" /\ c[4] = "result"
  BY <1>3, <1>21
<1>18. PICK ab : ab = a \o b
  OBVIOUS
<1>19. PICK o : o = ab \o c
  OBVIOUS
<1>20. ab \in Seq(L) /\ Len(ab) = 9 /\ (\A k \in 1 .. 3 : ab[k] = a[k]) /\ (\A k \in 1 .. 6 : ab[3 + k] = b[k])
  <2>1. /\ ab \in Seq(L) /\ Len(ab) = Len(a) + Len(b) /\ (\A k \in 1 .. Len(a) : ab[k] = a[k])
        /\ \A k \in 1 .. Len(b) : ab[Len(a) + k] = b[k]
    <3>1. a \in Seq(L) /\ b \in Seq(L)
      BY <1>4, <1>5
    <3>2. QED BY <1>18, <3>1, Joined
  <2>2. QED BY <1>4, <1>5, <2>1
<1>7. o \in Seq(L) /\ Len(o) = 13 /\ (\A k \in 1 .. 9 : o[k] = ab[k]) /\ (\A k \in 1 .. 4 : o[9 + k] = c[k])
  <2>1. /\ o \in Seq(L) /\ Len(o) = Len(ab) + Len(c) /\ (\A k \in 1 .. Len(ab) : o[k] = ab[k])
        /\ \A k \in 1 .. Len(c) : o[Len(ab) + k] = c[k]
    <3>1. ab \in Seq(L) /\ c \in Seq(L)
      BY <1>17, <1>20
    <3>2. QED BY <1>19, <3>1, Joined
  <2>2. QED BY <1>17, <1>20, <2>1
<1>8. ReadOrder = o
  BY <1>1, <1>2, <1>3, <1>18, <1>19 DEF ReadOrder
<1>9. DOMAIN o = 1 .. 13
  BY <1>7
<1>10. Names = {o[k] : k \in 1 .. 13}
  BY <1>8, <1>9 DEF Names
<1>11. o[1] = "permit" /\ o[2] = "control" /\ o[3] = "history"
  BY <1>4, <1>7, <1>20
<1>12. o[10] = "failure" /\ o[11] = "checkpoint" /\ o[12] = "turn" /\ o[13] = "result"
  <2>1. o[9 + 1] = c[1] /\ o[9 + 2] = c[2] /\ o[9 + 3] = c[3] /\ o[9 + 4] = c[4]
    BY <1>7
  <2>2. QED BY <1>17, <2>1
<1>13. \A k \in 1 .. 6 : o[3 + k] = b[k]
  <2>1. \A k \in 1 .. 6 : 3 + k \in 1 .. 9
    OBVIOUS
  <2>2. QED BY <1>7, <1>20, <2>1
<1>14. {"permit", "control", "history", "failure", "checkpoint", "turn", "result"} \subseteq Names
  BY <1>10, <1>11, <1>12
<1>15. \A k \in 1 .. 6 : b[k] \in Names
  <2>1. SUFFICES ASSUME NEW k \in 1 .. 6 PROVE b[k] \in Names
    OBVIOUS
  <2>2. 3 + k \in 1 .. 13 /\ o[3 + k] = b[k]
    BY <1>13
  <2>3. QED BY <1>10, <2>2
<1>16. QED BY <1>2, <1>6, <1>7, <1>8, <1>9, <1>14, <1>15

(* Phases have records of their own. *)
LEMMA PhaseNames ==
  /\ \A k \in Phases : postTurnPhases[k] \notin {"permit", "control", "history", "failure", "checkpoint", "turn", "result"}
  /\ \A j, k \in Phases : postTurnPhases[j] = postTurnPhases[k] => j = k
<1>1. Phases = 1 .. 6
  BY OrderFacts
<1>2. PICK p : p = postTurnPhases
  OBVIOUS
<1>3. p[1] = "TURN_RECEIPT" /\ p[2] = "FINALIZE" /\ p[3] = "RESULT_PERSIST" /\ p[4] = "REPORT_RENEW" /\ p[5] = "RESULT_REPORT" /\ p[6] = "RECEIPT_VERIFY"
  BY <1>2 DEF postTurnPhases
<1>4. \A k \in 1 .. 6 : k = 1 \/ k = 2 \/ k = 3 \/ k = 4 \/ k = 5 \/ k = 6
  OBVIOUS
<1>5. \A k \in 1 .. 6 : p[k] \notin {"permit", "control", "history", "failure", "checkpoint", "turn", "result"}
  BY <1>3, <1>4
<1>6. \A j, k \in 1 .. 6 : p[j] = p[k] => j = k
  BY <1>3, <1>4
<1>7. QED BY <1>1, <1>2, <1>5, <1>6

(* The step that follows each phase record. *)
LEMMA StepFacts ==
  /\ StepAfter[1] = "turnrecord" /\ StepAfter[2] = "commit" /\ StepAfter[3] = "resultrecord" /\ StepAfter[4] = "renew"
  /\ StepAfter[5] = "report" /\ StepAfter[6] = "verify"
BY DEF StepAfter

(* The fields of a record. *)
LEMMA AbsentFacts ==
  /\ Absent \in Record /\ Absent.state = "absent" /\ Absent.digest = FALSE
  /\ \A s \in {"absent", "torn", "whole"}, d \in BOOLEAN :
       RecordOf(s, d) \in Record /\ RecordOf(s, d).state = s /\ RecordOf(s, d).digest = d
BY DEF Absent, Record, RecordOf

(* The reader's type, with the number of records. *)
LEMMA ReaderType ==
  Reader = [pc : {"idle", "read", "check", "recheck", "accepted"}, at : 0 .. 13, seen : [Names -> Record],
            failed : 0 .. 6, snapshot : BOOLEAN, core : {"none", "AUTHORIZED", "FINISHED", "UNKNOWN"}]
<1>1. Len(ReadOrder) = 13
  BY OrderFacts
<1>2. QED BY <1>1 DEF Reader, ReaderPCs

-----------------------------------------------------------------------------
(* The agent. *)

(* Nothing is written or read at first. *)
LEMMA RecordsInitially == RecordsInit => AgentInv /\ ReaderInv
<1> SUFFICES ASSUME RecordsInit PROVE AgentInv /\ ReaderInv
  OBVIOUS
<1>1. /\ records = [n \in Names |-> Absent] /\ failed = [phase |-> 0, checkpoint |-> FALSE, registered |-> FALSE]
      /\ source = [bytes |-> 0, head |-> "base"] /\ codex = "running" /\ bundle = "absent" /\ archive = MaxEdits + 1
      /\ row = [state |-> "AUTHORIZED", sealed |-> FALSE, checkpoint |-> MaxEdits + 1] /\ reader = IdleReader
  BY DEF RecordsInit, Nothing
<1>2. /\ agent \in Agent /\ agent.pc = "permit" /\ agent.phase = 0 /\ agent.expected = FALSE /\ agent.quiescent = FALSE
      /\ agent.retained = FALSE
  BY RecordsAssumption DEF RecordsInit, Agent, AgentPCs, EarlyPCs
<1>3. RecordsTypeOK
  BY <1>1, <1>2, AbsentFacts, RecordsAssumption DEF RecordsTypeOK, Row
<1>4. \A n \in Names : records[n] = Absent
  BY <1>1
<1>5. PlaceStands(agent)
  BY <1>2 DEF PlaceStands, Past, EarlyPCs
<1>6. PhasesStand(agent)
  BY <1>2, <1>4, OrderFacts DEF PhasesStand
<1>7. RecordsStand(agent)
  <2>1. /\ records["permit"] = Absent /\ records["history"] = Absent /\ records["control"] = Absent
  /\ records["turn"] = Absent
        /\ records["result"] = Absent /\ records["checkpoint"] = Absent /\ records["failure"] = Absent
    BY <1>4, OrderFacts
  <2>2. QED BY <1>2, <2>1, AbsentFacts DEF RecordsStand, Past, Saved
<1>8. SourceStands(agent)
  BY <1>1, <1>2, <1>4, OrderFacts DEF SourceStands, Nothing
<1>9. ResultStands(agent)
  BY <1>1, <1>2 DEF ResultStands, Past
<1>10. /\ reader \in Reader /\ reader.pc = "idle" /\ reader.core = "none" /\ \A n \in Names : reader.seen[n] = Absent
  BY <1>1, AbsentFacts, ReaderType DEF IdleReader
<1>11. ReaderInv
  BY <1>10 DEF ReaderInv
<1>12. QED BY <1>3, <1>5, <1>6, <1>7, <1>8, <1>9, <1>11 DEF AgentInv

(* What a step of the agent owes to the reader. *)
Owed == AgentInv' /\ WriteOnce /\ (row.state = "FINISHED" => row'.state = "FINISHED")

(* Goto changes the place and nothing else. *)
LEMMA GotoFields ==
  ASSUME agent \in Agent, NEW pc \in AgentPCs, NEW a, a = Goto(pc)
  PROVE  /\ a \in Agent /\ a.pc = pc /\ a.ok = agent.ok /\ a.sealed = agent.sealed /\ a.quiescent = agent.quiescent
         /\ a.phase = agent.phase /\ a.finalizing = agent.finalizing /\ a.expected = agent.expected
         /\ a.version = agent.version /\ a.retained = agent.retained /\ a.registered = agent.registered
BY DEF Goto, Agent

(* A record is written whole, or the write has failed. *)
LEMMA SaveFacts ==
  ASSUME AgentInv, NEW n \in Names, NEW ok, NEW bad, Save(n, ok, bad), records[n] = Absent
  PROVE  \E r \in Record :
           /\ records' \in [Names -> Record] /\ records'[n] = r /\ (\A k \in Names \ {n} : records'[k] = records[k])
           /\ r = Absent \/ r.digest = agent.expected
           /\ (agent' = ok /\ r.state = "whole") \/ agent' = bad
           /\ WriteOnce
<1>1. records \in [Names -> Record] /\ agent.expected \in BOOLEAN
  BY DEF AgentInv, RecordsTypeOK, Agent
<1>2. ASSUME NEW r \in Record, records' = [records EXCEPT ![n] = r]
      PROVE  records' \in [Names -> Record] /\ records'[n] = r /\ (\A k \in Names \ {n} : records'[k] = records[k]) /\ WriteOnce
  BY <1>1, <1>2 DEF WriteOnce
<1>3. CASE records' = [records EXCEPT ![n] = RecordOf("whole", agent.expected)] /\ agent' = ok
  <2>1. PICK r \in Record : r = RecordOf("whole", agent.expected) /\ r.state = "whole" /\ r.digest = agent.expected
    BY <1>1, AbsentFacts
  <2>2. QED BY <1>2, <1>3, <2>1
<1>4. CASE \E s \in {"absent", "torn", "whole"} :
             /\ records' = [records EXCEPT ![n] = IF s = "absent" THEN Absent ELSE RecordOf(s, agent.expected)]
             /\ agent' = bad
  <2>1. PICK s \in {"absent", "torn", "whole"} :
             /\ records' = [records EXCEPT ![n] = IF s = "absent" THEN Absent ELSE RecordOf(s, agent.expected)]
             /\ agent' = bad
    BY <1>4
  <2>2. PICK r \in Record : r = (IF s = "absent" THEN Absent ELSE RecordOf(s, agent.expected))
                            /\ (r = Absent \/ r.digest = agent.expected)
    BY <1>1, AbsentFacts
  <2>3. QED BY <1>2, <2>1, <2>2
<1>5. QED BY <1>3, <1>4 DEF Save

(* Phases stay on record when another record is written. *)
LEMMA PhasesKept ==
  ASSUME AgentInv, \A k \in Phases : records'[postTurnPhases[k]] = records[postTurnPhases[k]],
         agent'.phase = agent.phase, agent.pc \in FailPCs => agent'.pc \in FailPCs
  PROVE  PhasesStand(agent)'
BY DEF AgentInv, PhasesStand, Saved

(* The first record. *)
LEMMA PermitStands ==
  ASSUME AgentInv, SavePermit
  PROVE  Owed
<1> USE DEF AgentInv
<1>1. /\ agent \in Agent /\ agent.pc = "permit" /\ agent.phase = 0 /\ Save("permit", Goto("turn"), Goto("ended"))
      /\ UNCHANGED <<failed, source, codex, bundle, archive, row>> /\ "permit" \in Names
      /\ records["permit"] = Absent
  BY OrderFacts DEF SavePermit, Disk, RecordsTypeOK, PlaceStands, EarlyPCs, RecordsStand
<1>2. PICK r \in Record :
           /\ records' \in [Names -> Record] /\ records'["permit"] = r /\ (\A k \in Names \ {"permit"} : records'[k] = records[k])
           /\ (agent' = Goto("turn") /\ r.state = "whole") \/ agent' = Goto("ended")
           /\ WriteOnce
  BY <1>1, SaveFacts
<1>3. "turn" \in AgentPCs /\ "ended" \in AgentPCs
  BY DEF AgentPCs, EarlyPCs, FailPCs
<1>4. /\ agent' \in Agent /\ agent'.pc \in {"turn", "ended"} /\ agent'.phase = 0 /\ agent'.expected = agent.expected
      /\ agent'.quiescent = agent.quiescent /\ agent'.retained = agent.retained /\ agent'.ok = agent.ok
  BY <1>1, <1>2, <1>3, GotoFields
<1>5. \A n \in {"history", "control", "turn", "result", "checkpoint", "failure"} : records'[n] = records[n]
  BY <1>2, OrderFacts
<1>6. \A k \in Phases : records'[postTurnPhases[k]] = records[postTurnPhases[k]]
  BY <1>2, OrderFacts, PhaseNames
<1>7. RecordsTypeOK'
  BY <1>1, <1>2, <1>4 DEF RecordsTypeOK
<1>8. PlaceStands(agent)'
  BY <1>1, <1>4 DEF PlaceStands, Past, EarlyPCs
<1>9. PhasesStand(agent)'
  BY <1>1, <1>4, <1>6, PhasesKept DEF FailPCs
<1>10. RecordsStand(agent)'
  BY <1>1, <1>4, <1>5, <1>6, OrderFacts DEF RecordsStand, Past, Saved, EarlyPCs
<1>11. SourceStands(agent)'
  BY <1>1, <1>4, <1>5 DEF SourceStands
<1>12. ResultStands(agent)'
  BY <1>1, <1>4 DEF ResultStands, Past
<1>13. QED BY <1>1, <1>2, <1>7, <1>8, <1>9, <1>10, <1>11, <1>12 DEF Owed

(* The history of the turn; without it no turn is taken for good. *)
LEMMA HistoryStands ==
  ASSUME AgentInv, RetainHistory
  PROVE  Owed
<1> USE DEF AgentInv
<1>1. /\ agent \in Agent /\ agent.pc = "turn" /\ Save("history", Goto("close"), [agent EXCEPT !.pc = "close", !.ok = FALSE])
      /\ UNCHANGED <<failed, source, codex, bundle, archive, row>> /\ "history" \in Names
      /\ records["history"] = Absent
  BY OrderFacts DEF RetainHistory, Disk, Failure, RecordsTypeOK, PlaceStands, EarlyPCs, RecordsStand
<1>2. PICK r \in Record :
           /\ records' \in [Names -> Record] /\ records'["history"] = r /\ (\A k \in Names \ {"history"} : records'[k] = records[k])
           /\ r = Absent \/ r.digest = agent.expected
           /\ (agent' = Goto("close") /\ r.state = "whole") \/ agent' = [agent EXCEPT !.pc = "close", !.ok = FALSE]
           /\ WriteOnce
  BY <1>1, SaveFacts
<1>3. {"close"} \subseteq AgentPCs
  BY DEF AgentPCs, EarlyPCs, PhasePCs, FailPCs
<1>4. /\ agent' \in Agent /\ agent'.phase = agent.phase /\ agent'.expected = agent.expected /\ agent'.version = agent.version
      /\ agent'.quiescent = agent.quiescent /\ agent'.retained = agent.retained
      /\ agent'.pc = "close" /\ (agent'.ok => r.state = "whole")
  <2>1. CASE agent' = Goto("close") /\ r.state = "whole"
    BY <1>1, <1>3, <2>1, GotoFields
  <2>2. CASE agent' = [agent EXCEPT !.pc = "close", !.ok = FALSE]
    BY <1>1, <1>3, <2>2 DEF Agent
  <2>3. QED BY <1>2, <2>1, <2>2
<1>5. \A n \in {"permit", "control", "turn", "result", "checkpoint", "failure"} : records'[n] = records[n]
  BY <1>2, OrderFacts
<1>6. \A k \in Phases : records'[postTurnPhases[k]] = records[postTurnPhases[k]]
  BY <1>2, OrderFacts, PhaseNames
<1>7. RecordsTypeOK'
  BY <1>1, <1>2, <1>4 DEF RecordsTypeOK
<1>8. PlaceStands(agent)'
  BY <1>1, <1>4 DEF PlaceStands, Past, EarlyPCs
<1>9. PhasesStand(agent)'
  BY <1>1, <1>4, <1>6, PhasesKept DEF FailPCs
<1>10. RecordsStand(agent)'
  BY <1>1, <1>2, <1>4, <1>5, <1>6, OrderFacts, AbsentFacts DEF RecordsStand, Past, Saved, EarlyPCs,
     PlaceStands, PhasesStand, FailPCs
<1>11. SourceStands(agent)'
  BY <1>1, <1>2, <1>4, <1>5 DEF SourceStands
<1>12. ResultStands(agent)'
  BY <1>1, <1>4 DEF ResultStands, Past, PlaceStands, EarlyPCs
<1>13. QED BY <1>1, <1>2, <1>7, <1>8, <1>9, <1>10, <1>11, <1>12 DEF Owed

(* The sealed transcript. *)
LEMMA ControlStands ==
  ASSUME AgentInv, SaveControl
  PROVE  Owed
<1> USE DEF AgentInv
<1>1. /\ agent \in Agent /\ agent.pc = "control" /\ Save("control", Goto(IF agent.ok THEN "phase" ELSE "retain"), Goto("retain"))
      /\ UNCHANGED <<failed, source, codex, bundle, archive, row>> /\ "control" \in Names
      /\ records["control"] = Absent
  BY OrderFacts DEF SaveControl, Disk, Failure, RecordsTypeOK, PlaceStands, EarlyPCs, RecordsStand
<1>2. PICK r \in Record :
           /\ records' \in [Names -> Record] /\ records'["control"] = r /\ (\A k \in Names \ {"control"} : records'[k] = records[k])
           /\ r = Absent \/ r.digest = agent.expected
           /\ (agent' = Goto(IF agent.ok THEN "phase" ELSE "retain") /\ r.state = "whole") \/ agent' = Goto("retain")
           /\ WriteOnce
  BY <1>1, SaveFacts
<1>3. {"phase", "retain"} \subseteq AgentPCs
  BY DEF AgentPCs, EarlyPCs, PhasePCs, FailPCs
<1>4. /\ agent' \in Agent /\ agent'.phase = agent.phase /\ agent'.expected = agent.expected /\ agent'.version = agent.version
      /\ agent'.quiescent = agent.quiescent /\ agent'.retained = agent.retained
      /\ agent'.pc \in {"phase", "retain"} /\ (agent'.pc = "phase" => agent.ok)
  BY <1>1, <1>2, <1>3, GotoFields
<1>5. \A n \in {"permit", "history", "turn", "result", "checkpoint", "failure"} : records'[n] = records[n]
  BY <1>2, OrderFacts
<1>6. \A k \in Phases : records'[postTurnPhases[k]] = records[postTurnPhases[k]]
  BY <1>2, OrderFacts, PhaseNames
<1>7. RecordsTypeOK'
  BY <1>1, <1>2, <1>4 DEF RecordsTypeOK
<1>8. PlaceStands(agent)'
  BY <1>1, <1>4 DEF PlaceStands, Past, EarlyPCs
<1>9. PhasesStand(agent)'
  BY <1>1, <1>4, <1>6, PhasesKept DEF FailPCs
<1>10. RecordsStand(agent)'
  BY <1>1, <1>2, <1>4, <1>5, <1>6, OrderFacts, AbsentFacts DEF RecordsStand, Past, Saved, EarlyPCs,
     PlaceStands, PhasesStand, FailPCs
<1>11. SourceStands(agent)'
  BY <1>1, <1>2, <1>4, <1>5 DEF SourceStands
<1>12. ResultStands(agent)'
  BY <1>1, <1>4 DEF ResultStands, Past, PlaceStands, EarlyPCs
<1>13. QED BY <1>1, <1>2, <1>7, <1>8, <1>9, <1>10, <1>11, <1>12 DEF Owed

(* The record of the turn. *)
LEMMA TurnStands ==
  ASSUME AgentInv, SaveTurn
  PROVE  Owed
<1> USE DEF AgentInv
<1>1. /\ agent \in Agent /\ agent.pc = "turnrecord" /\ Save("turn", Goto("phase"), Goto("retain"))
      /\ UNCHANGED <<failed, source, codex, bundle, archive, row>> /\ "turn" \in Names
      /\ records["turn"] = Absent
  BY OrderFacts DEF SaveTurn, Disk, Failure, RecordsTypeOK, PlaceStands, EarlyPCs, RecordsStand
<1>2. PICK r \in Record :
           /\ records' \in [Names -> Record] /\ records'["turn"] = r /\ (\A k \in Names \ {"turn"} : records'[k] = records[k])
           /\ r = Absent \/ r.digest = agent.expected
           /\ (agent' = Goto("phase") /\ r.state = "whole") \/ agent' = Goto("retain")
           /\ WriteOnce
  BY <1>1, SaveFacts
<1>3. {"phase", "retain"} \subseteq AgentPCs
  BY DEF AgentPCs, EarlyPCs, PhasePCs, FailPCs
<1>4. /\ agent' \in Agent /\ agent'.phase = agent.phase /\ agent'.expected = agent.expected /\ agent'.version = agent.version
      /\ agent'.quiescent = agent.quiescent /\ agent'.retained = agent.retained
      /\ agent'.pc \in {"phase", "retain"} /\ (agent'.pc = "phase" => r.state = "whole")
  BY <1>1, <1>2, <1>3, GotoFields
<1>5. \A n \in {"permit", "history", "control", "result", "checkpoint", "failure"} : records'[n] = records[n]
  BY <1>2, OrderFacts
<1>6. \A k \in Phases : records'[postTurnPhases[k]] = records[postTurnPhases[k]]
  BY <1>2, OrderFacts, PhaseNames
<1>7. RecordsTypeOK'
  BY <1>1, <1>2, <1>4 DEF RecordsTypeOK
<1>8. PlaceStands(agent)'
  BY <1>1, <1>4 DEF PlaceStands, Past, EarlyPCs
<1>9. PhasesStand(agent)'
  BY <1>1, <1>4, <1>6, PhasesKept DEF FailPCs
<1>10. RecordsStand(agent)'
  BY <1>1, <1>2, <1>4, <1>5, <1>6, OrderFacts, AbsentFacts DEF RecordsStand, Past, Saved, EarlyPCs,
     PlaceStands, PhasesStand, FailPCs
<1>11. SourceStands(agent)'
  BY <1>1, <1>2, <1>4, <1>5 DEF SourceStands
<1>12. ResultStands(agent)'
  BY <1>1, <1>4 DEF ResultStands, Past, PlaceStands, EarlyPCs
<1>13. QED BY <1>1, <1>2, <1>7, <1>8, <1>9, <1>10, <1>11, <1>12 DEF Owed

(* The record of the result. *)
LEMMA ResultSaveStands ==
  ASSUME AgentInv, SaveResult
  PROVE  Owed
<1> USE DEF AgentInv
<1>1. /\ agent \in Agent /\ agent.pc = "resultrecord" /\ Save("result", Goto("phase"), Goto("retain"))
      /\ UNCHANGED <<failed, source, codex, bundle, archive, row>> /\ "result" \in Names
      /\ records["result"] = Absent
  BY OrderFacts DEF SaveResult, Disk, Failure, RecordsTypeOK, PlaceStands, EarlyPCs, RecordsStand
<1>2. PICK r \in Record :
           /\ records' \in [Names -> Record] /\ records'["result"] = r /\ (\A k \in Names \ {"result"} : records'[k] = records[k])
           /\ r = Absent \/ r.digest = agent.expected
           /\ (agent' = Goto("phase") /\ r.state = "whole") \/ agent' = Goto("retain")
           /\ WriteOnce
  BY <1>1, SaveFacts
<1>3. {"phase", "retain"} \subseteq AgentPCs
  BY DEF AgentPCs, EarlyPCs, PhasePCs, FailPCs
<1>4. /\ agent' \in Agent /\ agent'.phase = agent.phase /\ agent'.expected = agent.expected /\ agent'.version = agent.version
      /\ agent'.quiescent = agent.quiescent /\ agent'.retained = agent.retained
      /\ agent'.pc \in {"phase", "retain"} /\ (agent'.pc = "phase" => r.state = "whole")
  BY <1>1, <1>2, <1>3, GotoFields
<1>5. \A n \in {"permit", "history", "control", "turn", "checkpoint", "failure"} : records'[n] = records[n]
  BY <1>2, OrderFacts
<1>6. \A k \in Phases : records'[postTurnPhases[k]] = records[postTurnPhases[k]]
  BY <1>2, OrderFacts, PhaseNames
<1>7. RecordsTypeOK'
  BY <1>1, <1>2, <1>4 DEF RecordsTypeOK
<1>8. PlaceStands(agent)'
  BY <1>1, <1>4 DEF PlaceStands, Past, EarlyPCs
<1>9. PhasesStand(agent)'
  BY <1>1, <1>4, <1>6, PhasesKept DEF FailPCs
<1>10. RecordsStand(agent)'
  BY <1>1, <1>2, <1>4, <1>5, <1>6, OrderFacts, AbsentFacts DEF RecordsStand, Past, Saved, EarlyPCs,
     PlaceStands, PhasesStand, FailPCs
<1>11. SourceStands(agent)'
  BY <1>1, <1>2, <1>4, <1>5 DEF SourceStands
<1>12. ResultStands(agent)'
  BY <1>1, <1>4 DEF ResultStands, Past, PlaceStands, EarlyPCs
<1>13. QED BY <1>1, <1>2, <1>7, <1>8, <1>9, <1>10, <1>11, <1>12 DEF Owed

(* The record of the checkpoint. *)
LEMMA CheckpointStands ==
  ASSUME AgentInv, SaveCheckpoint
  PROVE  Owed
<1> USE DEF AgentInv
<1>1. /\ agent \in Agent /\ agent.pc = "record" /\ Save("checkpoint", Goto("register"), Goto("register"))
      /\ UNCHANGED <<failed, source, codex, bundle, archive, row>> /\ "checkpoint" \in Names
      /\ records["checkpoint"] = Absent
  BY OrderFacts DEF SaveCheckpoint, Disk, Failure, RecordsTypeOK, PlaceStands, EarlyPCs, RecordsStand
<1>2. PICK r \in Record :
           /\ records' \in [Names -> Record] /\ records'["checkpoint"] = r /\ (\A k \in Names \ {"checkpoint"} : records'[k] = records[k])
           /\ r = Absent \/ r.digest = agent.expected
           /\ (agent' = Goto("register") /\ r.state = "whole") \/ agent' = Goto("register")
           /\ WriteOnce
  BY <1>1, SaveFacts
<1>3. {"register"} \subseteq AgentPCs
  BY DEF AgentPCs, EarlyPCs, PhasePCs, FailPCs
<1>4. /\ agent' \in Agent /\ agent'.phase = agent.phase /\ agent'.expected = agent.expected /\ agent'.version = agent.version
      /\ agent'.quiescent = agent.quiescent /\ agent'.retained = agent.retained
      /\ agent'.pc = "register"
  BY <1>1, <1>2, <1>3, GotoFields
<1>5. \A n \in {"permit", "history", "control", "turn", "result", "failure"} : records'[n] = records[n]
  BY <1>2, OrderFacts
<1>6. \A k \in Phases : records'[postTurnPhases[k]] = records[postTurnPhases[k]]
  BY <1>2, OrderFacts, PhaseNames
<1>7. RecordsTypeOK'
  BY <1>1, <1>2, <1>4 DEF RecordsTypeOK
<1>8. PlaceStands(agent)'
  BY <1>1, <1>4 DEF PlaceStands, Past, EarlyPCs
<1>9. PhasesStand(agent)'
  BY <1>1, <1>4, <1>6, PhasesKept DEF FailPCs
<1>10. RecordsStand(agent)'
  BY <1>1, <1>2, <1>4, <1>5, <1>6, OrderFacts, AbsentFacts DEF RecordsStand, Past, Saved, EarlyPCs,
     PlaceStands, PhasesStand, FailPCs
<1>11. SourceStands(agent)'
  BY <1>1, <1>2, <1>4, <1>5 DEF SourceStands
<1>12. ResultStands(agent)'
  BY <1>1, <1>4 DEF ResultStands, Past, PlaceStands, EarlyPCs
<1>13. QED BY <1>1, <1>2, <1>7, <1>8, <1>9, <1>10, <1>11, <1>12 DEF Owed

(* The record of the failure is the agent's last. *)
LEMMA FailureStands ==
  ASSUME AgentInv, SaveFailure
  PROVE  Owed
<1> USE DEF AgentInv
<1>1. /\ agent \in Agent /\ agent.pc = "failure" /\ Save("failure", Goto("ended"), Goto("ended"))
      /\ UNCHANGED <<source, codex, bundle, archive, row>> /\ "failure" \in Names
      /\ records["failure"] = Absent
      /\ failed' = [phase |-> agent.phase, checkpoint |-> agent.retained, registered |-> agent.registered]
      /\ failed'.phase = agent.phase /\ failed'.checkpoint = agent.retained
  BY OrderFacts DEF SaveFailure, Disk, Failure, RecordsTypeOK, PlaceStands, EarlyPCs, RecordsStand
<1>2. PICK r \in Record :
           /\ records' \in [Names -> Record] /\ records'["failure"] = r /\ (\A k \in Names \ {"failure"} : records'[k] = records[k])
           /\ r = Absent \/ r.digest = agent.expected
           /\ (agent' = Goto("ended") /\ r.state = "whole") \/ agent' = Goto("ended")
           /\ WriteOnce
  BY <1>1, SaveFacts
<1>3. {"ended"} \subseteq AgentPCs
  BY DEF AgentPCs, EarlyPCs, PhasePCs, FailPCs
<1>4. /\ agent' \in Agent /\ agent'.phase = agent.phase /\ agent'.expected = agent.expected /\ agent'.version = agent.version
      /\ agent'.quiescent = agent.quiescent /\ agent'.retained = agent.retained
      /\ agent'.pc = "ended"
  BY <1>1, <1>2, <1>3, GotoFields
<1>5. \A n \in {"permit", "history", "control", "turn", "result", "checkpoint"} : records'[n] = records[n]
  BY <1>2, OrderFacts
<1>6. \A k \in Phases : records'[postTurnPhases[k]] = records[postTurnPhases[k]]
  BY <1>2, OrderFacts, PhaseNames
<1>7. RecordsTypeOK'
  BY <1>1, <1>2, <1>4 DEF RecordsTypeOK, Agent
<1>8. PlaceStands(agent)'
  BY <1>1, <1>4 DEF PlaceStands, Past, EarlyPCs
<1>9. PhasesStand(agent)'
  BY <1>1, <1>4, <1>6, PhasesKept DEF FailPCs
<1>10. RecordsStand(agent)'
  BY <1>1, <1>2, <1>4, <1>5, <1>6, OrderFacts, AbsentFacts DEF RecordsStand, Past, Saved, EarlyPCs,
     PlaceStands, PhasesStand, FailPCs
<1>11. SourceStands(agent)'
  BY <1>1, <1>2, <1>4, <1>5 DEF SourceStands
<1>12. ResultStands(agent)'
  BY <1>1, <1>4 DEF ResultStands, Past, PlaceStands, EarlyPCs
<1>13. QED BY <1>1, <1>2, <1>7, <1>8, <1>9, <1>10, <1>11, <1>12 DEF Owed

(* A phase begins with its record, under the digest known by then. *)
LEMMA PhaseStartStands ==
  ASSUME AgentInv, phaseStart
  PROVE  Owed
<1> USE DEF AgentInv
<1>1. PICK a : a = agent
  OBVIOUS
<1>2. a \in Agent /\ a.pc = "phase" /\ a.phase \in 0 .. 5 /\ (a.expected <=> a.phase >= 2)
  BY <1>1 DEF phaseStart, RecordsTypeOK, PlaceStands, Past
<1>3. PICK q \in 1 .. 6 : q = a.phase + 1
  BY <1>2
<1>4. PICK next : next = [a EXCEPT !.phase = q]
  OBVIOUS
<1>5. /\ next \in Agent /\ next.phase = q /\ next.pc = a.pc /\ next.ok = a.ok /\ next.sealed = a.sealed /\ next.quiescent = a.quiescent
      /\ next.finalizing = a.finalizing /\ next.expected = a.expected /\ next.version = a.version
      /\ next.retained = a.retained /\ next.registered = a.registered
  BY <1>2, <1>3, <1>4 DEF Agent
<1>6. next = [agent EXCEPT !.phase = @ + 1]
  BY <1>1, <1>2, <1>3, <1>4 DEF Agent
<1>7. PICK ok, bad, n : /\ ok = [next EXCEPT !.pc = StepAfter[q], !.finalizing = @ \/ q = 2]
                        /\ bad = [next EXCEPT !.pc = "retain"] /\ n = postTurnPhases[q]
  OBVIOUS
<1>8. Save(n, ok, bad) /\ UNCHANGED <<failed, source, codex, bundle, archive, row>>
  BY <1>5, <1>6, <1>7 DEF phaseStart, Disk
<1>9. q \in Phases /\ n \in Names /\ records[n] = Absent
  BY <1>1, <1>2, <1>3, <1>7, OrderFacts DEF PhasesStand
<1>10. PICK r \in Record :
           /\ records' \in [Names -> Record] /\ records'[n] = r /\ (\A k \in Names \ {n} : records'[k] = records[k])
           /\ r = Absent \/ r.digest = agent.expected
           /\ (agent' = ok /\ r.state = "whole") \/ agent' = bad
           /\ WriteOnce
  BY <1>8, <1>9, SaveFacts
<1>11. /\ StepAfter[q] \in PhasePCs \ {"phase", "delivered", "create", "check"} /\ StepAfter[q] \in AgentPCs
       /\ (StepAfter[q] = "turnrecord" => q = 1) /\ (StepAfter[q] = "commit" => q = 2) /\ (StepAfter[q] = "resultrecord" => q = 3)
       /\ (StepAfter[q] = "renew" => q = 4) /\ (StepAfter[q] = "report" => q = 5) /\ (StepAfter[q] = "verify" => q = 6)
  <2>1. q = 1 \/ q = 2 \/ q = 3 \/ q = 4 \/ q = 5 \/ q = 6
    OBVIOUS
  <2>2. QED BY <2>1, StepFacts DEF PhasePCs, AgentPCs
<1>12. "retain" \in AgentPCs
  BY DEF AgentPCs, FailPCs
<1>13. /\ agent' \in Agent /\ agent'.phase = q /\ agent'.expected = a.expected /\ agent'.quiescent = a.quiescent
       /\ agent'.retained = a.retained
       /\ (agent'.pc = StepAfter[q] /\ r.state = "whole") \/ agent'.pc = "retain"
  <2>1. CASE agent' = ok /\ r.state = "whole"
    <3>1. (next.finalizing \/ q = 2) \in BOOLEAN
      BY <1>5 DEF Agent
    <3>2. QED BY <1>5, <1>7, <1>11, <2>1, <3>1 DEF Agent
  <2>2. CASE agent' = bad
    BY <1>5, <1>7, <1>12, <2>2 DEF Agent
  <2>3. QED BY <1>10, <2>1, <2>2
<1>14. \A k \in {"permit", "history", "control", "turn", "result", "checkpoint", "failure"} : records'[k] = records[k]
  BY <1>7, <1>9, <1>10, OrderFacts, PhaseNames
<1>15. \A k \in Phases \ {q} : records'[postTurnPhases[k]] = records[postTurnPhases[k]]
  BY <1>7, <1>9, <1>10, OrderFacts, PhaseNames
<1>16. RecordsTypeOK'
  BY <1>8, <1>10, <1>13 DEF RecordsTypeOK
<1>17. agent'.pc \notin EarlyPCs \cup {"phase", "ended", "failure", "delivered", "create", "check"}
  BY <1>11, <1>13 DEF EarlyPCs, PhasePCs
<1>18. PlaceStands(agent)'
  BY <1>2, <1>3, <1>11, <1>13, <1>17 DEF PlaceStands, Past, EarlyPCs
<1>19. PhasesStand(agent)'
  <2>1. ASSUME NEW k \in Phases
        PROVE  /\ k > q => records'[postTurnPhases[k]] = Absent
               /\ k < q \/ (k = q /\ agent'.pc \notin FailPCs) => Saved(records', postTurnPhases[k])
               /\ records'[postTurnPhases[k]] = Absent \/ (records'[postTurnPhases[k]].digest <=> k > 2)
    <3>1. CASE k = q
      <4>1. records'[postTurnPhases[k]] = r
        BY <1>7, <1>10, <3>1
      <4>2. agent'.pc \notin FailPCs => r.state = "whole"
        BY <1>13 DEF FailPCs
      <4>3. r = Absent \/ (r.digest <=> q > 2)
        BY <1>1, <1>2, <1>3, <1>10
      <4>4. QED BY <3>1, <4>1, <4>2, <4>3 DEF Saved
    <3>2. CASE k # q
      <4>1. records'[postTurnPhases[k]] = records[postTurnPhases[k]]
        BY <1>15, <3>2
      <4>2. k \in 1 .. 6
        BY OrderFacts
      <4>3. /\ k > q => records[postTurnPhases[k]] = Absent
            /\ k < q => Saved(records, postTurnPhases[k])
            /\ records[postTurnPhases[k]] = Absent \/ (records[postTurnPhases[k]].digest <=> k > 2)
        BY <1>1, <1>2, <1>3, <4>2 DEF PhasesStand, FailPCs
      <4>4. QED BY <3>2, <4>1, <4>2, <4>3 DEF Saved
    <3>3. QED BY <3>1, <3>2
  <2>2. QED BY <1>13, <2>1 DEF PhasesStand
<1>20. RecordsStand(agent)'
  <2>1. \A k \in {1, 3} : Saved(records, postTurnPhases[k]) => Saved(records', postTurnPhases[k])
    <3>1. SUFFICES ASSUME NEW k \in {1, 3}, Saved(records, postTurnPhases[k]) PROVE Saved(records', postTurnPhases[k])
      OBVIOUS
    <3>2. k \in Phases /\ records[postTurnPhases[k]] # Absent
      BY <3>1, OrderFacts, AbsentFacts DEF Saved
    <3>3. QED BY <1>10, <3>1, <3>2, OrderFacts DEF WriteOnce, Saved
  <2>2. RecordsStand(a)
    BY <1>1
  <2>3. agent'.pc = "turnrecord" => q = 1
    BY <1>11, <1>13
  <2>4. agent'.pc = "resultrecord" => q = 3
    BY <1>11, <1>13
  <2>5. records["failure"] = Absent /\ records["checkpoint"] = Absent /\ Saved(records, "history")
    BY <1>2, <2>2 DEF RecordsStand, Past
  <2>6. /\ (q > 1 => Saved(records, "turn")) /\ (q > 3 => Saved(records, "result")) /\ (q = 1 => records["turn"] = Absent)
        /\ (q <= 3 => records["result"] = Absent)
        /\ (Saved(records, "turn") => Saved(records, postTurnPhases[1])) /\ (Saved(records, "result") => Saved(records, postTurnPhases[3]))
    BY <1>2, <1>3, <2>2 DEF RecordsStand, Past
  <2>7. QED BY <1>13, <1>14, <1>17, <2>1, <2>3, <2>4, <2>5, <2>6 DEF RecordsStand, Past, Saved, EarlyPCs
<1>21. SourceStands(agent)'
  <2>1. SourceStands(a) /\ records["failure"] = Absent /\ records["checkpoint"] = Absent
    BY <1>1, <1>2 DEF RecordsStand
  <2>2. ~a.retained /\ row.checkpoint = Nothing
    BY <1>2, <2>1 DEF SourceStands
  <2>3. agent'.pc \notin {"graph", "capture", "captured", "record", "register"}
    BY <1>11, <1>13 DEF PhasePCs
  <2>4. QED BY <1>8, <1>13, <1>14, <2>1, <2>2, <2>3 DEF SourceStands
<1>22. ResultStands(agent)'
  BY <1>1, <1>2, <1>3, <1>8, <1>13, <1>17 DEF ResultStands, Past
<1>23. QED BY <1>8, <1>10, <1>16, <1>18, <1>19, <1>20, <1>21, <1>22 DEF Owed

(* A step that writes no record. *)
LEMMA QuietMoves ==
  ASSUME AgentInv, UNCHANGED <<records, failed>>, agent' \in Agent, agent'.phase = agent.phase,
         agent.pc \in FailPCs => agent'.pc \in FailPCs,
         source' \in [bytes : 0 .. MaxEdits, head : {"base", "child", "stray"}], codex' \in {"running", "stopped"},
         bundle' \in {"absent", "partial", "whole"}, archive' \in 0 .. MaxEdits + 2, row' \in Row,
         PlaceStands(agent)', RecordsStand(agent)', SourceStands(agent)', ResultStands(agent)',
         row.state = "FINISHED" => row'.state = "FINISHED"
  PROVE  Owed
<1>1. PhasesStand(agent)'
  BY PhasesKept
<1>2. RecordsTypeOK' /\ WriteOnce
  BY DEF AgentInv, RecordsTypeOK, WriteOnce
<1>3. QED BY <1>1, <1>2 DEF AgentInv, Owed

(* The turn ends; only a quiescent end has stopped the process. *)
LEMMA TurnEndStands ==
  ASSUME AgentInv, NEW c \in BOOLEAN, NEW q \in BOOLEAN, NEW s \in BOOLEAN, NEW a \in BOOLEAN, RunCodexTurn(c, q, s, a)
  PROVE  Owed
<1> USE DEF AgentInv
<1>1. /\ agent \in Agent /\ (agent.pc = "close" \/ (agent.pc = "turn" /\ ~c))
      /\ codex' = (IF q THEN "stopped" ELSE codex) /\ row' = [row EXCEPT !.sealed = s]
      /\ agent' = [agent EXCEPT !.quiescent = q, !.sealed = a, !.ok = (agent.ok /\ c /\ q /\ a) /\ agent.pc = "close",
                                !.pc = IF a THEN "control" ELSE "retain"]
      /\ UNCHANGED <<records, failed, source, bundle, archive>>
  BY DEF RunCodexTurn, Disk, Failure, RecordsTypeOK
<1>2. /\ source \in [bytes : 0 .. MaxEdits, head : {"base", "child", "stray"}] /\ codex \in {"running", "stopped"}
      /\ bundle \in {"absent", "partial", "whole"} /\ archive \in 0 .. MaxEdits + 2 /\ row \in Row
  BY DEF RecordsTypeOK
<1>3. {"control", "retain"} \subseteq AgentPCs
  BY DEF AgentPCs, EarlyPCs, PhasePCs, FailPCs
<1>4. /\ agent' \in Agent
      /\ agent'.pc \in {"control", "retain"} /\ agent'.quiescent = q /\ (agent'.ok => agent.ok /\ agent.pc = "close")
      /\ agent'.phase = agent.phase /\ agent'.finalizing = agent.finalizing /\ agent'.expected = agent.expected
      /\ agent'.version = agent.version /\ agent'.retained = agent.retained
      /\ agent'.registered = agent.registered
  <2>1. ((agent.ok /\ c /\ q /\ a) /\ agent.pc = "close") \in BOOLEAN
    OBVIOUS
  <2>2. QED BY <1>1, <1>3, <2>1 DEF Agent
<1>5. /\ source' \in [bytes : 0 .. MaxEdits, head : {"base", "child", "stray"}] /\ codex' \in {"running", "stopped"}
      /\ bundle' \in {"absent", "partial", "whole"} /\ archive' \in 0 .. MaxEdits + 2 /\ row' \in Row
      /\ row.state = "FINISHED" => row'.state = "FINISHED"
  BY <1>1, <1>2, RecordsAssumption DEF Row
<1>6. PlaceStands(agent)'
  BY <1>1, <1>4 DEF PlaceStands, Past, EarlyPCs
<1>7. RecordsStand(agent)'
  BY <1>1, <1>4 DEF RecordsStand, Past, Saved, EarlyPCs, PlaceStands
<1>8. SourceStands(agent)'
  BY <1>1, <1>2, <1>4 DEF SourceStands, Row
<1>9. ResultStands(agent)'
  BY <1>1, <1>4 DEF ResultStands, Past, PlaceStands, EarlyPCs
<1>10. agent.pc \in FailPCs => agent'.pc \in FailPCs
  BY <1>1, <1>4 DEF FailPCs
<1>11. QED BY <1>1, <1>4, <1>5, <1>6, <1>7, <1>8, <1>9, <1>10, QuietMoves

(* Finalize commits once, on the base. *)
LEMMA CommitStands ==
  ASSUME AgentInv, FinalizeCommit
  PROVE  Owed
<1> USE DEF AgentInv
<1>1. /\ agent \in Agent /\ agent.pc = "commit" /\ source' = [source EXCEPT !.head = "child"] /\ agent' = Goto("create")
      /\ UNCHANGED <<records, failed, codex, bundle, archive, row>>
  BY DEF FinalizeCommit, Disk, Failure, RecordsTypeOK
<1>2. /\ source \in [bytes : 0 .. MaxEdits, head : {"base", "child", "stray"}] /\ codex \in {"running", "stopped"}
      /\ bundle \in {"absent", "partial", "whole"} /\ archive \in 0 .. MaxEdits + 2 /\ row \in Row
  BY DEF RecordsTypeOK
<1>3. {"create"} \subseteq AgentPCs
  BY DEF AgentPCs, EarlyPCs, PhasePCs, FailPCs
<1>4. /\ agent' \in Agent
      /\ agent'.pc = "create" /\ agent'.ok = agent.ok /\ agent'.sealed = agent.sealed
      /\ agent'.quiescent = agent.quiescent /\ agent'.phase = agent.phase
      /\ agent'.finalizing = agent.finalizing /\ agent'.expected = agent.expected
      /\ agent'.version = agent.version /\ agent'.retained = agent.retained
      /\ agent'.registered = agent.registered
  BY <1>1, <1>3, GotoFields
<1>5. /\ source' \in [bytes : 0 .. MaxEdits, head : {"base", "child", "stray"}] /\ codex' \in {"running", "stopped"}
      /\ bundle' \in {"absent", "partial", "whole"} /\ archive' \in 0 .. MaxEdits + 2 /\ row' \in Row
      /\ row.state = "FINISHED" => row'.state = "FINISHED"
  BY <1>1, <1>2, RecordsAssumption
<1>6. PlaceStands(agent)'
  BY <1>1, <1>4 DEF PlaceStands, Past, EarlyPCs
<1>7. RecordsStand(agent)'
  BY <1>1, <1>4 DEF RecordsStand, Past, Saved, EarlyPCs, PlaceStands
<1>8. SourceStands(agent)'
  BY <1>1, <1>2, <1>4 DEF SourceStands
<1>9. ResultStands(agent)'
  BY <1>1, <1>4 DEF ResultStands, Past, PlaceStands, EarlyPCs
<1>10. agent.pc \in FailPCs => agent'.pc \in FailPCs
  BY <1>1, <1>4 DEF FailPCs
<1>11. QED BY <1>1, <1>4, <1>5, <1>6, <1>7, <1>8, <1>9, <1>10, QuietMoves

(* The bundle is created. *)
LEMMA CreateStands ==
  ASSUME AgentInv, FinalizeCreate
  PROVE  Owed
<1> USE DEF AgentInv
<1>1. /\ agent \in Agent /\ agent.pc = "create" /\ bundle' = "partial" /\ agent' = Goto("check")
      /\ UNCHANGED <<records, failed, source, codex, archive, row>>
  BY DEF FinalizeCreate, Disk, Failure, RecordsTypeOK
<1>2. /\ source \in [bytes : 0 .. MaxEdits, head : {"base", "child", "stray"}] /\ codex \in {"running", "stopped"}
      /\ bundle \in {"absent", "partial", "whole"} /\ archive \in 0 .. MaxEdits + 2 /\ row \in Row
  BY DEF RecordsTypeOK
<1>3. {"check"} \subseteq AgentPCs
  BY DEF AgentPCs, EarlyPCs, PhasePCs, FailPCs
<1>4. /\ agent' \in Agent
      /\ agent'.pc = "check" /\ agent'.ok = agent.ok /\ agent'.sealed = agent.sealed
      /\ agent'.quiescent = agent.quiescent /\ agent'.phase = agent.phase
      /\ agent'.finalizing = agent.finalizing /\ agent'.expected = agent.expected
      /\ agent'.version = agent.version /\ agent'.retained = agent.retained
      /\ agent'.registered = agent.registered
  BY <1>1, <1>3, GotoFields
<1>5. /\ source' \in [bytes : 0 .. MaxEdits, head : {"base", "child", "stray"}] /\ codex' \in {"running", "stopped"}
      /\ bundle' \in {"absent", "partial", "whole"} /\ archive' \in 0 .. MaxEdits + 2 /\ row' \in Row
      /\ row.state = "FINISHED" => row'.state = "FINISHED"
  BY <1>1, <1>2, RecordsAssumption
<1>6. PlaceStands(agent)'
  BY <1>1, <1>4 DEF PlaceStands, Past, EarlyPCs
<1>7. RecordsStand(agent)'
  BY <1>1, <1>4 DEF RecordsStand, Past, Saved, EarlyPCs, PlaceStands
<1>8. SourceStands(agent)'
  BY <1>1, <1>2, <1>4 DEF SourceStands
<1>9. ResultStands(agent)'
  BY <1>1, <1>4 DEF ResultStands, Past, PlaceStands, EarlyPCs
<1>10. agent.pc \in FailPCs => agent'.pc \in FailPCs
  BY <1>1, <1>4 DEF FailPCs
<1>11. QED BY <1>1, <1>4, <1>5, <1>6, <1>7, <1>8, <1>9, <1>10, QuietMoves

(* The digest is expected only with a whole bundle. *)
LEMMA CheckStands ==
  ASSUME AgentInv, FinalizeCheck
  PROVE  Owed
<1> USE DEF AgentInv
<1>1. /\ agent \in Agent /\ agent.pc = "check"
      /\ \/ bundle' = "whole" /\ agent' \in {[agent EXCEPT !.pc = "phase", !.expected = TRUE], Goto("retain")}
         \/ bundle' = "absent" /\ agent' = Goto("retain")
      /\ UNCHANGED <<records, failed, source, codex, archive, row>>
  BY DEF FinalizeCheck, Disk, Failure, RecordsTypeOK
<1>2. /\ source \in [bytes : 0 .. MaxEdits, head : {"base", "child", "stray"}] /\ codex \in {"running", "stopped"}
      /\ bundle \in {"absent", "partial", "whole"} /\ archive \in 0 .. MaxEdits + 2 /\ row \in Row
  BY DEF RecordsTypeOK
<1>3. {"phase", "retain"} \subseteq AgentPCs
  BY DEF AgentPCs, EarlyPCs, PhasePCs, FailPCs
<1>4. /\ agent' \in Agent
      /\ agent'.pc \in {"phase", "retain"} /\ (agent'.pc = "phase" => bundle' = "whole" /\ agent'.expected)
      /\ (agent'.pc = "retain" => agent'.expected = agent.expected)
      /\ agent'.ok = agent.ok /\ agent'.sealed = agent.sealed /\ agent'.quiescent = agent.quiescent
      /\ agent'.phase = agent.phase /\ agent'.finalizing = agent.finalizing /\ agent'.version = agent.version
      /\ agent'.retained = agent.retained /\ agent'.registered = agent.registered
  <2>1. CASE agent' = Goto("retain")
    BY <1>1, <1>3, <2>1, GotoFields
  <2>2. CASE bundle' = "whole" /\ agent' = [agent EXCEPT !.pc = "phase", !.expected = TRUE]
    BY <1>1, <1>3, <2>2 DEF Agent
  <2>3. QED BY <1>1, <2>1, <2>2
<1>5. /\ source' \in [bytes : 0 .. MaxEdits, head : {"base", "child", "stray"}] /\ codex' \in {"running", "stopped"}
      /\ bundle' \in {"absent", "partial", "whole"} /\ archive' \in 0 .. MaxEdits + 2 /\ row' \in Row
      /\ row.state = "FINISHED" => row'.state = "FINISHED"
  BY <1>1, <1>2, RecordsAssumption
<1>6. PlaceStands(agent)'
  BY <1>1, <1>4 DEF PlaceStands, Past, EarlyPCs
<1>7. RecordsStand(agent)'
  BY <1>1, <1>4 DEF RecordsStand, Past, Saved, EarlyPCs, PlaceStands
<1>8. SourceStands(agent)'
  BY <1>1, <1>2, <1>4 DEF SourceStands
<1>9. ResultStands(agent)'
  BY <1>1, <1>4 DEF ResultStands, Past, PlaceStands, EarlyPCs
<1>10. agent.pc \in FailPCs => agent'.pc \in FailPCs
  BY <1>1, <1>4 DEF FailPCs
<1>11. QED BY <1>1, <1>4, <1>5, <1>6, <1>7, <1>8, <1>9, <1>10, QuietMoves

(* The lease is renewed before the report. *)
LEMMA RenewStands ==
  ASSUME AgentInv, ReportRenew
  PROVE  Owed
<1> USE DEF AgentInv
<1>1. /\ agent \in Agent /\ agent.pc = "renew" /\ (agent' = Goto("phase") \/ agent' = Goto("retain"))
      /\ UNCHANGED <<records, failed, source, codex, bundle, archive, row>>
  BY DEF ReportRenew, Disk, Failure, RecordsTypeOK
<1>2. /\ source \in [bytes : 0 .. MaxEdits, head : {"base", "child", "stray"}] /\ codex \in {"running", "stopped"}
      /\ bundle \in {"absent", "partial", "whole"} /\ archive \in 0 .. MaxEdits + 2 /\ row \in Row
  BY DEF RecordsTypeOK
<1>3. {"phase", "retain"} \subseteq AgentPCs
  BY DEF AgentPCs, EarlyPCs, PhasePCs, FailPCs
<1>4. /\ agent' \in Agent
      /\ agent'.pc \in {"phase", "retain"} /\ agent'.ok = agent.ok /\ agent'.sealed = agent.sealed
      /\ agent'.quiescent = agent.quiescent /\ agent'.phase = agent.phase
      /\ agent'.finalizing = agent.finalizing /\ agent'.expected = agent.expected
      /\ agent'.version = agent.version /\ agent'.retained = agent.retained
      /\ agent'.registered = agent.registered
  BY <1>1, <1>3, GotoFields
<1>5. /\ source' \in [bytes : 0 .. MaxEdits, head : {"base", "child", "stray"}] /\ codex' \in {"running", "stopped"}
      /\ bundle' \in {"absent", "partial", "whole"} /\ archive' \in 0 .. MaxEdits + 2 /\ row' \in Row
      /\ row.state = "FINISHED" => row'.state = "FINISHED"
  BY <1>1, <1>2, RecordsAssumption
<1>6. PlaceStands(agent)'
  BY <1>1, <1>4 DEF PlaceStands, Past, EarlyPCs
<1>7. RecordsStand(agent)'
  BY <1>1, <1>4 DEF RecordsStand, Past, Saved, EarlyPCs, PlaceStands
<1>8. SourceStands(agent)'
  BY <1>1, <1>2, <1>4 DEF SourceStands
<1>9. ResultStands(agent)'
  BY <1>1, <1>4 DEF ResultStands, Past, PlaceStands, EarlyPCs
<1>10. agent.pc \in FailPCs => agent'.pc \in FailPCs
  BY <1>1, <1>4 DEF FailPCs
<1>11. QED BY <1>1, <1>4, <1>5, <1>6, <1>7, <1>8, <1>9, <1>10, QuietMoves

(* Core may have finished the execution whatever the agent hears. *)
LEMMA ReportsStands ==
  ASSUME AgentInv, ReportResult
  PROVE  Owed
<1> USE DEF AgentInv
<1>1. /\ agent \in Agent /\ agent.pc = "report" /\ (agent' = Goto("phase") \/ agent' = Goto("retain"))
      /\ row' \in {row, [row EXCEPT !.state = IF @ = "AUTHORIZED" THEN "FINISHED" ELSE @]}
      /\ UNCHANGED <<records, failed, source, codex, bundle, archive>>
  BY DEF ReportResult, Disk, Failure, RecordsTypeOK
<1>2. /\ source \in [bytes : 0 .. MaxEdits, head : {"base", "child", "stray"}] /\ codex \in {"running", "stopped"}
      /\ bundle \in {"absent", "partial", "whole"} /\ archive \in 0 .. MaxEdits + 2 /\ row \in Row
  BY DEF RecordsTypeOK
<1>3. {"phase", "retain"} \subseteq AgentPCs
  BY DEF AgentPCs, EarlyPCs, PhasePCs, FailPCs
<1>4. /\ agent' \in Agent
      /\ agent'.pc \in {"phase", "retain"} /\ agent'.ok = agent.ok /\ agent'.sealed = agent.sealed
      /\ agent'.quiescent = agent.quiescent /\ agent'.phase = agent.phase
      /\ agent'.finalizing = agent.finalizing /\ agent'.expected = agent.expected
      /\ agent'.version = agent.version /\ agent'.retained = agent.retained
      /\ agent'.registered = agent.registered
  BY <1>1, <1>3, GotoFields
<1>5. /\ source' \in [bytes : 0 .. MaxEdits, head : {"base", "child", "stray"}] /\ codex' \in {"running", "stopped"}
      /\ bundle' \in {"absent", "partial", "whole"} /\ archive' \in 0 .. MaxEdits + 2 /\ row' \in Row
      /\ row.state = "FINISHED" => row'.state = "FINISHED"
  BY <1>1, <1>2, RecordsAssumption DEF Row
<1>6. PlaceStands(agent)'
  BY <1>1, <1>4 DEF PlaceStands, Past, EarlyPCs
<1>7. RecordsStand(agent)'
  BY <1>1, <1>4 DEF RecordsStand, Past, Saved, EarlyPCs, PlaceStands
<1>8. SourceStands(agent)'
  BY <1>1, <1>2, <1>4 DEF SourceStands, Row
<1>9. ResultStands(agent)'
  BY <1>1, <1>4 DEF ResultStands, Past, PlaceStands, EarlyPCs
<1>10. agent.pc \in FailPCs => agent'.pc \in FailPCs
  BY <1>1, <1>4 DEF FailPCs
<1>11. QED BY <1>1, <1>4, <1>5, <1>6, <1>7, <1>8, <1>9, <1>10, QuietMoves

(* The receipt is verified. *)
LEMMA ReceiptStands ==
  ASSUME AgentInv, VerifyReceipt
  PROVE  Owed
<1> USE DEF AgentInv
<1>1. /\ agent \in Agent /\ agent.pc = "verify" /\ agent' = Goto("delivered")
      /\ UNCHANGED <<records, failed, source, codex, bundle, archive, row>>
  BY DEF VerifyReceipt, Disk, Failure, RecordsTypeOK
<1>2. /\ source \in [bytes : 0 .. MaxEdits, head : {"base", "child", "stray"}] /\ codex \in {"running", "stopped"}
      /\ bundle \in {"absent", "partial", "whole"} /\ archive \in 0 .. MaxEdits + 2 /\ row \in Row
  BY DEF RecordsTypeOK
<1>3. {"delivered"} \subseteq AgentPCs
  BY DEF AgentPCs, EarlyPCs, PhasePCs, FailPCs
<1>4. /\ agent' \in Agent
      /\ agent'.pc = "delivered" /\ agent'.ok = agent.ok /\ agent'.sealed = agent.sealed
      /\ agent'.quiescent = agent.quiescent /\ agent'.phase = agent.phase
      /\ agent'.finalizing = agent.finalizing /\ agent'.expected = agent.expected
      /\ agent'.version = agent.version /\ agent'.retained = agent.retained
      /\ agent'.registered = agent.registered
  BY <1>1, <1>3, GotoFields
<1>5. /\ source' \in [bytes : 0 .. MaxEdits, head : {"base", "child", "stray"}] /\ codex' \in {"running", "stopped"}
      /\ bundle' \in {"absent", "partial", "whole"} /\ archive' \in 0 .. MaxEdits + 2 /\ row' \in Row
      /\ row.state = "FINISHED" => row'.state = "FINISHED"
  BY <1>1, <1>2, RecordsAssumption
<1>6. PlaceStands(agent)'
  BY <1>1, <1>4 DEF PlaceStands, Past, EarlyPCs
<1>7. RecordsStand(agent)'
  BY <1>1, <1>4 DEF RecordsStand, Past, Saved, EarlyPCs, PlaceStands
<1>8. SourceStands(agent)'
  BY <1>1, <1>2, <1>4 DEF SourceStands
<1>9. ResultStands(agent)'
  BY <1>1, <1>4 DEF ResultStands, Past, PlaceStands, EarlyPCs
<1>10. agent.pc \in FailPCs => agent'.pc \in FailPCs
  BY <1>1, <1>4 DEF FailPCs
<1>11. QED BY <1>1, <1>4, <1>5, <1>6, <1>7, <1>8, <1>9, <1>10, QuietMoves

(* A step fails. *)
LEMMA StepFailStands ==
  ASSUME AgentInv, StepFails
  PROVE  Owed
<1> USE DEF AgentInv
<1>1. /\ agent \in Agent /\ agent.pc \in {"phase", "commit", "create", "renew", "report", "verify"}
      /\ (agent.pc = "phase" => agent.phase = 1) /\ agent' = Goto("retain")
      /\ UNCHANGED <<records, failed, source, codex, bundle, archive, row>>
  BY DEF StepFails, Disk, Failure, RecordsTypeOK
<1>2. /\ source \in [bytes : 0 .. MaxEdits, head : {"base", "child", "stray"}] /\ codex \in {"running", "stopped"}
      /\ bundle \in {"absent", "partial", "whole"} /\ archive \in 0 .. MaxEdits + 2 /\ row \in Row
  BY DEF RecordsTypeOK
<1>3. {"retain"} \subseteq AgentPCs
  BY DEF AgentPCs, EarlyPCs, PhasePCs, FailPCs
<1>4. /\ agent' \in Agent
      /\ agent'.pc = "retain" /\ agent'.ok = agent.ok /\ agent'.sealed = agent.sealed
      /\ agent'.quiescent = agent.quiescent /\ agent'.phase = agent.phase
      /\ agent'.finalizing = agent.finalizing /\ agent'.expected = agent.expected
      /\ agent'.version = agent.version /\ agent'.retained = agent.retained
      /\ agent'.registered = agent.registered
  BY <1>1, <1>3, GotoFields
<1>5. /\ source' \in [bytes : 0 .. MaxEdits, head : {"base", "child", "stray"}] /\ codex' \in {"running", "stopped"}
      /\ bundle' \in {"absent", "partial", "whole"} /\ archive' \in 0 .. MaxEdits + 2 /\ row' \in Row
      /\ row.state = "FINISHED" => row'.state = "FINISHED"
  BY <1>1, <1>2, RecordsAssumption
<1>6. PlaceStands(agent)'
  BY <1>1, <1>4 DEF PlaceStands, Past, EarlyPCs
<1>7. RecordsStand(agent)'
  BY <1>1, <1>4 DEF RecordsStand, Past, Saved, EarlyPCs, PlaceStands
<1>8. SourceStands(agent)'
  BY <1>1, <1>2, <1>4 DEF SourceStands
<1>9. ResultStands(agent)'
  BY <1>1, <1>4 DEF ResultStands, Past, PlaceStands, EarlyPCs
<1>10. agent.pc \in FailPCs => agent'.pc \in FailPCs
  BY <1>1, <1>4 DEF FailPCs
<1>11. QED BY <1>1, <1>4, <1>5, <1>6, <1>7, <1>8, <1>9, <1>10, QuietMoves

(* The source is looked at only when its process has stopped. *)
LEMMA PathsStands ==
  ASSUME AgentInv, RetainPaths
  PROVE  Owed
<1> USE DEF AgentInv
<1>1. /\ agent \in Agent /\ agent.pc = "retain"
      /\ (agent' = Goto("graph") /\ agent.quiescent) \/ (agent' = Goto("failure") /\ agent.phase > 0) \/ agent' = Goto("ended")
      /\ UNCHANGED <<records, failed, source, codex, bundle, archive, row>>
  BY DEF RetainPaths, Retainable, AfterRetain, Disk, Failure, RecordsTypeOK
<1>2. /\ source \in [bytes : 0 .. MaxEdits, head : {"base", "child", "stray"}] /\ codex \in {"running", "stopped"}
      /\ bundle \in {"absent", "partial", "whole"} /\ archive \in 0 .. MaxEdits + 2 /\ row \in Row
  BY DEF RecordsTypeOK
<1>3. {"graph", "failure", "ended"} \subseteq AgentPCs
  BY DEF AgentPCs, EarlyPCs, PhasePCs, FailPCs
<1>4. /\ agent' \in Agent
      /\ agent'.pc \in {"graph", "failure", "ended"} /\ (agent'.pc = "graph" => agent.quiescent) /\ (agent'.pc = "failure" => agent.phase > 0)
      /\ agent'.ok = agent.ok /\ agent'.sealed = agent.sealed /\ agent'.quiescent = agent.quiescent
      /\ agent'.phase = agent.phase /\ agent'.finalizing = agent.finalizing /\ agent'.expected = agent.expected
      /\ agent'.version = agent.version /\ agent'.retained = agent.retained
      /\ agent'.registered = agent.registered
  BY <1>1, <1>3, GotoFields
<1>5. /\ source' \in [bytes : 0 .. MaxEdits, head : {"base", "child", "stray"}] /\ codex' \in {"running", "stopped"}
      /\ bundle' \in {"absent", "partial", "whole"} /\ archive' \in 0 .. MaxEdits + 2 /\ row' \in Row
      /\ row.state = "FINISHED" => row'.state = "FINISHED"
  BY <1>1, <1>2, RecordsAssumption
<1>6. PlaceStands(agent)'
  BY <1>1, <1>4 DEF PlaceStands, Past, EarlyPCs
<1>7. RecordsStand(agent)'
  BY <1>1, <1>4 DEF RecordsStand, Past, Saved, EarlyPCs, PlaceStands
<1>8. SourceStands(agent)'
  BY <1>1, <1>2, <1>4 DEF SourceStands
<1>9. ResultStands(agent)'
  BY <1>1, <1>4 DEF ResultStands, Past, PlaceStands, EarlyPCs
<1>10. agent.pc \in FailPCs => agent'.pc \in FailPCs
  BY <1>1, <1>4 DEF FailPCs
<1>11. QED BY <1>1, <1>4, <1>5, <1>6, <1>7, <1>8, <1>9, <1>10, QuietMoves

(* The head is the base or one commit after it. *)
LEMMA GraphStands ==
  ASSUME AgentInv, RetainPreservationBundle
  PROVE  Owed
<1> USE DEF AgentInv
<1>1. /\ agent \in Agent /\ agent.pc = "graph"
      /\ (agent' = Goto("capture") /\ source.head # "stray") \/ (agent' = Goto("failure") /\ agent.phase > 0) \/ agent' = Goto("ended")
      /\ UNCHANGED <<records, failed, source, codex, bundle, archive, row>>
  BY DEF RetainPreservationBundle, checkpointPaths, PreservationHead, AfterRetain, Disk, Failure, RecordsTypeOK
<1>2. /\ source \in [bytes : 0 .. MaxEdits, head : {"base", "child", "stray"}] /\ codex \in {"running", "stopped"}
      /\ bundle \in {"absent", "partial", "whole"} /\ archive \in 0 .. MaxEdits + 2 /\ row \in Row
  BY DEF RecordsTypeOK
<1>3. {"capture", "failure", "ended"} \subseteq AgentPCs
  BY DEF AgentPCs, EarlyPCs, PhasePCs, FailPCs
<1>4. /\ agent' \in Agent
      /\ agent'.pc \in {"capture", "failure", "ended"} /\ (agent'.pc = "capture" => source.head # "stray") /\ (agent'.pc = "failure" => agent.phase > 0)
      /\ agent'.ok = agent.ok /\ agent'.sealed = agent.sealed /\ agent'.quiescent = agent.quiescent
      /\ agent'.phase = agent.phase /\ agent'.finalizing = agent.finalizing /\ agent'.expected = agent.expected
      /\ agent'.version = agent.version /\ agent'.retained = agent.retained
      /\ agent'.registered = agent.registered
  BY <1>1, <1>3, GotoFields
<1>5. /\ source' \in [bytes : 0 .. MaxEdits, head : {"base", "child", "stray"}] /\ codex' \in {"running", "stopped"}
      /\ bundle' \in {"absent", "partial", "whole"} /\ archive' \in 0 .. MaxEdits + 2 /\ row' \in Row
      /\ row.state = "FINISHED" => row'.state = "FINISHED"
  BY <1>1, <1>2, RecordsAssumption
<1>6. PlaceStands(agent)'
  BY <1>1, <1>4 DEF PlaceStands, Past, EarlyPCs
<1>7. RecordsStand(agent)'
  BY <1>1, <1>4 DEF RecordsStand, Past, Saved, EarlyPCs, PlaceStands
<1>8. SourceStands(agent)'
  BY <1>1, <1>2, <1>4 DEF SourceStands
<1>9. ResultStands(agent)'
  BY <1>1, <1>4 DEF ResultStands, Past, PlaceStands, EarlyPCs
<1>10. agent.pc \in FailPCs => agent'.pc \in FailPCs
  BY <1>1, <1>4 DEF FailPCs
<1>11. QED BY <1>1, <1>4, <1>5, <1>6, <1>7, <1>8, <1>9, <1>10, QuietMoves

(* The archive is created and the source listed. *)
LEMMA CaptureStands ==
  ASSUME AgentInv, CaptureCreate
  PROVE  Owed
<1> USE DEF AgentInv
<1>1. /\ agent \in Agent /\ agent.pc = "capture" /\ archive' = MaxEdits + 2
      /\ agent' = [agent EXCEPT !.pc = "captured", !.version = source.bytes]
      /\ UNCHANGED <<records, failed, source, codex, bundle, row>>
  BY DEF CaptureCreate, collect, Partial, Disk, Failure, RecordsTypeOK
<1>2. /\ source \in [bytes : 0 .. MaxEdits, head : {"base", "child", "stray"}] /\ codex \in {"running", "stopped"}
      /\ bundle \in {"absent", "partial", "whole"} /\ archive \in 0 .. MaxEdits + 2 /\ row \in Row
  BY DEF RecordsTypeOK
<1>3. {"captured"} \subseteq AgentPCs
  BY DEF AgentPCs, EarlyPCs, PhasePCs, FailPCs
<1>4. /\ agent' \in Agent
      /\ agent'.pc = "captured" /\ agent'.version = source.bytes /\ agent'.ok = agent.ok
      /\ agent'.sealed = agent.sealed /\ agent'.quiescent = agent.quiescent /\ agent'.phase = agent.phase
      /\ agent'.finalizing = agent.finalizing /\ agent'.expected = agent.expected
      /\ agent'.retained = agent.retained /\ agent'.registered = agent.registered
  BY <1>1, <1>2, <1>3 DEF Agent
<1>5. /\ source' \in [bytes : 0 .. MaxEdits, head : {"base", "child", "stray"}] /\ codex' \in {"running", "stopped"}
      /\ bundle' \in {"absent", "partial", "whole"} /\ archive' \in 0 .. MaxEdits + 2 /\ row' \in Row
      /\ row.state = "FINISHED" => row'.state = "FINISHED"
  BY <1>1, <1>2, RecordsAssumption
<1>6. PlaceStands(agent)'
  BY <1>1, <1>4 DEF PlaceStands, Past, EarlyPCs
<1>7. RecordsStand(agent)'
  BY <1>1, <1>4 DEF RecordsStand, Past, Saved, EarlyPCs, PlaceStands
<1>8. SourceStands(agent)'
  BY <1>1, <1>2, <1>4 DEF SourceStands
<1>9. ResultStands(agent)'
  BY <1>1, <1>4 DEF ResultStands, Past, PlaceStands, EarlyPCs
<1>10. agent.pc \in FailPCs => agent'.pc \in FailPCs
  BY <1>1, <1>4 DEF FailPCs
<1>11. QED BY <1>1, <1>4, <1>5, <1>6, <1>7, <1>8, <1>9, <1>10, QuietMoves

(* The archive has the bytes of the source. *)
LEMMA CapturedStands ==
  ASSUME AgentInv, CaptureVerify
  PROVE  Owed
<1> USE DEF AgentInv
<1>1. /\ agent \in Agent /\ agent.pc = "captured"
      /\ \/ archive' = agent.version /\ agent' = [agent EXCEPT !.pc = "record", !.retained = TRUE]
         \/ archive' = archive /\ ((agent' = Goto("failure") /\ agent.phase > 0) \/ agent' = Goto("ended"))
      /\ UNCHANGED <<records, failed, source, codex, bundle, row>>
  BY DEF CaptureVerify, collect, AfterRetain, Disk, Failure, RecordsTypeOK
<1>2. /\ source \in [bytes : 0 .. MaxEdits, head : {"base", "child", "stray"}] /\ codex \in {"running", "stopped"}
      /\ bundle \in {"absent", "partial", "whole"} /\ archive \in 0 .. MaxEdits + 2 /\ row \in Row
  BY DEF RecordsTypeOK
<1>3. {"record", "failure", "ended"} \subseteq AgentPCs
  BY DEF AgentPCs, EarlyPCs, PhasePCs, FailPCs
<1>4. /\ agent' \in Agent
      /\ agent'.pc \in {"record", "failure", "ended"} /\ (agent'.pc = "failure" => agent.phase > 0)
      /\ (agent'.pc = "record" => archive' = agent.version /\ agent'.retained)
      /\ (agent'.pc # "record" => archive' = archive /\ agent'.retained = agent.retained)
      /\ agent'.ok = agent.ok /\ agent'.sealed = agent.sealed /\ agent'.quiescent = agent.quiescent
      /\ agent'.phase = agent.phase /\ agent'.finalizing = agent.finalizing /\ agent'.expected = agent.expected
      /\ agent'.version = agent.version /\ agent'.registered = agent.registered
  <2>1. CASE archive' = agent.version /\ agent' = [agent EXCEPT !.pc = "record", !.retained = TRUE]
    BY <1>1, <1>3, <2>1 DEF Agent
  <2>2. CASE archive' = archive /\ agent' = Goto("failure") /\ agent.phase > 0
    BY <1>1, <1>3, <2>2, GotoFields
  <2>3. CASE archive' = archive /\ agent' = Goto("ended")
    BY <1>1, <1>3, <2>3, GotoFields
  <2>4. QED BY <1>1, <2>1, <2>2, <2>3
<1>5. /\ source' \in [bytes : 0 .. MaxEdits, head : {"base", "child", "stray"}] /\ codex' \in {"running", "stopped"}
      /\ bundle' \in {"absent", "partial", "whole"} /\ archive' \in 0 .. MaxEdits + 2 /\ row' \in Row
      /\ row.state = "FINISHED" => row'.state = "FINISHED"
  BY <1>1, <1>2, RecordsAssumption DEF Agent
<1>6. PlaceStands(agent)'
  BY <1>1, <1>4 DEF PlaceStands, Past, EarlyPCs
<1>7. RecordsStand(agent)'
  BY <1>1, <1>4 DEF RecordsStand, Past, Saved, EarlyPCs, PlaceStands
<1>8. SourceStands(agent)'
  BY <1>1, <1>2, <1>4 DEF SourceStands
<1>9. ResultStands(agent)'
  BY <1>1, <1>4 DEF ResultStands, Past, PlaceStands, EarlyPCs
<1>10. agent.pc \in FailPCs => agent'.pc \in FailPCs
  BY <1>1, <1>4 DEF FailPCs
<1>11. QED BY <1>1, <1>4, <1>5, <1>6, <1>7, <1>8, <1>9, <1>10, QuietMoves

(* Core keeps the descriptor of the archive, heard or not. *)
LEMMA RegisterStands ==
  ASSUME AgentInv, RegisterCheckpoint
  PROVE  Owed
<1> USE DEF AgentInv
<1>1. /\ agent \in Agent /\ agent.pc = "register" /\ row' \in {row, [row EXCEPT !.checkpoint = archive]}
      /\ \E heard \in BOOLEAN : agent' = [agent EXCEPT !.pc = IF agent.phase > 0 THEN "failure" ELSE "ended", !.registered = heard]
      /\ UNCHANGED <<records, failed, source, codex, bundle, archive>>
  BY DEF RegisterCheckpoint, AfterRetain, Disk, Failure, RecordsTypeOK
<1>2. /\ source \in [bytes : 0 .. MaxEdits, head : {"base", "child", "stray"}] /\ codex \in {"running", "stopped"}
      /\ bundle \in {"absent", "partial", "whole"} /\ archive \in 0 .. MaxEdits + 2 /\ row \in Row
  BY DEF RecordsTypeOK
<1>3. {"failure", "ended"} \subseteq AgentPCs
  BY DEF AgentPCs, EarlyPCs, PhasePCs, FailPCs
<1>4. /\ agent' \in Agent
      /\ agent'.pc \in {"failure", "ended"} /\ (agent'.pc = "failure" => agent.phase > 0)
      /\ agent'.ok = agent.ok /\ agent'.sealed = agent.sealed /\ agent'.quiescent = agent.quiescent
      /\ agent'.phase = agent.phase /\ agent'.finalizing = agent.finalizing /\ agent'.expected = agent.expected
      /\ agent'.version = agent.version /\ agent'.retained = agent.retained
  <2>1. PICK heard \in BOOLEAN : agent' = [agent EXCEPT !.pc = IF agent.phase > 0 THEN "failure" ELSE "ended", !.registered = heard]
    BY <1>1
  <2>2. QED BY <1>1, <1>3, <2>1 DEF Agent
<1>5. /\ source' \in [bytes : 0 .. MaxEdits, head : {"base", "child", "stray"}] /\ codex' \in {"running", "stopped"}
      /\ bundle' \in {"absent", "partial", "whole"} /\ archive' \in 0 .. MaxEdits + 2 /\ row' \in Row
      /\ row.state = "FINISHED" => row'.state = "FINISHED"
  BY <1>1, <1>2, RecordsAssumption DEF Row
<1>6. PlaceStands(agent)'
  BY <1>1, <1>4 DEF PlaceStands, Past, EarlyPCs
<1>7. RecordsStand(agent)'
  BY <1>1, <1>4 DEF RecordsStand, Past, Saved, EarlyPCs, PlaceStands
<1>8. SourceStands(agent)'
  <2>1. row'.checkpoint \in {row.checkpoint, archive}
    BY <1>1, <1>2 DEF Row
  <2>2. /\ agent.pc = "register" /\ UNCHANGED <<records, failed, source, codex, archive>> /\ SourceStands(agent)
    BY <1>1
  <2>3. QED BY <1>4, <2>1, <2>2 DEF SourceStands
<1>9. ResultStands(agent)'
  <2>1. row'.state = row.state
    BY <1>1, <1>2 DEF Row
  <2>2. agent.pc = "register" /\ UNCHANGED bundle /\ ResultStands(agent)
    BY <1>1
  <2>3. QED BY <1>4, <2>1, <2>2 DEF ResultStands, Past
<1>10. agent.pc \in FailPCs => agent'.pc \in FailPCs
  BY <1>1, <1>4 DEF FailPCs
<1>11. QED BY <1>1, <1>4, <1>5, <1>6, <1>7, <1>8, <1>9, <1>10, QuietMoves

(* The agent dies. *)
LEMMA DeathStands ==
  ASSUME AgentInv, AgentDies
  PROVE  Owed
<1> USE DEF AgentInv
<1>1. /\ agent \in Agent /\ agent.pc # "ended" /\ agent' = Goto("ended")
      /\ UNCHANGED <<records, failed, source, codex, bundle, archive, row>>
  BY DEF AgentDies, Disk, Failure, RecordsTypeOK
<1>2. /\ source \in [bytes : 0 .. MaxEdits, head : {"base", "child", "stray"}] /\ codex \in {"running", "stopped"}
      /\ bundle \in {"absent", "partial", "whole"} /\ archive \in 0 .. MaxEdits + 2 /\ row \in Row
  BY DEF RecordsTypeOK
<1>3. {"ended"} \subseteq AgentPCs
  BY DEF AgentPCs, EarlyPCs, PhasePCs, FailPCs
<1>4. /\ agent' \in Agent
      /\ agent'.pc = "ended" /\ agent'.ok = agent.ok /\ agent'.sealed = agent.sealed
      /\ agent'.quiescent = agent.quiescent /\ agent'.phase = agent.phase
      /\ agent'.finalizing = agent.finalizing /\ agent'.expected = agent.expected
      /\ agent'.version = agent.version /\ agent'.retained = agent.retained
      /\ agent'.registered = agent.registered
  BY <1>1, <1>3, GotoFields
<1>5. /\ source' \in [bytes : 0 .. MaxEdits, head : {"base", "child", "stray"}] /\ codex' \in {"running", "stopped"}
      /\ bundle' \in {"absent", "partial", "whole"} /\ archive' \in 0 .. MaxEdits + 2 /\ row' \in Row
      /\ row.state = "FINISHED" => row'.state = "FINISHED"
  BY <1>1, <1>2, RecordsAssumption
<1>6. PlaceStands(agent)'
  BY <1>1, <1>4 DEF PlaceStands, Past, EarlyPCs
<1>7. RecordsStand(agent)'
  BY <1>1, <1>4 DEF RecordsStand, Past, Saved, EarlyPCs, PlaceStands
<1>8. SourceStands(agent)'
  BY <1>1, <1>2, <1>4 DEF SourceStands
<1>9. ResultStands(agent)'
  BY <1>1, <1>4 DEF ResultStands, Past, PlaceStands, EarlyPCs
<1>10. agent.pc \in FailPCs => agent'.pc \in FailPCs
  BY <1>1, <1>4 DEF FailPCs
<1>11. QED BY <1>1, <1>4, <1>5, <1>6, <1>7, <1>8, <1>9, <1>10, QuietMoves

(* The lease runs out in Core. *)
LEMMA ExpiryStands ==
  ASSUME AgentInv, RowExpires
  PROVE  Owed
<1> USE DEF AgentInv
<1>1. /\ agent \in Agent /\ row.state = "AUTHORIZED" /\ row' = [row EXCEPT !.state = "UNKNOWN"] /\ agent' = agent
      /\ UNCHANGED <<records, failed, source, codex, bundle, archive>>
  BY DEF RowExpires, Disk, Failure, RecordsTypeOK
<1>2. /\ source \in [bytes : 0 .. MaxEdits, head : {"base", "child", "stray"}] /\ codex \in {"running", "stopped"}
      /\ bundle \in {"absent", "partial", "whole"} /\ archive \in 0 .. MaxEdits + 2 /\ row \in Row
  BY DEF RecordsTypeOK
<1>3. {"ended"} \subseteq AgentPCs
  BY DEF AgentPCs, EarlyPCs, PhasePCs, FailPCs
<1>4. /\ agent' \in Agent
      /\ agent'.pc = agent.pc /\ agent'.ok = agent.ok /\ agent'.sealed = agent.sealed
      /\ agent'.quiescent = agent.quiescent /\ agent'.phase = agent.phase
      /\ agent'.finalizing = agent.finalizing /\ agent'.expected = agent.expected
      /\ agent'.version = agent.version /\ agent'.retained = agent.retained
      /\ agent'.registered = agent.registered
  BY <1>1
<1>5. /\ source' \in [bytes : 0 .. MaxEdits, head : {"base", "child", "stray"}] /\ codex' \in {"running", "stopped"}
      /\ bundle' \in {"absent", "partial", "whole"} /\ archive' \in 0 .. MaxEdits + 2 /\ row' \in Row
      /\ row.state = "FINISHED" => row'.state = "FINISHED"
  BY <1>1, <1>2, RecordsAssumption DEF Row
<1>6. PlaceStands(agent)'
  BY <1>1, <1>4 DEF PlaceStands, Past, EarlyPCs
<1>7. RecordsStand(agent)'
  BY <1>1, <1>4 DEF RecordsStand, Past, Saved, EarlyPCs, PlaceStands
<1>8. SourceStands(agent)'
  BY <1>1, <1>2, <1>4 DEF SourceStands, Row
<1>9. ResultStands(agent)'
  BY <1>1, <1>4 DEF ResultStands, Past, PlaceStands, EarlyPCs
<1>10. agent.pc \in FailPCs => agent'.pc \in FailPCs
  BY <1>1, <1>4 DEF FailPCs
<1>11. QED BY <1>1, <1>4, <1>5, <1>6, <1>7, <1>8, <1>9, <1>10, QuietMoves

(* The source changes only while its process may run. *)
LEMMA EditStands ==
  ASSUME AgentInv, Edit
  PROVE  Owed
<1> USE DEF AgentInv
<1>1. /\ agent \in Agent /\ agent' = agent /\ codex = "running" /\ source.bytes < MaxEdits
      /\ \E h \in {source.head, "child", "stray"} : source' = [bytes |-> source.bytes + 1, head |-> h]
      /\ UNCHANGED <<records, failed, codex, bundle, archive, row>>
  BY DEF Edit, Disk, Failure, RecordsTypeOK
<1>2. /\ source \in [bytes : 0 .. MaxEdits, head : {"base", "child", "stray"}] /\ codex \in {"running", "stopped"}
      /\ bundle \in {"absent", "partial", "whole"} /\ archive \in 0 .. MaxEdits + 2 /\ row \in Row
  BY DEF RecordsTypeOK
<1>3. {"ended"} \subseteq AgentPCs
  BY DEF AgentPCs, EarlyPCs, PhasePCs, FailPCs
<1>4. /\ agent' \in Agent
      /\ agent'.pc = agent.pc /\ agent'.ok = agent.ok /\ agent'.sealed = agent.sealed
      /\ agent'.quiescent = agent.quiescent /\ agent'.phase = agent.phase
      /\ agent'.finalizing = agent.finalizing /\ agent'.expected = agent.expected
      /\ agent'.version = agent.version /\ agent'.retained = agent.retained
      /\ agent'.registered = agent.registered
  BY <1>1
<1>5. /\ source' \in [bytes : 0 .. MaxEdits, head : {"base", "child", "stray"}] /\ codex' \in {"running", "stopped"}
      /\ bundle' \in {"absent", "partial", "whole"} /\ archive' \in 0 .. MaxEdits + 2 /\ row' \in Row
      /\ row.state = "FINISHED" => row'.state = "FINISHED"
  BY <1>1, <1>2, RecordsAssumption
<1>6. PlaceStands(agent)'
  BY <1>1, <1>4 DEF PlaceStands, Past, EarlyPCs
<1>7. RecordsStand(agent)'
  BY <1>1, <1>4 DEF RecordsStand, Past, Saved, EarlyPCs, PlaceStands
<1>8. SourceStands(agent)'
  BY <1>1, <1>2, <1>4 DEF SourceStands
<1>9. ResultStands(agent)'
  BY <1>1, <1>4 DEF ResultStands, Past, PlaceStands, EarlyPCs
<1>10. agent.pc \in FailPCs => agent'.pc \in FailPCs
  BY <1>1, <1>4 DEF FailPCs
<1>11. QED BY <1>1, <1>4, <1>5, <1>6, <1>7, <1>8, <1>9, <1>10, QuietMoves

-----------------------------------------------------------------------------
(* The reader. *)

(* Writes by the agent: what was read stays, and a difference stays one. *)
LEMMA ReaderKept ==
  ASSUME AgentInv, ReaderInv, WriteOnce, UNCHANGED reader, row.state = "FINISHED" => row'.state = "FINISHED"
  PROVE  ReaderInv'
<1>1. ASSUME NEW n \in Names PROVE reader.seen[n] \in {Absent, records'[n]} /\ (reader.seen[n] # records[n] => reader.seen[n] # records'[n])
  BY DEF ReaderInv, WriteOnce
<1>2. \A k \in DOMAIN ReadOrder : ReadOrder[k] \in Names
  BY DEF Names
<1>3. reader.pc = "check" /\ ~reader.snapshot => \E n \in Names : reader.seen[n] # records'[n]
  BY <1>1 DEF ReaderInv
<1>4. reader.pc = "recheck" /\ ~reader.snapshot => \E k \in DOMAIN ReadOrder : k > reader.at /\ reader.seen[ReadOrder[k]] # records'[ReadOrder[k]]
  BY <1>1, <1>2 DEF ReaderInv
<1>5. QED BY <1>1, <1>3, <1>4 DEF ReaderInv

(* A reader that begins or gives up has read nothing. *)
LEMMA IdleReaderStands ==
  ASSUME reader' = IdleReader
  PROVE  ReaderInv'
<1>1. PICK i : i = IdleReader
  OBVIOUS
<1>2. /\ i \in Reader /\ i.pc = "idle" /\ i.at = 0 /\ i.core = "none" /\ \A n \in Names : i.seen[n] = Absent
  BY <1>1, AbsentFacts, ReaderType DEF IdleReader
<1>3. QED BY <1>1, <1>2 DEF ReaderInv

(* One more record is read. *)
LEMMA ReadStands ==
  ASSUME AgentInv, ReaderInv, InspectRead
  PROVE  ReaderInv'
<1>1. PICK r \in Reader : r = reader
  BY DEF ReaderInv
<1>2. r.pc = "read" /\ UNCHANGED <<records, row>> /\ r.at \in 0 .. 12 /\ r.seen \in [Names -> Record]
  BY <1>1, OrderFacts DEF InspectRead, ReaderInv, Disk, Reader
<1>3. records \in [Names -> Record] /\ failed.phase \in 0 .. 6
  BY DEF AgentInv, RecordsTypeOK
<1>4. PICK k \in 1 .. 13 : k = r.at + 1
  BY <1>2
<1>5. PICK n \in Names : n = ReadOrder[k]
  BY OrderFacts DEF Names
<1>6. PICK seen : seen = [r.seen EXCEPT ![n] = records[n]]
  OBVIOUS
<1>7. seen \in [Names -> Record] /\ \A m \in Names : seen[m] \in {Absent, records[m]}
  BY <1>1, <1>2, <1>3, <1>6 DEF ReaderInv
<1>8. PICK f, pc, snap : /\ f = (IF n = "failure" THEN failed.phase ELSE r.failed)
                         /\ pc = (IF k = 13 THEN "check" ELSE "read") /\ snap = (k = 13 /\ seen = records)
  OBVIOUS
<1>9. reader' = IdleReader \/ reader' = [r EXCEPT !.at = k, !.seen = seen, !.failed = f, !.pc = pc, !.snapshot = snap]
  BY <1>1, <1>4, <1>5, <1>6, <1>8, OrderFacts DEF InspectRead, readbackFile
<1>10. CASE reader' = [r EXCEPT !.at = k, !.seen = seen, !.failed = f, !.pc = pc, !.snapshot = snap]
  <2>1. f \in 0 .. 6 /\ pc \in {"check", "read"} /\ snap \in BOOLEAN
    BY <1>1, <1>3, <1>8 DEF Reader
  <2>2. PICK q : q = [r EXCEPT !.at = k, !.seen = seen, !.failed = f, !.pc = pc, !.snapshot = snap]
    OBVIOUS
  <2>3. q \in Reader /\ q.at = k /\ q.seen = seen /\ q.pc = pc /\ q.snapshot = snap /\ q.core = r.core
    <3>1. PICK S : S = [Names -> Record]
      OBVIOUS
    <3>2. PICK T : T = [pc : {"idle", "read", "check", "recheck", "accepted"}, at : 0 .. 13, seen : S, failed : 0 .. 6,
                        snapshot : BOOLEAN, core : {"none", "AUTHORIZED", "FINISHED", "UNKNOWN"}]
      OBVIOUS
    <3>3. r \in T /\ seen \in S /\ T = Reader
      BY <1>7, <3>1, <3>2, ReaderType
    <3>4. q \in T /\ q.at = k /\ q.seen = seen /\ q.pc = pc /\ q.snapshot = snap /\ q.core = r.core
      <4>1. k \in 0 .. 13 /\ pc \in {"idle", "read", "check", "recheck", "accepted"}
        BY <2>1
      <4>2. PICK b \in BOOLEAN : b = snap
        BY <2>1
      <4>3. q = [r EXCEPT !.at = k, !.seen = seen, !.failed = f, !.pc = pc, !.snapshot = b]
        BY <2>2, <4>2
      <4>4. q \in T
        BY <2>1, <3>2, <3>3, <4>1, <4>3
      <4>5. q.at = k /\ q.seen = seen /\ q.pc = pc /\ q.snapshot = b /\ q.core = r.core
        BY <3>2, <3>3, <4>3
      <4>6. QED BY <4>2, <4>4, <4>5
    <3>5. QED BY <3>3, <3>4
  <2>4. pc = "check" /\ ~snap => \E m \in Names : seen[m] # records[m]
    <3>1. seen # records => \E m \in Names : seen[m] # records[m]
      BY <1>3, <1>7
    <3>2. QED BY <1>8, <3>1
  <2>5. pc = "read" => k < 13
    BY <1>8
  <2>6. r.core = "FINISHED" => row.state = "FINISHED"
    BY <1>1 DEF ReaderInv
  <2>7. QED BY <1>2, <1>7, <1>10, <2>1, <2>2, <2>3, <2>4, <2>5, <2>6, OrderFacts DEF ReaderInv
<1>11. QED BY <1>9, <1>10, IdleReaderStands

(* Every name is compared again before the records are accepted. *)
LEMMA RecheckStands ==
  ASSUME AgentInv, ReaderInv, InspectCheck \/ InspectRecheck
  PROVE  ReaderInv'
<1>1. PICK r \in Reader : r = reader
  BY DEF ReaderInv
<1>2. UNCHANGED <<records, row>> /\ r.at \in 0 .. 13 /\ r.seen \in [Names -> Record] /\ records \in [Names -> Record]
      /\ (r.core = "FINISHED" => row.state = "FINISHED") /\ \A n \in Names : r.seen[n] \in {Absent, records[n]}
  BY <1>1, OrderFacts DEF InspectCheck, InspectRecheck, ReaderInv, Disk, Reader, AgentInv, RecordsTypeOK
<1>3. CASE InspectCheck
  <2>1. r.pc = "check" /\ (reader' = IdleReader \/ reader' = [r EXCEPT !.pc = "recheck", !.at = 0])
    BY <1>1, <1>3 DEF InspectCheck
  <2>2. CASE reader' = [r EXCEPT !.pc = "recheck", !.at = 0]
    <3>1. PICK q : q = [r EXCEPT !.pc = "recheck", !.at = 0]
      OBVIOUS
    <3>2. q \in Reader /\ q.at = 0 /\ q.seen = r.seen /\ q.pc = "recheck" /\ q.snapshot = r.snapshot
    /\ q.core = r.core
      <4>1. PICK S : S = [Names -> Record]
        OBVIOUS
      <4>2. PICK T : T = [pc : ReaderPCs, at : 0 .. 13, seen : S, failed : 0 .. 6,
                          snapshot : BOOLEAN, core : {"none", "AUTHORIZED", "FINISHED", "UNKNOWN"}]
        OBVIOUS
      <4>3. r \in T /\ T = Reader
        BY <4>1, <4>2, ReaderType DEF ReaderPCs
      <4>4. "recheck" \in ReaderPCs
        BY DEF ReaderPCs
      <4>5. 0 \in 0 .. 13
        OBVIOUS
      <4>6. q \in T /\ q.at = 0 /\ q.seen = r.seen /\ q.pc = "recheck" /\ q.snapshot = r.snapshot /\ q.core = r.core
        BY <3>1, <4>2, <4>3, <4>4, <4>5
      <4>7. QED BY <4>3, <4>6
    <3>3. ~r.snapshot => \E k \in DOMAIN ReadOrder : k > 0 /\ r.seen[ReadOrder[k]] # records[ReadOrder[k]]
      <4>1. SUFFICES ASSUME ~r.snapshot PROVE \E k \in DOMAIN ReadOrder : k > 0 /\ r.seen[ReadOrder[k]] # records[ReadOrder[k]]
        OBVIOUS
      <4>2. PICK n \in Names : r.seen[n] # records[n]
        BY <1>1, <2>1, <4>1 DEF ReaderInv
      <4>3. PICK k \in DOMAIN ReadOrder : n = ReadOrder[k]
        BY DEF Names
      <4>4. k > 0
        BY <4>3, OrderFacts
      <4>5. QED BY <4>2, <4>3, <4>4
    <3>4. QED BY <1>2, <2>2, <3>1, <3>2, <3>3, OrderFacts DEF ReaderInv
  <2>3. QED BY <2>1, <2>2, IdleReaderStands
<1>4. CASE InspectRecheck
  <2>1. r.pc = "recheck" /\ r.at \in 0 .. 12
    BY <1>1, <1>2, <1>4, OrderFacts DEF InspectRecheck, ReaderInv
  <2>2. PICK k \in 1 .. 13 : k = r.at + 1
    BY <2>1
  <2>3. \/ reader' = IdleReader
        \/ /\ records[ReadOrder[k]] = r.seen[ReadOrder[k]]
           /\ reader' = [r EXCEPT !.at = k, !.pc = IF k = 13 THEN "accepted" ELSE "recheck"]
    BY <1>1, <1>4, <2>2, OrderFacts DEF InspectRecheck, SameRecord, readbackFile
  <2>4. CASE /\ records[ReadOrder[k]] = r.seen[ReadOrder[k]]
             /\ reader' = [r EXCEPT !.at = k, !.pc = IF k = 13 THEN "accepted" ELSE "recheck"]
    <3>1. PICK q : q = [r EXCEPT !.at = k, !.pc = IF k = 13 THEN "accepted" ELSE "recheck"]
      OBVIOUS
    <3>2. /\ q \in Reader /\ q.at = k /\ q.seen = r.seen /\ q.pc = (IF k = 13 THEN "accepted" ELSE "recheck")
          /\ q.snapshot = r.snapshot /\ q.core = r.core
      <4>1. PICK S : S = [Names -> Record]
        OBVIOUS
      <4>2. PICK T : T = [pc : ReaderPCs, at : 0 .. 13, seen : S, failed : 0 .. 6,
                          snapshot : BOOLEAN, core : {"none", "AUTHORIZED", "FINISHED", "UNKNOWN"}]
        OBVIOUS
      <4>3. r \in T /\ T = Reader
        BY <4>1, <4>2, ReaderType DEF ReaderPCs
      <4>4. PICK pc \in ReaderPCs : pc = (IF k = 13 THEN "accepted" ELSE "recheck")
        BY DEF ReaderPCs
      <4>5. q = [r EXCEPT !.at = k, !.pc = pc]
        BY <3>1, <4>4
      <4>6. k \in 0 .. 13
        OBVIOUS
      <4>7. q \in T /\ q.at = k /\ q.seen = r.seen /\ q.pc = pc /\ q.snapshot = r.snapshot /\ q.core = r.core
        BY <4>2, <4>3, <4>5, <4>6
      <4>8. QED BY <4>3, <4>4, <4>7
    <3>3. ~r.snapshot => \E j \in DOMAIN ReadOrder : j > k /\ r.seen[ReadOrder[j]] # records[ReadOrder[j]]
      <4>1. SUFFICES ASSUME ~r.snapshot PROVE \E j \in DOMAIN ReadOrder : j > k /\ r.seen[ReadOrder[j]] # records[ReadOrder[j]]
        OBVIOUS
      <4>2. PICK j \in DOMAIN ReadOrder : j > r.at /\ r.seen[ReadOrder[j]] # records[ReadOrder[j]]
        BY <1>1, <2>1, <4>1 DEF ReaderInv
      <4>3. j \in 1 .. 13 /\ j # k
        BY <2>4, <4>2, OrderFacts
      <4>4. j > k
        BY <2>1, <2>2, <4>2, <4>3
      <4>5. QED BY <4>2, <4>4
    <3>4. k = 13 => r.snapshot
      BY <3>3, OrderFacts
    <3>5. QED BY <1>2, <2>4, <3>1, <3>2, <3>3, <3>4, OrderFacts DEF ReaderInv
  <2>5. QED BY <2>3, <2>4, IdleReaderStands
<1>5. QED BY <1>3, <1>4

(* The reader begins, asks Core and ends. *)
LEMMA ObserveStands ==
  ASSUME AgentInv, ReaderInv, InspectBegin \/ ObservePostTurnCore \/ InspectEnds
  PROVE  ReaderInv'
<1>1. PICK r \in Reader : r = reader
  BY DEF ReaderInv
<1>2. CASE InspectBegin
  <2>1. PICK i : i = IdleReader
    OBVIOUS
  <2>2. PICK q : q = [i EXCEPT !.pc = "read"]
    OBVIOUS
  <2>3. /\ q \in Reader /\ q.pc = "read" /\ q.at = 0 /\ q.core = "none" /\ \A n \in Names : q.seen[n] = Absent
    <3>1. i \in Reader /\ i.at = 0 /\ i.core = "none" /\ \A n \in Names : i.seen[n] = Absent
      BY <2>1, AbsentFacts, ReaderType DEF IdleReader
    <3>2. QED BY <2>2, <3>1, ReaderType
  <2>4. reader' = q
    BY <1>2, <2>1, <2>2 DEF InspectBegin
  <2>5. QED BY <2>3, <2>4, OrderFacts DEF ReaderInv
<1>3. CASE ObservePostTurnCore
  <2>1. r.pc = "accepted" /\ UNCHANGED <<records, row>> /\ (reader' = IdleReader \/ reader' = [r EXCEPT !.core = row.state])
    BY <1>1, <1>3 DEF ObservePostTurnCore, Disk
  <2>2. CASE reader' = [r EXCEPT !.core = row.state]
    <3>1. PICK q : q = [r EXCEPT !.core = row.state]
      OBVIOUS
    <3>2. row.state \in {"AUTHORIZED", "FINISHED", "UNKNOWN"}
      BY DEF AgentInv, RecordsTypeOK, Row
    <3>3. q \in Reader /\ q.pc = r.pc /\ q.seen = r.seen /\ q.snapshot = r.snapshot /\ q.core = row.state
      BY <3>1, <3>2, ReaderType
    <3>4. r.snapshot /\ \A n \in Names : r.seen[n] \in {Absent, records[n]}
      BY <1>1, <2>1 DEF ReaderInv
    <3>5. QED BY <2>1, <2>2, <3>1, <3>3, <3>4 DEF ReaderInv
  <2>3. QED BY <2>1, <2>2, IdleReaderStands
<1>4. CASE InspectEnds
  BY <1>4, IdleReaderStands DEF InspectEnds
<1>5. QED BY <1>2, <1>3, <1>4

(* A step of the reader changes nothing of the agent's. *)
LEMMA NothingWritten ==
  ASSUME AgentInv, UNCHANGED <<records, failed, source, codex, bundle, archive, agent, row>>
  PROVE  AgentInv'
<1> USE DEF AgentInv
<1>1. RecordsTypeOK'
  BY DEF RecordsTypeOK
<1>2. PlaceStands(agent)' /\ PhasesStand(agent)'
  BY DEF PlaceStands, PhasesStand, Past, Saved
<1>3. RecordsStand(agent)'
  BY DEF RecordsStand, Past, Saved
<1>4. SourceStands(agent)' /\ ResultStands(agent)'
  BY DEF SourceStands, ResultStands, Past
<1>5. QED BY <1>1, <1>2, <1>3, <1>4

-----------------------------------------------------------------------------
(* Every step of the agent keeps what it owes. *)
AgentStep ==
  \/ SavePermit \/ Edit \/ RetainHistory
  \/ \E c, q, s, a \in BOOLEAN : RunCodexTurn(c, q, s, a)
  \/ SaveControl \/ phaseStart \/ SaveTurn \/ FinalizeCommit \/ FinalizeCreate \/ FinalizeCheck \/ SaveResult
  \/ ReportRenew \/ ReportResult \/ VerifyReceipt \/ StepFails
  \/ RetainPaths \/ RetainPreservationBundle \/ CaptureCreate \/ CaptureVerify \/ SaveCheckpoint \/ RegisterCheckpoint \/ SaveFailure
  \/ AgentDies \/ RowExpires

(* The agent leaves the reader alone. *)
LEMMA AgentNeverReads ==
  ASSUME AgentStep
  PROVE  UNCHANGED reader
BY DEF AgentStep, Unread, SavePermit, Edit, RetainHistory, RunCodexTurn, SaveControl, phaseStart, SaveTurn,
   FinalizeCommit,
       FinalizeCreate, FinalizeCheck, SaveResult, ReportRenew, ReportResult, VerifyReceipt, StepFails, RetainPaths,
       RetainPreservationBundle, CaptureCreate, CaptureVerify, SaveCheckpoint, RegisterCheckpoint, SaveFailure, AgentDies, RowExpires

(* A step of the agent. *)
LEMMA AgentStands ==
  ASSUME AgentInv, AgentStep
  PROVE  Owed
<1>1. CASE \E c, q, s, a \in BOOLEAN : RunCodexTurn(c, q, s, a)
  <2>1. PICK c \in BOOLEAN, q \in BOOLEAN, s \in BOOLEAN, a \in BOOLEAN : RunCodexTurn(c, q, s, a)
    BY <1>1
  <2>2. QED BY <2>1, TurnEndStands
<1>2. CASE SavePermit \/ Edit \/ RetainHistory \/ SaveControl \/ phaseStart \/ SaveTurn \/ SaveResult \/ SaveCheckpoint \/ SaveFailure
  BY <1>2, PermitStands, EditStands, HistoryStands, ControlStands, PhaseStartStands, TurnStands, ResultSaveStands,
     CheckpointStands, FailureStands
<1>3. CASE FinalizeCommit \/ FinalizeCreate \/ FinalizeCheck \/ ReportRenew \/ ReportResult \/ VerifyReceipt \/ StepFails
  BY <1>3, CommitStands, CreateStands, CheckStands, RenewStands, ReportsStands, ReceiptStands, StepFailStands
<1>4. CASE \/ RetainPaths \/ RetainPreservationBundle \/ CaptureCreate \/ CaptureVerify \/ RegisterCheckpoint
           \/ AgentDies \/ RowExpires
  BY <1>4, PathsStands, GraphStands, CaptureStands, CapturedStands, RegisterStands, DeathStands, ExpiryStands
<1>5. QED BY <1>1, <1>2, <1>3, <1>4 DEF AgentStep

(* Every step of the agent and of the reader. *)
LEMMA RecordsStep ==
  ASSUME AgentInv, ReaderInv, [RecordsNext]_recordVars
  PROVE  AgentInv' /\ ReaderInv'
<1>1. CASE AgentStep
  <2>1. AgentInv' /\ WriteOnce /\ (row.state = "FINISHED" => row'.state = "FINISHED") /\ UNCHANGED reader
    BY <1>1, AgentStands, AgentNeverReads DEF Owed
  <2>2. QED BY <2>1, ReaderKept
<1>2. CASE InspectRead \/ InspectCheck \/ InspectRecheck \/ InspectBegin \/ ObservePostTurnCore \/ InspectEnds
  <2>1. ReaderInv'
    BY <1>2, ReadStands, RecheckStands, ObserveStands
  <2>2. UNCHANGED <<records, failed, source, codex, bundle, archive, agent, row>>
    BY <1>2 DEF InspectRead, InspectCheck, InspectRecheck, InspectBegin, ObservePostTurnCore, InspectEnds, Disk
  <2>3. QED BY <2>1, <2>2, NothingWritten
<1>3. CASE UNCHANGED recordVars
  <2>1. UNCHANGED <<records, failed, source, codex, bundle, archive, agent, row>> /\ UNCHANGED reader
    BY <1>3 DEF recordVars
  <2>2. WriteOnce /\ (row.state = "FINISHED" => row'.state = "FINISHED")
    BY <2>1 DEF WriteOnce
  <2>3. QED BY <2>1, <2>2, NothingWritten, ReaderKept
<1>4. RecordsNext => \/ AgentStep
                     \/ InspectRead \/ InspectCheck \/ InspectRecheck \/ InspectBegin \/ ObservePostTurnCore \/ InspectEnds
  BY DEF RecordsNext, AgentStep
<1>5. QED BY <1>1, <1>2, <1>3, <1>4

(* The invariant of the records and of their reader. *)
LEMMA RecordsInvAlways == RecordsSpec => [](AgentInv /\ ReaderInv)
<1>1. AgentInv /\ ReaderInv /\ [RecordsNext]_recordVars => (AgentInv /\ ReaderInv)'
  BY RecordsStep
<1>2. QED BY <1>1, RecordsInitially, PTL DEF RecordsSpec

(* The phases on record are those that were entered, or all but the last. *)
LEMMA EnteredPhases ==
  ASSUME AgentInv, \A n \in Names : records[n].state # "torn"
  PROVE  \E m \in 0 .. 6 : Entered(records) = 1 .. m /\ m \in {agent.phase, agent.phase - 1}
<1>1. records \in [Names -> Record] /\ agent.phase \in 0 .. 6 /\ Phases = 1 .. 6
  BY OrderFacts DEF AgentInv, RecordsTypeOK, Agent
<1>2. \A k \in 1 .. 6 : k > agent.phase => k \notin Entered(records)
  BY <1>1, AbsentFacts DEF AgentInv, PhasesStand, Entered, Saved
<1>3. \A k \in 1 .. 6 : k < agent.phase => k \in Entered(records)
  BY <1>1 DEF AgentInv, PhasesStand, Entered
<1>4. Entered(records) \subseteq 1 .. 6
  BY <1>1 DEF Entered
<1>5. CASE agent.phase = 0
  BY <1>2, <1>4, <1>5
<1>6. CASE agent.phase > 0 /\ agent.phase \in Entered(records)
  BY <1>1, <1>2, <1>3, <1>4, <1>6
<1>7. CASE agent.phase > 0 /\ agent.phase \notin Entered(records)
  BY <1>1, <1>2, <1>3, <1>4, <1>7
<1>8. QED BY <1>1, <1>5, <1>6, <1>7

(* Records that the agent leaves are coherent. *)
LEMMA InvReadable == AgentInv => RecordsReadable
<1> SUFFICES ASSUME AgentInv, Saved(records, "permit"), \A n \in Names : records[n].state # "torn"
             PROVE  Coherent(records, failed.phase)
  BY DEF RecordsReadable
<1>1. PICK m \in 0 .. 6 : Entered(records) = 1 .. m /\ m \in {agent.phase, agent.phase - 1}
  BY EnteredPhases
<1>2. Cardinality(Entered(records)) = m
  <2>1. 1 \in Int /\ m \in Int
    OBVIOUS
  <2>2. Cardinality(1 .. m) = IF 1 > m THEN 0 ELSE m - 1 + 1
    BY <2>1, FS_Interval, Zenon
  <2>3. (IF 1 > m THEN 0 ELSE m - 1 + 1) = m
    OBVIOUS
  <2>4. QED BY <1>1, <2>2, <2>3
<1>3. /\ records \in [Names -> Record] /\ agent.phase \in 0 .. 6 /\ Phases = 1 .. 6
      /\ {"permit", "control", "history", "failure", "checkpoint", "turn", "result"} \subseteq Names
      /\ \A k \in Phases : postTurnPhases[k] \in Names
  BY OrderFacts DEF AgentInv, RecordsTypeOK, Agent
<1>4. \A k \in Phases : k \in Entered(records) <=> Saved(records, postTurnPhases[k])
  BY DEF Entered
<1>5. \A n \in Names : Saved(records, n) => records[n] # Absent
  BY AbsentFacts DEF Saved
<1>6. ASSUME NEW k \in Entered(records) PROVE validatePhase(records[postTurnPhases[k]], k)
  <2>1. k \in Phases /\ records[postTurnPhases[k]] # Absent /\ records[postTurnPhases[k]].digest \in BOOLEAN
    BY <1>3, <1>4, <1>5, <1>6 DEF Entered, Record
  <2>2. records[postTurnPhases[k]].digest <=> k > 2
    BY <2>1 DEF AgentInv, PhasesStand
  <2>3. QED BY <2>1, <2>2 DEF validatePhase
<1>7. ASSUME Saved(records, "failure") PROVE failed.phase \in {m, m + 1} \cap Phases /\ validatePhase(records["failure"], failed.phase)
  <2>1. records["failure"] # Absent /\ records["failure"].digest \in BOOLEAN
    BY <1>3, <1>5, <1>7 DEF Record
  <2>2. agent.phase > 0 /\ failed.phase = agent.phase /\ (records["failure"].digest <=> agent.phase > 2)
    BY <2>1 DEF AgentInv, RecordsStand
  <2>3. failed.phase \in {m, m + 1} \cap Phases
    <3>1. PICK p \in 0 .. 6 : p = agent.phase
      BY <1>3
    <3>2. p > 0 /\ (m = p \/ m = p - 1) /\ Phases = 1 .. 6
      BY <1>1, <1>3, <2>2, <3>1
    <3>3. p \in 1 .. 6 /\ (p = m \/ p = m + 1)
      BY <3>2
    <3>4. QED BY <2>2, <3>1, <3>2, <3>3
  <2>4. QED BY <2>1, <2>2, <2>3 DEF validatePhase
<1>8. ASSUME Saved(records, "turn") PROVE m >= 1 /\ Saved(records, "history")
  <2>1. records["turn"] # Absent /\ Saved(records, postTurnPhases[1])
    BY <1>3, <1>5, <1>8 DEF AgentInv, RecordsStand
  <2>2. agent.phase > 0
    BY <1>3, <2>1 DEF AgentInv, RecordsStand
  <2>3. Saved(records, "history")
    BY <2>2 DEF AgentInv, RecordsStand, Past
  <2>4. 1 \in Entered(records)
    BY <1>3, <1>4, <2>1
  <2>5. QED BY <1>1, <2>3, <2>4
<1>9. ASSUME m >= 2 PROVE Saved(records, "turn")
  <2>1. agent.phase > 1
    BY <1>1, <1>3, <1>9
  <2>2. QED BY <2>1 DEF AgentInv, RecordsStand, Past
<1>10. ASSUME Saved(records, "result") PROVE Saved(records, "turn") /\ m >= 3
  <2>1. records["result"] # Absent /\ Saved(records, postTurnPhases[3])
    BY <1>3, <1>5, <1>10 DEF AgentInv, RecordsStand
  <2>2. agent.phase > 1
    BY <1>3, <2>1 DEF AgentInv, RecordsStand
  <2>3. Saved(records, "turn")
    BY <2>2 DEF AgentInv, RecordsStand, Past
  <2>4. 3 \in Entered(records)
    BY <1>3, <1>4, <2>1
  <2>5. QED BY <1>1, <2>3, <2>4
<1>11. ASSUME m >= 4 PROVE Saved(records, "result")
  <2>1. agent.phase > 3
    BY <1>1, <1>3, <1>11
  <2>2. QED BY <2>1 DEF AgentInv, RecordsStand, Past
<1>12. QED BY <1>1, <1>2, <1>6, <1>7, <1>8, <1>9, <1>10, <1>11 DEF Coherent

(* What is accepted is true. *)
LEMMA InvTruthful == AgentInv /\ ReaderInv => ReadbackTruthful
<1> SUFFICES ASSUME AgentInv, ReaderInv PROVE ReadbackTruthful
  OBVIOUS
<1>1. /\ agent.phase \in 0 .. 6 /\ {"permit", "control", "history", "failure", "checkpoint", "turn", "result"} \subseteq Names
  BY OrderFacts DEF AgentInv, RecordsTypeOK, Agent
<1>2. \A n \in Names : Saved(records, n) => records[n] # Absent
  BY AbsentFacts DEF Saved
<1>3. reader.pc = "accepted" => reader.snapshot
  BY DEF ReaderInv
<1>4. reader.core = "FINISHED" \/ Saved(records, "result") => bundle = "whole"
  <2>1. reader.core = "FINISHED" => agent.phase > 2
    BY <1>1 DEF AgentInv, ReaderInv, ResultStands
  <2>2. Saved(records, "result") => agent.phase > 2
    BY <1>1, <1>2 DEF AgentInv, RecordsStand
  <2>3. agent.phase > 2 => bundle = "whole"
    BY DEF AgentInv, ResultStands, Past
  <2>4. QED BY <2>1, <2>2, <2>3
<1>5. agent.retained => archive = source.bytes /\ source.head # "stray"
  BY DEF AgentInv, SourceStands
<1>6. Saved(records, "checkpoint") => agent.retained
  BY <1>1, <1>2 DEF AgentInv, SourceStands
<1>7. row.checkpoint # Nothing => agent.retained /\ row.checkpoint = archive
  BY DEF AgentInv, SourceStands
<1>8. Saved(records, "failure") /\ failed.checkpoint => agent.retained
  BY <1>1, <1>2 DEF AgentInv, SourceStands
<1>9. Saved(records, "failure") => agent.pc # "delivered"
  BY <1>1, <1>2 DEF AgentInv, RecordsStand
<1>10. QED BY <1>3, <1>4, <1>5, <1>6, <1>7, <1>8, <1>9 DEF ReadbackTruthful

(* Wherever ExecuteCodex dies or fails, and while it still writes, the      *)
(* records it has left are a history that InspectPostTurn accepts, unless   *)
(* the permit is missing or a write was torn.                               *)
THEOREM RecordsAlwaysReadable == RecordsSpec => []RecordsReadable
<1>1. QED BY RecordsInvAlways, InvReadable, PTL

(* What InspectPostTurn accepts is the state of one moment, and what the    *)
(* records and Core say of result, checkpoint and failure holds of the      *)
(* bundle, the archive and the source, however often the agent writes       *)
(* between two reads.                                                       *)
THEOREM ReadbackAlwaysTruthful == RecordsSpec => []ReadbackTruthful
<1>1. QED BY RecordsInvAlways, InvTruthful, PTL
=============================================================================
