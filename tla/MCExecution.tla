----------------------------- MODULE MCExecution -----------------------------
(* The execution of runs: in Core, on either store, on the connection to   *)
(* the app-server, and in the records that it leaves on the worker's disk. *)
(* Core, connection and records share no variable, so each is explored     *)
(* alone: part says which one runs, the others stay in their initial       *)
(* states.                                                                 *)
EXTENDS MCWorkLifecycle, MemoryStore, AppServerClient, ExecutionRecords

VARIABLE part

MCVars == <<part, vars, recordVars, appVars>>

MCInit == part \in {"core", "memory", "records", "client"} /\ Init /\ RecordsInit /\ AppInit

MCNext ==
  \/ part = "core" /\ Next /\ UNCHANGED <<part, recordVars, appVars>>
  \/ part = "memory" /\ MemoryNext /\ UNCHANGED <<part, recordVars, appVars>>
  \/ part = "records" /\ RecordsNext /\ UNCHANGED <<part, vars, appVars>>
  \/ part = "client" /\ AppNext /\ UNCHANGED <<part, vars, recordVars>>

MCSpec == MCInit /\ [][MCNext]_MCVars
=============================================================================
