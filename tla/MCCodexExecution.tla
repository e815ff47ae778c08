-------------------------- MODULE MCCodexExecution --------------------------
(* Instances of CodexExecution for TLC. *)
EXTENDS CodexExecution, TLC
=============================================================================
