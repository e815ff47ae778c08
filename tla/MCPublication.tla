---------------------------- MODULE MCPublication ----------------------------
(* The Publisher: its journal, and beside it what it does at GitHub.  The  *)
(* two share no variable, so each is explored alone: part says which one   *)
(* runs, the other stays in its initial state.                             *)
EXTENDS PublisherJournal, GitHubPublication, TLC

VARIABLE part

MCVars == <<part, vars, githubVars>>

MCInit == part \in {"journal", "github"} /\ Init /\ GitHubInit

(* Only the journal has to go on for ever. *)
MCNext ==
  \/ part = "journal" /\ Next /\ UNCHANGED <<part, githubVars>>
  \/ part = "github" /\ GitHubNext /\ UNCHANGED <<part, vars>>
  \/ part = "github" /\ UNCHANGED MCVars

MCSpec == MCInit /\ [][MCNext]_MCVars

(* Writers and callers are the same two processes. *)
MCSymmetry == Permutations(Ids) \cup Permutations(Writers) \cup Permutations(Sealers)
=============================================================================
