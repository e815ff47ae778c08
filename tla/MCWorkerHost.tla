---------------------------- MODULE MCWorkerHost ----------------------------
(* The worker: its lane in Core, and on its host the prepared workspaces,  *)
(* the private archives and the installed releases.  The four share no     *)
(* variable, so each is explored alone: part says which one runs, the      *)
(* others stay in their initial states.                                    *)
EXTENDS WorkerLane, PreparedWorkspace, ArtifactSet, Release, TLC

CONSTANTS d1, d2, n1

VARIABLE part

MCVars == <<part, vars, preparedVars, artifactVars, releaseVars>>

Parts == {"lane", "workspace", "artifacts", "release"}

MCInit ==
  /\ part \in Parts
  /\ Init /\ PreparedInit /\ ArtifactInit /\ ReleaseInit
  /\ part # "lane" => \A w \in Workers : subject[w] = n1
  /\ part # "release" => build = [m \in Files |-> CHOOSE c \in Commits : TRUE]

MCNext ==
  \/ part = "lane" /\ Next /\ UNCHANGED <<part, preparedVars, artifactVars, releaseVars>>
  \/ part = "workspace" /\ PreparedNext /\ UNCHANGED <<part, vars, artifactVars, releaseVars>>
  \/ part = "artifacts" /\ ArtifactNext /\ UNCHANGED <<part, vars, preparedVars, releaseVars>>
  \/ part = "release" /\ ReleaseNext /\ UNCHANGED <<part, vars, preparedVars, artifactVars>>

MCSpec == MCInit /\ [][MCNext]_MCVars

(* Two dispatchers of a rolling update: one knows the custom topic. *)
MCHandlers == (d1 :> {"work.created"}) @@ (d2 :> {"work.created", "custom"})

(* Both claim under one name, as two processes of one unit do. *)
MCOwner == d1 :> n1 @@ d2 :> n1

(* Workers, claims, packers and switchers are the same two processes. *)
MCSymmetry == Permutations(Workers)
=============================================================================
