-------------------------- MODULE MCWorkLifecycle --------------------------
(* Instances of WorkLifecycle for TLC. *)
EXTENDS WorkLifecycle, TLC

CONSTANTS w1, r1, r2

Task(id, revision) == [id |-> id, revision |-> revision, work |-> w1]

(* One contract and its revision, and one contract alone. *)
MCOneTask  == {Task(1, 1)}
MCTwoTasks == {Task(1, 1), Task(1, 2)}

MCDraft == {[state |-> "DRAFT", task |-> None, run |-> None]}

(* The states a client may ask for: plain intake, a work that claims a     *)
(* task or a run it never had, and a work born closed.                     *)
MCClaims ==
  MCDraft \cup
    {[state |-> "READY", task |-> Task(1, 2), run |-> None],
     [state |-> "READY", task |-> None, run |-> r1],
     [state |-> "EXECUTING", task |-> Task(1, 1), run |-> r1],
     [state |-> "CLOSED", task |-> None, run |-> None]}

(* Ids a client chooses are interchangeable; the runs are not, one of them *)
(* is named by the creations.                                              *)
MCHandlers == Permutations(Handlers)
=============================================================================
