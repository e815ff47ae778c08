------------------------------ MODULE RunModel ------------------------------
(***************************************************************************)
(* The pure state machines of a Run and of its Session (internal/run and   *)
(* internal/session), as operators on records.  They have no variables of  *)
(* their own: the modules that keep a run row and a session row apply them *)
(* inside one transaction, as the handlers do.                             *)
(*                                                                         *)
(* A method that returns an error changes nothing; here it is an operator  *)
(* together with the guard (CheckEpoch, SessionEpoch) the method tests.    *)
(***************************************************************************)
EXTENDS Naturals

RunStates == {"CREATED", "RUNNING", "PAUSED", "HUMAN_CONTROLLED",
              "COMPLETED", "ABORTED"}
Owners    == {"RUNTIME", "HUMAN"}

RunRecord     == [state : RunStates, epoch : Nat, owner : Owners]
SessionRecord == [epoch : Nat, owner : Owners, paused : BOOLEAN]

Terminal(r) == r.state \in {"COMPLETED", "ABORTED"}

(* run.New followed by nothing; run.StartAttempt is what createRun applies next *)
NewRun == [state |-> "CREATED", epoch |-> 0, owner |-> "RUNTIME"]

StartAttempt(r) == [r EXCEPT !.epoch = @ + 1, !.state = "RUNNING", !.owner = "RUNTIME"]

(* Every run method but StartAttempt first refuses a stale epoch, then a    *)
(* terminal run.                                                           *)
CheckEpoch(r, e) == e = r.epoch /\ ~Terminal(r)

PauseRun(r)    == [r EXCEPT !.state = "PAUSED"]
ResumeRun(r)   == [r EXCEPT !.state = "RUNNING"]
TakeoverRun(r) == [r EXCEPT !.epoch = @ + 1, !.state = "HUMAN_CONTROLLED", !.owner = "HUMAN"]
CompleteRun(r) == [r EXCEPT !.state = "COMPLETED"]
(* A continuation supersedes the source run: no method, an UPDATE. *)
SupersedeRun(r) == [r EXCEPT !.state = "ABORTED", !.epoch = @ + 1]

NewSession(e) == [epoch |-> e, owner |-> "RUNTIME", paused |-> FALSE]

SessionEpoch(s, e) == e = s.epoch

PauseSession(s)    == [s EXCEPT !.paused = TRUE]
ResumeSession(s)   == [s EXCEPT !.paused = FALSE]
(* The paused flag survives a takeover. *)
TakeoverSession(s) == [s EXCEPT !.epoch = @ + 1, !.owner = "HUMAN"]
SupersedeSession(s) == [s EXCEPT !.epoch = @ + 1, !.paused = TRUE]
=============================================================================
