------------------------- MODULE GitHubPublication -------------------------
(***************************************************************************)
(* The GitHub side of a publication (internal/githubpublish): Core's       *)
(* Provider derives the plan of a finished run and dispatches or observes  *)
(* it, the publisher service stages the result bundle, and githubRemote    *)
(* pushes the publication branch and opens the pull request, one request   *)
(* at a time, while people work on the same repository.                    *)
(*                                                                         *)
(* There is one plan: one base commit, one branch and one result commit.   *)
(* A caller makes one call.  A request that fails for its caller may have  *)
(* been accepted by GitHub, then or later.  The journal that keeps one     *)
(* action from being dispatched twice is PublisherJournal; calls of two    *)
(* actions with the same plan are not kept apart by it.                    *)
(***************************************************************************)
EXTENDS Naturals, Sequences, FiniteSets

CONSTANTS
  Callers,      \* calls of Dispatch or Reconcile
  MaxPulls,     \* bound: pull requests with the publication branch as head
  MaxHuman      \* bound: what people do in the repository and on the hosts

ASSUME GitHubAssumption == MaxPulls \in Nat /\ MaxHuman \in Nat

VARIABLES
  core,      \* the run: its epoch is the plan's, its execution is FINISHED
  bundle,    \* the retained bundle: "result", "other" or "gone"
  base,      \* the base ref: "frozen" commit or "moved"
  branch,    \* the publication branch: "absent", "result" or "other" commit
  pulls,     \* sequence of pull requests, numbered from 1
  call,      \* [Callers -> the call]
  inFlight,  \* mutations whose caller has stopped waiting
  effects,   \* history: pushes and creations GitHub accepted, by caller
  humans

githubVars == <<core, bundle, base, branch, pulls, call, inFlight, effects, humans>>

(* own: head and base repository are the configured one, not a fork of the *)
(* same owner.  text: title and body are publicationText of the plan.      *)
Pull == [own : BOOLEAN, target : BOOLEAN, open : BOOLEAN, head : {"result", "other"}, text : BOOLEAN]

PublishPCs == {"dispatch", "base", "stage", "branch", "history", "push", "confirm", "find",
               "history2", "create", "update", "bind"}
ObservePCs == {"reconcile", "obase", "obranch", "ohistory", "ofind"}

(* pull: number of the pull request in hand.  seen, on: the record GitHub  *)
(* returned for it and the base commit in it.  reaped: every Git process   *)
(* was seen to end.  prior and pristine are ghosts: what was there when    *)
(* the call began, and when an observation read the branch.                *)
NoPull == [own |-> FALSE, target |-> FALSE, open |-> FALSE, head |-> "other", text |-> FALSE]
NoCall == [pc |-> "idle", pull |-> 0, seen |-> NoPull, on |-> "moved", reaped |-> TRUE, outcome |-> "none",
           prior |-> FALSE, pristine |-> FALSE]

remoteVars == <<base, branch, pulls, effects>>
Go(c, pc) == call' = [call EXCEPT ![c].pc = pc]
End(c, outcome) == call' = [call EXCEPT ![c].pc = "done", ![c].outcome = outcome]
Unmoved == UNCHANGED <<core, bundle, humans>>
Quiet == Unmoved /\ UNCHANGED <<remoteVars, inFlight>>

-----------------------------------------------------------------------------
(* Provider. *)

(* publicationRun and CheckEpoch: live authority of the exact epoch. *)
CheckEpoch == core.epoch
(* retainedPlan: a FINISHED execution of that epoch and what it retained. *)
retainedPlan == core.finished
(* copyBundle: the bytes behind an unchanged path have the plan's digest. *)
copyBundle == bundle = "result"
verifyBundle == copyBundle
(* derive: the bundle only for a dispatch. *)
derive(requireBundle) == CheckEpoch /\ retainedPlan /\ (requireBundle => verifyBundle)

(* Dispatch up to remote.Publish: a plan that cannot be derived is UNKNOWN *)
(* with PRECONDITION_FAILED.                                               *)
Dispatch(c) ==
  /\ call[c].pc = "idle"
  /\ call' = [call EXCEPT ![c] =
       IF derive(TRUE)
       THEN [NoCall EXCEPT !.pc = "dispatch", !.prior = pulls # <<>>]
       ELSE [NoCall EXCEPT !.pc = "done", !.outcome = "PRECONDITION_FAILED"]]
  /\ Quiet

(* Reconcile up to remote.Observe; the bundle is not needed. *)
Reconcile(c) ==
  /\ call[c].pc = "idle"
  /\ call' = [call EXCEPT ![c] =
       IF derive(FALSE)
       THEN [NoCall EXCEPT !.pc = "obase", !.prior = pulls # <<>>]
       ELSE [NoCall EXCEPT !.pc = "done", !.outcome = "UNRESOLVED"]]
  /\ Quiet

(* RemoteService.verifyBundle: a private copy with the plan's digest. *)
StageSnapshot(c) ==
  /\ call[c].pc = "dispatch"
  /\ copyBundle
  /\ Go(c, "base") /\ Quiet

-----------------------------------------------------------------------------
(* githubRemote.Publish. *)

(* getRef of the base ref. *)
PublishBase(c) ==
  /\ call[c].pc = "base"
  /\ base = "frozen"
  /\ Go(c, "stage") /\ Quiet

(* stageBundle: the base is fetched and must be the frozen commit, the     *)
(* bundle fetched and checked.  A Git process that is not reaped ends it.  *)
stageBundle(c) ==
  /\ call[c].pc = "stage"
  /\ base = "frozen"
  /\ Go(c, "branch") /\ Quiet

PublishBranch(c) ==
  /\ call[c].pc = "branch"
  /\ branch # "other"
  /\ Go(c, IF branch = "result" THEN "confirm" ELSE "history") /\ Quiet

(* Mutant of hasHistoricalPull: only the target base is asked for. *)
HistoricalOnTarget == \E k \in DOMAIN pulls : pulls[k].target

(* hasHistoricalPull: any pull request ever opened from the branch. *)
hasHistoricalPull == pulls # <<>>

CheckHistory(c) ==
  /\ call[c].pc \in {"history", "history2"}
  /\ ~hasHistoricalPull
  /\ Go(c, IF call[c].pc = "history" THEN "push" ELSE "create") /\ Quiet

(* push --force-with-lease: the branch must not exist.  GitHub moves the   *)
(* head of open pull requests with the branch.                             *)
Pushed(c) ==
  /\ branch = "absent"
  /\ branch' = "result"
  /\ effects' = effects \cup {[caller |-> c, kind |-> "push"]}
  /\ UNCHANGED <<base, pulls>>

(* push: done and reaped; or the process cannot be proved ended, and its   *)
(* push may still be accepted.                                             *)
push(c) ==
  /\ call[c].pc = "push"
  /\ \/ Pushed(c) /\ Go(c, "confirm") /\ UNCHANGED inFlight
     \/ /\ inFlight' = inFlight \cup {[caller |-> c, kind |-> "push"]}
        /\ call' = [call EXCEPT ![c].pc = "done", ![c].outcome = "UNKNOWN", ![c].reaped = FALSE]
        /\ UNCHANGED remoteVars
  /\ Unmoved

ConfirmBranch(c) ==
  /\ call[c].pc = "confirm"
  /\ branch = "result"
  /\ Go(c, "find") /\ Quiet

OpenPulls == {k \in DOMAIN pulls : pulls[k].open /\ pulls[k].target}

(* Mutant of pullMatches: owner and branch identify the head. *)
OwnerMatches(pr, b) == pr.open /\ pr.target /\ pr.head = "result" /\ b = "frozen"

(* pullMatches: open, of the configured repository on both sides, the      *)
(* result commit on the frozen base.                                       *)
pullMatches(pr, b) == pr.open /\ pr.own /\ pr.target /\ pr.head = "result" /\ b = "frozen"

(* findOpenPull: exactly one is taken up, several are an error. *)
FindOpen(c) ==
  /\ call[c].pc = "find"
  /\ \/ OpenPulls = {} /\ Go(c, "history2")
     \/ \E k \in OpenPulls :
          /\ OpenPulls = {k}
          /\ pullMatches(pulls[k], base)
          /\ call' = [call EXCEPT ![c].pull = k, ![c].seen = pulls[k], ![c].on = base,
                                  ![c].pc = IF pulls[k].text THEN "bind" ELSE "update"]
  /\ Quiet

(* GitHub refuses a second open pull request for the same head and base.   *)
Created(c) ==
  /\ branch # "absent"
  /\ ~\E k \in OpenPulls : pulls[k].own
  /\ Len(pulls) < MaxPulls
  /\ pulls' = Append(pulls, [own |-> TRUE, target |-> TRUE, open |-> TRUE, head |-> branch, text |-> TRUE])
  /\ effects' = effects \cup {[caller |-> c, kind |-> "create"]}
  /\ UNCHANGED <<base, branch>>

Updated(k) ==
  /\ pulls' = [pulls EXCEPT ![k].text = TRUE]
  /\ UNCHANGED <<base, branch, effects>>

(* The answer is read; or the call fails and the request may arrive yet. *)
createPull(c) ==
  /\ call[c].pc = "create"
  /\ \/ /\ Created(c)
        /\ call' = [call EXCEPT ![c].pc = "bind", ![c].pull = Len(pulls'),
                                ![c].seen = pulls'[Len(pulls')], ![c].on = base]
        /\ UNCHANGED inFlight
     \/ /\ inFlight' = inFlight \cup {[caller |-> c, kind |-> "create"]}
        /\ End(c, "UNKNOWN") /\ UNCHANGED remoteVars
  /\ Unmoved

updatePull(c) ==
  LET k == call[c].pull IN
  /\ call[c].pc = "update"
  /\ \/ /\ Updated(k)
        /\ call' = [call EXCEPT ![c].pc = "bind", ![c].seen = pulls'[k], ![c].on = base]
        /\ UNCHANGED inFlight
     \/ /\ inFlight' = inFlight \cup {[caller |-> c, kind |-> "update"]}
        /\ End(c, "UNKNOWN") /\ UNCHANGED remoteVars
  /\ Unmoved

(* No Git process of the call may still run. *)
publisherGitQuiescent(c) == call[c].reaped

(* The response binds the plan; every Git process was reaped; then Dispatch*)
(* checks the receipt against its own plan and answers CONFIRMED.          *)
Bind(c) ==
  /\ call[c].pc = "bind"
  /\ pullMatches(call[c].seen, call[c].on)
  /\ publisherGitQuiescent(c)
  /\ End(c, "CONFIRMED") /\ Quiet

(* Any check fails, any request or answer is lost, the caller is cancelled *)
(* or a process dies: the effect stays UNKNOWN.                            *)
PublishFails(c) ==
  /\ call[c].pc \in PublishPCs
  /\ End(c, "UNKNOWN") /\ Quiet

-----------------------------------------------------------------------------
(* githubRemote.Observe. *)

ObserveBase(c) ==
  /\ call[c].pc = "obase"
  /\ IF base = "frozen" THEN Go(c, "obranch") ELSE End(c, "CONFLICT")
  /\ Quiet

(* The branch is read before the history: a pull request found missing     *)
(* afterwards was missing then.                                            *)
ObserveBranch(c) ==
  /\ call[c].pc = "obranch"
  /\ call' = [call EXCEPT ![c].pc = CASE branch = "absent" -> "ohistory"
                                      [] branch = "result" -> "ofind"
                                      [] OTHER -> "done",
                          ![c].outcome = IF branch = "other" THEN "CONFLICT" ELSE @,
                          ![c].pristine = branch = "absent" /\ pulls = <<>>]
  /\ Quiet

ObserveHistory(c) ==
  /\ call[c].pc = "ohistory"
  /\ End(c, IF hasHistoricalPull THEN "PARTIAL" ELSE "ABSENT") /\ Quiet

(* Whatever is observed, Reconcile leaves the effect to a person. *)
ObservePull(c) ==
  /\ call[c].pc = "ofind"
  /\ \/ OpenPulls = {} /\ End(c, "PARTIAL")
     \/ \E k \in OpenPulls :
          /\ OpenPulls = {k}
          /\ call' = [call EXCEPT ![c].pc = "done", ![c].pull = k, ![c].seen = pulls[k],
               ![c].outcome = IF pullMatches(pulls[k], base) THEN "OBSERVED" ELSE "CONFLICT"]
  /\ Quiet

ObserveFails(c) ==
  /\ call[c].pc \in ObservePCs
  /\ End(c, "UNRESOLVED") /\ Quiet

-----------------------------------------------------------------------------
(* What GitHub accepts after its caller went away, and what people do. *)

Late(e) ==
  /\ e \in inFlight
  /\ inFlight' = inFlight \ {e}
  /\ \/ e.kind = "push" /\ Pushed(e.caller)
     \/ e.kind = "create" /\ Created(e.caller)
     \/ e.kind = "update" /\ Updated(call[e.caller].pull)
  /\ UNCHANGED call /\ Unmoved

Human(core1, bundle1, base1, branch1, pulls1) ==
  /\ humans < MaxHuman
  /\ humans' = humans + 1
  /\ core' = core1 /\ bundle' = bundle1 /\ base' = base1 /\ branch' = branch1 /\ pulls' = pulls1
  /\ UNCHANGED <<call, inFlight, effects>>

OwnHead(b, open) == [k \in DOMAIN pulls |->
  IF pulls[k].own /\ pulls[k].open THEN [pulls[k] EXCEPT !.head = b, !.open = open] ELSE pulls[k]]

People ==
  \/ \E f \in {"epoch", "finished"} : core[f] /\ Human([core EXCEPT ![f] = FALSE], bundle, base, branch, pulls)
  \/ \E b \in {"other", "gone"} : bundle = "result" /\ Human(core, b, base, branch, pulls)
  \/ base = "frozen" /\ Human(core, bundle, "moved", branch, pulls)
  \/ branch = "result" /\ Human(core, bundle, base, "other", OwnHead("other", TRUE))
  \/ branch = "result" /\ Human(core, bundle, base, "absent", OwnHead("result", FALSE))
  \/ branch = "absent" /\ Human(core, bundle, base, "result", pulls)
  \/ \E k \in DOMAIN pulls : pulls[k].open /\
       \/ Human(core, bundle, base, branch, [pulls EXCEPT ![k].open = FALSE])
       \/ Human(core, bundle, base, branch, [pulls EXCEPT ![k].target = FALSE])
       \/ Human(core, bundle, base, branch, [pulls EXCEPT ![k].text = FALSE])
  \/ Len(pulls) < MaxPulls /\ Human(core, bundle, base, branch,
       Append(pulls, [own |-> FALSE, target |-> TRUE, open |-> TRUE, head |-> "result", text |-> FALSE]))

GitHubInit ==
  /\ core = [epoch |-> TRUE, finished |-> TRUE]
  /\ bundle = "result" /\ base = "frozen" /\ branch = "absent"
  /\ pulls = <<>>
  /\ call = [c \in Callers |-> NoCall]
  /\ inFlight = {} /\ effects = {} /\ humans = 0

GitHubNext ==
  \/ \E c \in Callers :
       \/ Dispatch(c) \/ Reconcile(c) \/ StageSnapshot(c)
       \/ PublishBase(c) \/ stageBundle(c) \/ PublishBranch(c) \/ CheckHistory(c) \/ push(c)
       \/ ConfirmBranch(c) \/ FindOpen(c) \/ createPull(c) \/ updatePull(c) \/ Bind(c) \/ PublishFails(c)
       \/ ObserveBase(c) \/ ObserveBranch(c) \/ ObserveHistory(c) \/ ObservePull(c) \/ ObserveFails(c)
  \/ \E e \in inFlight : Late(e)
  \/ People

GitHubSpec == GitHubInit /\ [][GitHubNext]_githubVars

-----------------------------------------------------------------------------
(* A call never pushes the branch or opens a pull request if the branch    *)
(* already had one when the call began, closed, retargeted or with its     *)
(* branch deleted as it may be: an earlier decision is not published over. *)
DecisionsRespected == \A e \in effects : ~call[e.caller].prior

(* What a call answers was so: a pull request it confirms or observes has  *)
(* head and base in the configured repository, not in a fork of the same   *)
(* owner, and an ABSENT answer means that at the moment its branch was     *)
(* read nothing of the publication existed.                                *)
AnswersTrue ==
  \A c \in Callers :
    /\ call[c].outcome \in {"CONFIRMED", "OBSERVED"} => pulls[call[c].pull].own
    /\ call[c].outcome = "ABSENT" => call[c].pristine
=============================================================================
