# A verification development for engineering-platform

TLA+ models of the control plane, its Recovery path, its Publisher, its workers
and their hosts, the TLC configurations that check them on small instances, and
TLAPS proofs, for every value of the constants, of the safety of all of them: the
action ledger, the work lifecycle, the Publisher's journal and its GitHub client, the
worker lane, Codex executions with their connection and their records, and what a
worker host prepares, retains and installs.

- [The system](#the-system)
- [Modules](#modules)
- [Runs](#runs)
- [Fairness](#fairness)
- [Proofs](#proofs)
- [What the checks found](#what-the-checks-found)
- [Not modelled](#not-modelled)
- [Plan](#plan)

## The system

A control plane (Go, PostgreSQL) takes engineering work from intake to closure.
Work is executed by workers that hold leases, its results are published to
GitHub by an independent Publisher service, and every external mutation is
accounted for in a ledger that must survive crashes, lost answers and operator
mistakes without ever repeating an effect.

| component (`internal/...`) | state it keeps | operations |
|---|---|---|
| action ledger: `action`, `gateway`, `store/postgres/action_store.go` | `external_operations` rows, their audit markers | Execute (look up, check authority, reserve, dispatch, settle), Reconcile |
| recovery: `recovery`, `store/postgres/store.go`, `recovery_proof.go`, `*_reconcile.go`, `publication_*.go` | platform mode and recovery epoch, proofs, settlement receipts | begin, abandon a planned row, confirm or abandon a publication, abandon an execution, prove, authorize completion, complete |
| run and session: `run`, `session` | run state, execution epoch, owner; paused flag | start, pause, resume, take over, complete, supersede |
| work lifecycle: `core`, `verification`, `review`, `api/server.go`, `store/postgres/core_store.go` | work items, frozen task contracts, runs, checkpoints, deliveries, evidence, reports, reviews, closures | one handler each |
| Publisher: `githubpublish`, `cmd/publisher-service` | one directory per publication with append-only witness files, an inode lock; at GitHub a branch and its pull requests | publish, certify non-invocation, read a completion; stage, push, find, create, update, observe |
| worker lane: `workerqueue`, `preparation`, `offline`, `codexexec`, `store/postgres/worker_*.go`, `offline_store.go`, `codex_*.go` | inbox rows with leases and generations, preparations, executions, runtime controls, checkpoints | relay, claim, renew, report; start, renew, finish, fail; bind, queue, claim, settle, close; continue |
| outbox: `outbox`, `store/postgres/outbox_store.go` | outbox rows with leases and attempts | claim, dispatch, settle, retry, dead-letter |
| worker agent and runtime: `workeragent`, `workerloop`, `runtime/codexapp`, `processscope`, `sandbox` | one process tree, one protocol connection | permit, start, renew, finish; turn and control protocol |
| files: `workspace`, `artifactset`, `sourcecheckpoint`, `contextbundle`, `material`, `retention` | workspace slots, context bundles, execution records, retained archives | create, restore, adopt, materialize, record, finalize, capture; pack, replicate, restore |
| release: `distribution`, `embedded`, `rcdelivery` | installed release, current pointer | install, switch, roll back |

How they interact. A handler reads rows, decides, and commits in another
transaction that compares versions; the ledger calls the Publisher over HTTP
with no lock held; Recovery reads the same rows the ledger writes, and the
Publisher's evidence; a worker acts under the run's execution epoch, the
platform's recovery epoch and its own lease, any of which can move while it
works.

What is hard. Authority is read before it is used. A process can be lost between
a durable intent and its outcome, so "it did not happen" needs evidence as much
as "it happened". Recovery settles rows whose original caller may still be
running. A COMMIT may be applied although its answer is lost. A directory can be
restored from a copy in which files are missing. The list of these hazards, each
with its line and the properties aimed at it, is `hazards` in `PROJECT.json`.

## Modules

| module | models | of |
|---|---|---|
| `RunModel` | the run and session state machines, as operators | `run/model.go`, `session/model.go` |
| `PublicationWitness` | what the Publisher promises about one publication (abstract) | `githubpublish`, as the control plane uses it |
| `ActionLedger` | Execute and Reconcile, Recovery, the run whose authority they use; composed with `PublicationWitness` | `action`, `gateway`, `recovery`, the PostgreSQL store |
| `PublisherJournal` | slots, witness files, lock and incarnation; implements `PublicationWitness` | `githubpublish/dispatch_journal.go`, `no_invocation.go`, `armed_cancellation.go`, `witness_lock_linux.go`, `service.go` |
| `GitHubPublication` | Provider, bundle staging and the GitHub client, request by request, beside people who use the repository | `githubpublish/provider.go`, `remote_client.go`, `service.go`, `bundle_read.go`, `git_scope.go`, `github.go` |
| `WorkLifecycle` | intake, freeze, runs, delivery, evidence, verification, review, closure | `api/server.go`, `core`, `verification`, `review`, `core_store.go`, `codex_continuation.go` |
| `MemoryStore` | the same handlers on the in-memory store | `store/memory.go` |
| `CodexExecution` | one worker's Codex executions: rows, agent, control pump, process | `store/postgres/codex_*.go`, `execution_reconcile.go`, `codexexec`, `workeragent/codex*.go`, `runtime/codexapp`, `processscope` |
| `AppServerClient` | the connection to the Codex app-server, the adapter and the probe that drives them | `runtime/codexapp` |
| `ExecutionRecords` | what an execution writes to the worker's disk, and its readback | `workeragent/codex*.go`, `preparation`, `workspace`, `sourcecheckpoint` |
| `WorkerLane` | outbox, relay, worker inbox, preparation receipt, offline execution, dispatcher and worker processes | `outbox`, `outbox_store.go`, `worker_*.go`, `preparation_store.go`, `offline_store.go`, `workeragent` |
| `PreparedWorkspace` | preparing a slot and its context bundle, restoring a continued source, reopening | `workeragent/prepared.go`, `preparation`, `workspace`, `contextbundle`, `sourcecheckpoint` |
| `ArtifactSet` | private archives: pack, replicate, restore | `artifactset`, `retention`, `workeragent` captures |
| `Release` | install, read back and switch a release | `distribution` |
| `ActionLedgerProofs` | theorems about `ActionLedger` | |
| `WorkLifecycleProofs` | theorems about `WorkLifecycle` and `MemoryStore` | |
| `PublisherProofs` | theorems about `PublisherJournal`, its refinement included, and `GitHubPublication` | |
| `WorkerHostProofs` | theorems about `PreparedWorkspace`, `ArtifactSet` and `Release` | |
| `WorkerLaneProofs`, `CodexExecutionProofs`, `AppServerClientProofs`, `ExecutionRecordsProofs` | theorems about these modules | |
| `MC...` | constants, symmetry sets and inputs for TLC | |

`map` in `PROJECT.json` gives the source lines of every definition.

### ActionLedger

`row[i]` is the `external_operations` row of operation `i` with the audit marker
its confirmation writes; `call[c]` is one Execute call and `recon[w]` one
Reconcile call, each with a program counter; `pub[i]` is the Publisher's side of
the operation. One action is one transaction, one read, or one remote call:

    Lookup - CheckRun - CheckRecovery - Create - MarkDispatched - Invoke - ProviderReturns - Settle
                                          \- CreateRefused - Reread

Between any two of them any other process may act. The advisory reads
(`gateway.Authority`) and the decision inside the transaction
(`checkActionAdmission`, here `Admitted`) are separate, as in the code. An
ordinary ledger step is the compare-and-set `Updatable`/`Updated`. A lost caller
(disconnect, crash, failed commit) is `LoseCall`; a commit whose answer was lost
is the step followed by the loss.

The request digest is the tuple of what it covers. Only
`CONTROLLED_MUTATION` requests are publications; a provider for another risk
class may answer anything and leaves no trace. A dispatch slot belongs to a
plan; a second operation with the same plan is refused by the Publisher, which is
`RefusePublish`. The Recovery endpoints are actions of principals; `reconcilers`
is the access policy, which excludes completion for whoever may reconcile, and a
policy revision is a restart (`RevisePolicy`). What the evidence routes of the
Publisher answer depends on more than its witness files: a completion is only given
out with a fresh observation of the same pull request, open, on the planned base
(`githubpublish/service.go:382`), a seal only from the slot's own boot and inode.
`evident[i]` says whether the route would answer now; `EvidenceChanges` flips it, either
way and as often as people, GitHub and the host like. Pause, resume, takeover and
complete are one step here because their commit is guarded by the version they
read; `WorkLifecycle` splits them.

`calls` and `completedBy` are history variables.

### PublisherJournal

`slot[i]` is the slot directory and the state of its four witness files
(`started`, `invoked`, `not-invoked`, `completed`), each absent, torn or whole.
`incarnation[i]` numbers the boot and inode that negative evidence is bound to.
Writers are publish requests, sealers no-invocation requests; both can be killed
at every step, which releases the lock. `Reboot` and `Restore` change the
incarnation; `Restore` may lose files. `Apply` is GitHub. `effect`, `entered`,
`wrote` and `issued` are what the properties and the refinement mapping need to
remember; the mapping (`Witness`, `Publication`) reads `wrote`, since a restored
slot may have lost the file. `Store` is the one way a witness file is written.

### WorkLifecycle

A handler that decides on rows that can change is a `Read...` action, which puts
the snapshot in `handler[h]`, and a `Commit...` action, which compares versions;
`completeRun` reads twice. Handlers that only insert are one action. `Drop` loses
a handler. Ids, results and cited evidence are chosen by the client, as is the
state a work item is created with (the code stores whatever valid state it is
sent, `CLOSED` included). A content digest determines a task contract, so a task
is its contents. `Continue`
abstracts the parts of a continuation that belong to the worker lane (sealed
runtime, source checkpoint) to nondeterminism. `UpdateWork` and `RecordSteering`
exist in the store and have no handler; `CANCELLED` is reachable only by creating
a work item in that state.

### MemoryStore

Development mode and the tests of the handlers run on `store.Memory`. The handlers
and their reads are those of `WorkLifecycle`; each write is one critical section of
the mutex and replaces whole records. It agrees with the PostgreSQL store but for
one thing: `subject_digest` is unique in the schema and not in the map of
deliveries, so one subject may be delivered twice. Evidence is matched by subject,
and so is `PassIsEarned`; that a subject is delivered once, which makes a PASS that
of the delivery it names, holds on PostgreSQL only (`SubjectDeliveredOnce`).
Continuation and the worker lane do not exist on it.

### CodexExecution

Three parties. The control plane's rows are `execution` (the reservation, its
recovery epoch and whether its lease has run out), `runtime` (bound and sealed),
`control` (the steering commands of an execution by sequence) and `checkpoint`.
Every transaction on them locks the run's inbox row, so each is one action, with
the source's name. The agent is `ExecuteCodex` with the turn it runs: `pc` walks
from launch through binding, observation, process stop, close, the post-turn
phases and the failure settlement, and `watching` and `stopping` are the observer
goroutine and the cancelled polling context. `pump` is `pumpControls`. The Codex
process is external: it may die, end the turn as it likes, and apply a request
long after the pump gave it up (`CodexApplies`, counted in `applied`).

A call of the agent is answered (`Heard`), or fails for it with the transaction
applied, not applied, or applied later (`Unheard`, `LateCall`): that is what a
lost answer, a refusal and a timeout look like from the caller. `Live` is the
check of `lockCodex`: bind, queue, claim, renew and finish need it; settle, close,
checkpoint and fail do not, since recording an observation grants nothing. A
codex run is never paused or taken over (`mutateExecution` refuses it), so a run
is `RUNNING` until it is completed or continued. Inbox ownership and preparation
are the constant `Prepared`. A crash of the worker process leaves the Codex
process to the kernel (`Pdeathsig`), a moment later. The result's contents,
prompts and item history are left out: their checks can only fail, which
`PhaseFails` and the observer's `ok` allow at any time.

### WorkerLane

Message `n` is a row of the outbox; a `run.started` message has run, inbox row and
execution `n` with it. `Claim` leases rows to a dispatcher under its name and
counts the attempt; `Dispatch` takes the platform row and the message row
(`InDispatch`, `RowLocked`) and runs the handler inside the transaction, so
`BeginRecovery` waits for it; `DispatchReturns` settles by attempt, the sole thing
that tells two processes of one name apart. The handler's context does not depend on
the connection: `ConnectionDrops` releases both locks and leaves the handler running
(`detached`), so a recovery may begin and the message be leased again beside it, until
`DetachedReturns` finds that it cannot settle. `NoStaleDelivery` says what is left: a
handler that still has its connection runs under current authority and alone on its
message; recipients deduplicate for the others, as
`OUTBOX_DISPATCH_AUTHORITY_V2.md:45-50` demands. `RelayRunStart` moves a run start to
the inbox, where `ClaimInput` leases it with a generation. The worker process goes
through renewal, preparation, a second renewal, report, execution, and finish or
fail; each call is `Heard`, or fails for the worker and is applied now, later
(`LateCall`) or never. A lease is a live flag with an expiry step. Pause, takeover
and recovery interfere at any time. `handled` and `engine` are history variables. No
dispatcher has a handler for `run.started` (`HandlersAssumption`): nothing in the
repository registers one, and the relay (`worker_relay.go`) consumes that topic.

### PreparedWorkspace

A claim has a slot of its own, since the slot is named after the lease generation;
the context bundle is named after the input and is shared. The steps of
`PrepareOnce` are one action each, from the exclusive creation of the slot over
restore and adoption of a continued source (two renames) and the bundle under its
lock file to the preparation record and the report. `Reopen` is what the execution
does later. The lease may go at any time, and a killed process leaves slot, stage
and lock file as they are.

### ExecutionRecords

One execution's directory. Records are created exclusively, whole, torn or not at
all, and never replaced. The agent writes them in the order of its phases,
finalizes the source into the result bundle, reports, and after a failure retains
the stopped source as a checkpoint. Codex may have committed: `source.head` is the
base, its child, or neither. The reader asks for the records one by one
(`ReadOrder`), rereads them all, and compares them with Core.

### AppServerClient

Host, pump and read loop are goroutines on one `Client`. `pending` and `reply` are
the correlation table and its one-place channels; `holding` is a response taken off
the table and not yet sent, the moment in which `stop` may run. The server answers
in any order, twice or never. The adapter's `starting` and `earlyCompletion` cover
the completion that overtakes the answer to `turn/start`. What the pump reports to
Core is in `CodexExecution`; its calls are here because they share the connection.

### GitHubPublication

One plan, several calls of Dispatch or Reconcile, one GitHub request per action. A
request that fails for its caller may be accepted then or later (`inFlight`).
People may delete the branch, push to it, open, close, merge, retarget and reopen
pull requests, also from a fork of the same owner, and move the base. The journal
is another module: it keeps one action from being dispatched twice, and not two
actions with the same plan.

### ArtifactSet

An archive file has a temporary name, the published name, or none. Pack pins a
plan member by member, copies it member by member, rereads the members, inspects the
archive and links it; the replicator copies between the roots under a lock; the
restorer extracts. Members and the primary archive change meanwhile, members also back
to bytes they had before. `moment` is a ghost: whether all members had the pinned bytes
when the copy ended. `returned` is another: a member was written back to its pinned
bytes before the second reading came to it. Every reading opens the file anew and
compares digests (`archive_linux.go:111`, `:141`; `inputs_linux.go:45`), so the code
cannot tell such a member from one that never changed, and `RetainedIsTrue` makes that
one exception. TLC reaches it: without the exception the run is violated.

### Release

`entry` is the parent directory, `durable` what a crash would leave of it. Install
copies the members of the build directory one by one against the manifest, syncs
and seals; the switch renames the active release aside and the candidate in, under
a lock and after looking at running processes, with a restore on each failure. An
installation verifies by path when it is done; `made` is a ghost that remembers which
directory it created, so that a report (`Reported`) can say whether the tree it found
there is its own. Verifying the build directory and reading its digests are one step
each, where the code goes file by file (`install_linux.go:41-68`). A rebuild in the
middle of such a pass is not explored; what is promised of the installed bytes does not
rest on it, since the last verification looks at the installed tree alone.

## Runs

| run | module | checks | shows |
|---|---|---|---|
| `dispatch` | `MCActionLedger` | `AtMostOneDispatch`, `AbandonedHasNoEffect`, `HonestReceipt`, `ResolvedRowsFinal` | two callers, two ids, one contested key and one reused id, one recovery, losses everywhere: one dispatch per operation and key, and verdicts that stay true |
| `authority` | `MCActionLedger` | `ConfirmedHasEffect`, `ConfirmationsQualified`, `RecoveryClosesEarlierEpochs`, `IndependentCompletion`, `ContinuedRunIsSettled`, `NoLateEffect` | all risk classes, two recoveries, takeover, continuation and policy revisions: no effect outlives the recovery that settled it |
| `recovery_ends` | `MCActionLedger` | `RecoveryEndsOrDeadEnds` | a staffed recovery ends, except for the rows `DeadEnd` describes |
| `planned_stuck` | `MCActionLedger` | `PlannedRowsRecoverable` (violated) | see below |
| `execution` | `MCExecution` | `LiveRunIsActive`, `EpochsFence`, `WorkMovesForward`; `RecordsReadable`, `ReadbackTruthful`; `OneReply`, `NoGhostTurn` | on either store stale handlers never undo a takeover, a continuation or a freeze; what an execution leaves on disk can be read back and is true; the connection to Codex answers each call once and knows which turn is over |
| `qualification` | `MCQualification` | `PassIsEarned`, `ClosureStandsOnChain` | racing reviews and closures; two deliveries of one run with freely chosen evidence, reports and reviews; the same on the in-memory store |
| `stale_checkpoint` | `MCWorkLifecycle` | `CheckpointsNotStale` (violated) | see below |
| `publication` | `MCPublication` | `EvidenceIsTruthful`, `KeepsPublicationPromise`; `DecisionsRespected`, `AnswersTrue` | the journal implements `PublicationWitness`; the GitHub client never publishes over a decision and never answers with what was not so |
| `codex_safety` | `MCCodexExecution` | `ControlRowsTrue`, `AppliedInOrder`, `FinishedIsClean`, `ContinuedIsQuiet`, `SealedIsFinal`, `RecoverySettlesExecutions` | lost and late calls, crashes, an unconfirmed stop and a recovery: what the rows say of controls, turn and process is true and stays so |
| `codex_agent_ends` | `MCCodexExecution` | `AgentEnds` | an agent with a permit ends; its three threads never wait for each other for ever |
| `codex_delivered_open` | `MCCodexExecution` | `ExpiredExecutionsAbandonable` (violated) | see below |
| `worker_host` | `MCWorkerHost` | `SettledByHolder`, `NoStaleDelivery`, `ReceiptIsHolders`, `ExecutedOnce`, `SettledIsFinal`; `AcknowledgedStands`; `RetainedIsTrue`; `InstalledIsWhole`, `ActiveStands` | leases that expire under their holders settle nothing twice and nothing late; what a host reported prepared, retained, installed or active is there, whatever process died; for releases also if the host crashed |

`execution`, `publication` and `worker_host` check several modules. Modules that share
no variable are extended side by side and `part`, chosen once at the start, says which
one moves: TLC explores each alone, the count of states is their sum and not their
product, and the assumptions of all of them are evaluated. `qualification` has one set of ids that is large enough
for each of its four questions, and `part` bounds how many rows and requests a
behaviour uses (`Limits`, `Within`).

No run lists `TypeOK`: it is proved for the modules with theorems, and was checked
with TLC before.

Each passing property has a mutant in `PROJECT.json`: a small change of a mapped
definition, of the kind a bug in that code would be, under which TLC finds the
property violated.

Bounds. Two callers and two operation ids are what it takes to contest a key, an
id and a row; a third adds no new pair. One reconcile worker races the callers
and the Recovery endpoints, and the compare-and-set makes two workers as
exclusive as worker and caller. One recovery (`MaxRecoveryEpoch = 1`) suffices
where the question is a caller against a recovery; two where it is what an
earlier recovery left to a later one. `MaxExecutionEpoch = 2` allows one takeover
or continuation. `MaxRunVersion = 4` allows three control requests on a run.
`execution` has three runs so that a continued run, its successor and a
non-codex run occur. Two writers, two sealers, two slots and two incarnation
changes let a sealer meet a live writer, a dead one, and a restored copy of a
slot sealed or armed before. Two calls with one plan, two pull requests and three
deeds of people let a person open, close and delete between the steps of a call
that another call has overtaken. `qualification` has three people, because author,
verifier and reviewer must differ, and two of each document that can be confused.
`execution` has one edit by Codex, which is what makes a capture stale; five requests
on a connection, which is the whole handshake with one control; a pending table of
two and an event queue of one, so that both overflow. `worker_host` has one message
and two dispatchers under one name, the case in which the owner column does not tell
them apart; two attempts, so that a retry and a dead letter occur, and three claims,
so that an expired lease is taken twice; two generations and two workers with two
names, so that a lease passes to another process of the same and of another name; one
recovery, and one late call. Its hosts have two claims of one continued input with two
context entries, two packers, a replicator and a restorer over two members with two
changes, and an installer with two switchers over two commits, three names and two
rebuilds: two is what it takes for a copy to be of two moments, and for two processes
to want one name. `codex_safety` has three controls, so that two steers
can precede the interrupt the last place is kept for (`codexexec.MaxControls` is
larger; only the order of neighbours and the reserved last place matter), one late
call, one recovery, and a run with its successor, of which the first has an agent.
In `codex_agent_ends` both have one. Symmetry is used in safety runs only.

`execution`, `qualification`, `stale_checkpoint`, `worker_host` and the `codex_` runs
have `CHECK_DEADLOCK FALSE`: a work item that is closed, an agent, an operator command
or a connection that has ended, and a bound that is used up, are the end of these
systems. The ledger runs and `publication` check deadlock; there the GitHub part
may stop and the journal may not.

## Fairness

`recovery_ends`: `WF(Execute(c))`: a request handler that can
take its next step does (Go schedules runnable goroutines; remote calls have
deadlines and return an error). Being lost is possible and not fair. Publisher
steps are weakly fair except the loss of the slot lock. Operators keep asking:
each settlement, proof, authorization and completion that stays possible is
eventually requested. Nothing is assumed of pauses, takeovers, policy revisions,
new requests, Reconcile or of what GitHub and the Publisher's host do to the evidence.
`RecoveryEndsOrDeadEnds` then says that if the platform stays in Recovery under a policy
that has settled and leaves an independent completer, there is again and again some
dead-end row: a row reserved during this very recovery, an open row that is no
publication, a publication without a witness either way, or one whose witness the
Publisher does not vouch for at that time (pull request merged or closed, base moved,
slot of an earlier boot). "Again and again" and not "for ever", since a pull request may
be closed whenever an operator asks and reopened in between.

`codex_agent_ends`: the agent's goroutines are scheduled (`LaunchStep`, `ExitStep`,
`PumpStep`), its calls end because each has a timeout and may fail, the run's
context ends after 14 minutes at the latest (`CancelRun`), and the observer returns
once its context is cancelled. Nothing is assumed of Codex: the turn need not end,
requests need not be answered, the process need not die. The other runs assume no
fairness.

## Proofs

`tlapm` checks every theorem to its last leaf. They hold for any sets of operations,
messages, runs, works, people, handlers, callers and processes, and for any bounds.
What is assumed of the constants is named in the modules: requests and tasks have the
shape of their Go types, the ids of runs and processes are disjoint from `None`, bounds
are naturals, a control limit is at least one, and the two assumptions of `WorkerLane`
about its dispatchers (each has a name; none handles `run.started`). The entries of a
context bundle, the members of an archive and the files of a release are `1 .. n`,
since the code walks them in order. Packers, replicators and restorers are different
processes; that is no restriction, since a job keeps nothing from one to the next. TLC
evaluates these assumptions in the runs.

Each module has one inductive invariant, shown to hold initially and to be kept by
every action, one step of the proof for each; the properties the runs check follow
from it. TLC checked the invariant on the bounds of the module's run first. Where an
action touches several parts of it, a lemma says what the action does to the state
("the row advances", "the caller retires", "the pump moves on") and others say what
such a move keeps.

| module | theorem | property |
|---|---|---|
| `ActionLedger` | `TypeCorrect` | `TypeOK` |
| | `DispatchedAtMostOnce` | `AtMostOneDispatch` |
| | `RecoveryIsComplete` | `RecoveryClosesEarlierEpochs` |
| | `RowsAreFinal` | `ResolvedRowsFinal` (action) |
| | `AbandonedIsTruthful` | `AbandonedHasNoEffect` |
| | `ConfirmedIsTruthful` | `ConfirmedHasEffect` |
| | `NoEffectAfterRecovery` | `NoLateEffect` (action) |
| | `ConfirmationsCount` | `ConfirmationsQualified` |
| | `CompletersAreIndependent` | `IndependentCompletion` |
| | `ReceiptsAreHonest` | `HonestReceipt` |
| | `ContinuedRunsAreSettled` | `ContinuedRunIsSettled` |
| `WorkLifecycle` | `LifecycleTyped` | `TypeOK` |
| | `OneRunAtATime` | `LiveRunIsActive` |
| | `PassesAreEarned` | `PassIsEarned` |
| | `ClosuresStand` | `ClosureStandsOnChain` |
| | `EpochsAreFenced` | `EpochsFence` (action) |
| | `WorksMoveForward` | `WorkMovesForward` (action) |
| | `SubjectsAreUnique` | `SubjectDeliveredOnce` |
| `MemoryStore` | `MemoryStepIsStep` | a step of the store is a step of `WorkLifecycle`, or delivers a subject again |
| | `MemoryStoreSafe` | the invariant of `WorkLifecycle`, and what follows from it |
| `PublisherJournal` | `JournalTyped` | `TypeOK` |
| | `EvidenceTruthful` | `EvidenceIsTruthful` |
| | `PromiseKept` | `KeepsPublicationPromise` (refinement) |
| `GitHubPublication` | `DecisionsAlwaysRespected` | `DecisionsRespected` |
| | `AnswersAlwaysTrue` | `AnswersTrue` |
| `WorkerLane` | `LaneTyped` | `TypeOK` |
| | `SettledByTheHolder` | `SettledByHolder` |
| | `NothingStaleDelivered` | `NoStaleDelivery` |
| | `ReceiptsAreHolders` | `ReceiptIsHolders` |
| | `EngineRunsOnce` | `ExecutedOnce` |
| | `SettledStaysFinal` | `SettledIsFinal` (action) |
| `CodexExecution` | `CodexTyped` | `TypeOK` |
| | `ControlsToldTruly` | `ControlRowsTrue` |
| | `ControlsTakeTurns` | `AppliedInOrder` (action) |
| | `FinishedExecutionsAreClean` | `FinishedIsClean` |
| | `ContinuedRunsAreQuiet` | `ContinuedIsQuiet` |
| | `SealedStaysFinal` | `SealedIsFinal` (action) |
| | `RecoveriesSettleExecutions` | `RecoverySettlesExecutions` |
| `AppServerClient` | `OneReplyEach` | `OneReply` |
| | `StopAnswersEveryone` | `NoCallLost`: after `stop` every call has its answer |
| | `NoTurnIsAGhost` | `NoGhostTurn` |
| `ExecutionRecords` | `RecordsAlwaysReadable` | `RecordsReadable` |
| | `ReadbackAlwaysTruthful` | `ReadbackTruthful` |
| `PreparedWorkspace` | `AcknowledgedStandsAlways` | `AcknowledgedStands` |
| `ArtifactSet` | `RetainedIsAlwaysTrue` | `RetainedIsTrue` |
| `Release` | `InstalledIsAlwaysWhole` | `InstalledIsWhole` |
| | `ActiveAlwaysStands` | `ActiveStands` |

The inductive invariants, and why they are needed:

- **`ActionLedger`**, `IInv`. That an operation is dispatched once rests on a relation
  between callers and rows: a caller past the reservation owns the row, a row still
  PLANNED has no dispatch, and at most one caller stands between `MarkDispatched` and
  `Invoke` (`DispatchInv`). That an abandoned row has no effect needs the Publisher
  too: a caller may be about to invoke only while its row is DISPATCHED, UNKNOWN or
  further, never while it is abandoned without a seal (`SlotInv`, `AbandonInv`); a seal
  ends a slot for good. That nothing happens after a completed recovery needs that
  rows of an earlier epoch can no longer be created (`EpochInv`): admission compares
  the epoch inside the reserving transaction. Independent completion is decided in one
  transaction and used in another; it survives because a reconciler is never
  completing, a policy revision waits for the completions under way, and an epoch that
  was completed takes no settlement any more (`CompletionInv`). The marker of a
  confirmation is exactly as old as the confirmation (`MarkerInv`).
- **`WorkLifecycle`**, `IInv`. A handler holds a snapshot. As long as the stored version
  is the one it read, the stored row is the one it read (`HeldInv`): every write raises
  the version. All commits that compare versions follow from that; the chain behind a
  closure needs in addition what deliveries and reviews stood on when they were inserted
  (`DeliveryInv`, `ReviewInv`), which no later step takes away. `MemoryStore` needs no
  second invariant: its steps are steps of `WorkLifecycle` under the same one, but for
  the second delivery of a subject, which keeps it too.
- **`PublisherJournal`**, `JInv`. What each process knows at each of its steps
  (`WriterKnows`, `SealerKnows`), that the lock holder is one of them (`LockInv`), and
  what the files, the history of writes and the world outside say of each other
  (`SlotInv`). Its core is that a slot which still has the incarnation it was started
  in has lost no file, so an absent intent means that none was ever written. The
  refinement maps each step to a step of `PublicationWitness` or a stutter; `wrote`
  carries it over a restore that loses files.
- **`WorkerLane`**, `LaneInv`. A dispatcher inside its transaction holds the exact lease,
  name and attempt, of the message, alone (`DispatchHolds`); one that has lost its
  connection is no longer inside and is owed nothing (`DetachedSteps`). A worker is in its engine
  only between the one reservation of the execution and any report of its end, and a
  late `finish` was sent after the engine ran (`EngineOnce`).
- **`CodexExecution`**, `CodexInv`. What a control row says of its control (`RowTrue`) and
  in which order controls are claimed (`RowsInOrder`) follows from what the pump has in
  hand (`PumpHolds`) and what the agent has read (`AgentKnows`); a call that was given
  up and may still be applied must say something that stays true until it is (`Told`),
  and its caller has gone on in the meantime (`Past`).
- **`AppServerClient`**, `AInv`. The answer to a call is in one place: still waited for, in
  the hands of the read loop, or in the call's channel (`CallInv`). A completion that
  overtakes the answer to `turn/start` is remembered until that answer comes (`TurnInv`).
- **`GitHubPublication`**, `GitHubInv`. A push or a creation that was accepted, or is still
  on its way, is of a call that found no pull request when it began (`Unpublished`): the
  request in flight has to be in it, since it may be accepted long after its call has
  failed. What a call has in hand is a pull request that exists and whose repository was
  read (`InHand`); it stays so because pull requests are never removed and never change
  their repository (`PullsStay`), whatever else people do to them. As long as
  there is none at all, a call that is about to read the history found the publication
  untouched when it read the branch, which is why it may answer ABSENT (`CallStands`).
- **`ExecutionRecords`**, `AgentInv` and `ReaderInv`. Where the agent is says which phase it
  entered (`PlaceStands`), which phase records and other records exist and with which
  digest (`PhasesStand`, `RecordsStand`), that a checkpoint is of a source no process
  changes any more (`SourceStands`), and that a result Core may know has its bundle
  (`ResultStands`). The reader needs none of that but one consequence: a record is
  written once (`WriteOnce`). What it read is therefore there still or was absent, and an
  absence that is over lies ahead of its second reading; two readings that agree are of
  one moment.
- **`PreparedWorkspace`**, `PreparedInv`. Whoever is between taking and removing the lock
  file has it (`LockIsMine`); only a whole staging directory gets the bundle's name
  (`BundleIsWhole`). What was verified stays so up to the report (`VerifiedStands`), and a
  claim with a receipt has left everything that changes its slot (`ReceiptStands`), the
  cleanup of a failed preparation included.
- **`ArtifactSet`**, `ArtifactInv`. If the members did not all have their pinned bytes when
  the copy ended, the second reading still has a member before it that shows it, or that
  member was written back, which `returned` remembers (`PackStands`). A
  replicator works for a digest that was reported, and its file has that digest before it
  gets a name and never changes afterwards (`SweepStands`, `NamesStand`).
- **`Release`**, `ReleaseInv`. Everything is said of the parent directory as it is and as a
  crash would leave it: what is durable is in place, and an empty active name leaves two
  whole releases (`ParentStands`). For that, what a switch has verified is where its
  renames so far have put it (`SwitchStands`), which its lock protects from other switches
  (`LockStands`), and which installers leave alone, as they only create names that are
  free and never write a member again (`TreesStay`); and the directory an installation made is in
  place, after the sync durably (`InstallStands`, `ReportStands`).

What the proofs changed in the models. The refinement mapping of the journal was a
`CASE` with overlapping guards, whose value TLA+ leaves open although TLC takes the
first; it is an `IF` now. `First` and `Newest` of `CodexExecution` are predicates on a
control, since a choice says nothing when there is none. That no dispatcher handles
`run.started` was a habit of the configuration and is an assumption now: without it
`SettledByHolder` is false. `InstalledIsWhole` was too strong: it promised that every
reported release is durable. `install` verifies its result by path after the sync. With
two installers, a switch may move the first one's directory away and the second one make
a new one under the free name; the first then reports a tree which verifies but whose
entry has not been synced. TLC finds the case with two installers. The run has one, to
keep its states few, so for two the property rests on the theorem alone. The
bytes are promised for every report now, and the durable name for the reporter's own tree.

Only model-checked: `RecoveryEndsOrDeadEnds` and `AgentEnds`, since the prover does not
reach fairness. Every invariant, action property and refinement the passing runs check
is a theorem.

## What the checks found

- `planned_stuck`. An `OBSERVE` request is admitted during Recovery. If its
  caller is lost after the reservation, the PLANNED row blocks completion (it is
  unresolved), and the path that abandons planned rows refuses it, since it takes
  only rows of an earlier epoch (`recovery/action_planned.go:39`). The recovery
  epoch cannot be completed any more.
- `stale_checkpoint`. The checkpoint handler compares the epoch with the run it
  read; the INSERT compares nothing (`core_store.go:862`). A takeover in between
  leaves a checkpoint of the old epoch behind it. The run has no Codex runs
  (`CodexRuns = {}`), so that the trace is the takeover; a continuation does the same.
- `codex_delivered_open`. A run can be completed and delivered while its Codex
  execution is open: neither handler looks at executions. In a recovery the
  execution cannot be abandoned any more, because
  `execution_reconcile.go:97` refuses a run with a delivery, and it stays an
  unresolved fact, so the recovery cannot be completed.

The counterexamples are TLC's; `findings` quotes the lines they disagree with.

## Not modelled

`PROJECT.json` lists every component with its status. Left out of modelled
components: the Publisher's observer journal, token source and TLS configuration; the
kernel sandbox; wire and archive formats, path and ownership rules. Not modelled: the
operator's command line and control client (they build requests for endpoints that
are modelled), evidence builders and configuration checks (validation of documents without protocol state), and
encodings (canonical and strict JSON: digests are modelled as injective).

A crash of the host, which loses what was not synced, is modelled in `Release` and, as
`Reboot` and `Restore`, in `PublisherJournal`. `PreparedWorkspace`, `ExecutionRecords`
and `ArtifactSet` lose processes, not directory entries. For a prepared workspace that is
a limit of the code too: the owner record is not synced (`workspace/manager.go:228`), nor
is the directory in which slot and bundle get their names
(`contextbundle/materializer.go:237`), and `CONTEXT_MATERIALIZATION_V1.md:60-62` claims no
crash durability for the bundle.

The parts of one run are not composed beyond what their modules share. What one
module needs of another is a constant or a free choice there: `Prepared` in
`CodexExecution` is what `WorkerLane` and `PreparedWorkspace` establish, the lease of
`PreparedWorkspace` may go at any time as it may in `WorkerLane`, and the outcome of a
call in `ExecutionRecords` is any that `CodexExecution` has.

One state is known to have no way out and no property: a process that dies while it
publishes a context bundle leaves the lock file behind, and every later claim of the
same input is refused with `ErrBusy` (`contextbundle/materializer.go:176`).
`PreparedWorkspace` reaches it; no document promises otherwise.

## Plan

1. *Algorithms*: plan validation and evaluation against a reference definition. What a
   recursive definition computes for every input is out of the prover's reach; TLC would
   compare over bounded inputs.
2. *Observer journal* of the Publisher.
