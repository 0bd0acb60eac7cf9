# Formal models of dsh-military

TLA+ models, TLC configurations and TLAPS proofs for the dsh-military agent
harness, the TypeScript monorepo in `packages/` of this repository. A *Mission*
is an event stream in SQLite. A *General* (an LLM session) splits it into Tasks
and spawns *departments*, child sessions that work on one Task version each,
submit a Candidate, have it verified and see it merged into `main`. The harness
promises that all this survives crashes, repeated tool calls and children that
die; the models are about those promises.

Every definition is a reading of the source; `PROJECT.json` maps definitions to
lines. The repository's own sketch (`docs/reference/tla/MilitaryCore.tla`,
55 lines of Start, Freeze, Accept and Rework) is not used: it is written from
the design documents and describes no code path.

Contents: [1 Inventory](#1-inventory) ·
[2 Modules and how they correspond to the code](#2-modules-and-how-they-correspond-to-the-code) ·
[3 Runs](#3-runs) · [4 Fairness](#4-fairness) · [5 Proofs](#5-proofs) ·
[6 Disagreements found](#6-disagreements-found) ·
[7 What is not modelled](#7-what-is-not-modelled) · [8 Plan](#8-plan) ·
[9 Running the checks](#9-running-the-checks)

## 1 Inventory

Paths are relative to `packages/`. "Modelled" names the module of this project.

### Components that carry the core logic

| component | state | operations | interacts with | what is hard | correct when | modelled |
|---|---|---|---|---|---|---|
| **Mission command kernel and Saga** `core/src/mission-kernel.ts`, `storage-sqlite/src/ledger.ts` | event stream, operation rows with a lease, receipts, outbox rows; a promise chain per process | submit, admit, run, checkpoint, fail, finalise, take over | every writer of a Mission; the outbox | three transactions around an effect that is in none of them; crashes, expired leases, several processes | one open command per Mission; receipt, outbox row and fence are one fact; equal replies; an admitted command commits | `CommandSaga` |
| **Transactional outbox** `storage-sqlite/src/outbox-dispatcher.ts` | rows with claim, attempts, availability; delivery receipts; partition offsets | enqueue, claim, handle, acknowledge, retry, dead-letter, requeue | the Saga (producer), registered handlers (`plugin-host/src/application-factory.ts`), coordination maintenance (loop) | handlers outside transactions, several loops, late acknowledgements, redelivery | per-partition order, no gaps, fenced loops, everything settles | `OutboxDispatcher` |
| **Execution lifecycle** `core/src/execution-lifecycle.ts` | per Task version: attempts, each with an Activation and a Dispatch, and receipts | reserve, bind, heartbeat, mark, settle, reconcile expired | spawn, child hooks, maintenance | three layers moved by four writers; reconciliation acts on a stale listing | the layers end and advance together; one live attempt; outcomes are final | `ExecutionLifecycle` |
| **Department spawn** `runtime/src/agents.ts`, `plugin-host/src/child-transport.ts`, `host-runtime.ts` | the calls in flight, execution bindings, children of this process, the Task lease | spawn, replay, compensate, clean up a child, heartbeat | lifecycle, task lease, workspaces, budgets | ten awaits with durable writes between them, catch blocks that decide whether a child exists, host crashes, equal calls in parallel | a start receipt proves a child; a failed dispatch had none; a Task has somebody who gives it back | `DepartmentSpawn` |
| **Task runtime and reducer** `core/src/runtime.ts`, `core/src/task-reducer.ts` | the stored Task record; the fold of the events | lease, release, submit, verify, integrate, specs commit; register, block, guide, decide, freeze, complete, cancel | kernel, stores, tools | state decided twice (imperatively and by the fold); effects of several writes; reruns | record and fold agree; states are earned; reruns are idempotent | `TaskLedger`, `TaskRuntime` (partly) |
| **Candidate submission** `tools/src/worker.ts` | a call with its locals; its durable result | submit → read → verify → record → queue → integrate → deliver → specs | Task runtime, verification, integration | goes on after its Agent lost the Task; reads what others wrote | only verified patches are merged | `CandidateSubmission` |
| **Scheduling and waves** `core/src/runtime.ts` | Task states, wave events in the stream, the open command | register, schedule, open and close a wave, complete or cancel a Mission | Task runtime, the Saga | the schedule is several writes at the end of a command; completion is not a command; keys of events used up by an earlier wave | one wave at a time; needs before Tasks; a completed Mission is accepted; every Task gets its turn | `MissionSchedule` |
| **Waits** (blockers, staff radio, guidance, decisions) `storage-sqlite/src/radio-repository.ts`, `decision-repository.ts`, `plugin-host/src/coordination-maintenance.ts` | radio entries and decisions with leases and deadlines; Tasks that wait | request, lease, issue, acknowledge, present, answer, expire, dead-letter | Task runtime, inside and outside the kernel | expiry as a side effect of reads; timeouts racing answers; two stores; lost updates of the record | a wait has one end and a new attempt needs it; nothing waits for ever | `TaskWaits` |
| **Workflow obligations** `core/src/execution-lifecycle.ts` | per General request an obligation with a state and a revision | open, advance, settle | tools, lifecycle | transitions that replay, revisions that moved on | one active obligation per request, ended ones stay ended | no (section 7) |
| **Revision-checked records** `storage-sqlite/src/state-records.ts` | rows with a revision | update (read, compute, CAS), putSync | every repository above | the CAS fails and nobody retries; putSync has none | no lost update | with the budgets, in `ResourceBudgets`; one step elsewhere |
| **Budgets** `storage-sqlite/src/budget-repository.ts`, `plugin-host/src/model-budget.ts`, `tool-authorization.ts`, `tool-pipeline.ts` | reservations, usage, reserved and consumed counters | reserve, settle, expire, revoke, recover | model requests, tool calls, outbox, operator | late and repeated settlements, expiry, CAS failures, crashes | counters are sums, the limit is kept, charged once | `ResourceBudgets` |
| **Tactical ingestion** `runtime/src/ingestion.ts`, `knowledge.ts`, `core/src/tactics.ts` | sources, pipelines with a candidate, review receipts, versions of Skills with their lineage | import, revoke, screen, extract, edit, return, reject, approve, promote | the Knowledge Center, the General, artifact store and model | records written back after awaits; approval compiles outside its transaction; several requests and pipelines at once | what descends from a revoked source is recalled; approved is published; versions are kept | `TacticalIngestion` |
| **Production control** `storage-sqlite/src/production-control.ts` | capacity slots, readiness, backups | admit, release | spawn | at the limit | never above capacity | no (section 7) |
| **Workspaces and integration** `infrastructure/src/workspaces.ts`, `integration.ts` | worktrees, `main`, integration orders | create, patch, execute, recover | candidate submission | crash between merge and receipt | merged once | merge is one step of `CandidateSubmission`; recovery planned |

### How they meet

```
General ─tool─▶ DepartmentSpawn ─reserve/mark─▶ ExecutionLifecycle ◀─heartbeat/settle─ child
                   │ task.lease                        ▲ reconcile (every second)
                   ▼                                   │
child ─tool─▶ submit_candidate ─command─▶ kernel ─effect─▶ TaskRuntime ─append─▶ event stream
                   │                        │ commit                          ─store─▶ Task record
                   └─ git merge             ▼
                                         outbox ─▶ OutboxDispatcher ─▶ handlers
```

The components share state only through SQLite. Concurrency comes from awaits
in one Node process (parallel tool calls, hooks, a maintenance timer), from
several processes on one database, and from crashes. There are three kinds of
durable fencing: the open command of a Mission, the claim of an outbox row, and
the compare-and-swap of revisioned records.

### Other parts

Brainstorm, oversight, capability grants and authorization, the session gate,
compaction, planning and routing, verification rules, tactical tags,
the memory ledger, evaluation, preset generations and the installer, artifacts
and signing, chief-of-staff automation, the tool pipeline, host composition,
the web UI, and contracts/testkit. `PROJECT.json` lists each with its files and
the reason it is left out; section 7 sums the reasons up.

### Hazards

`PROJECT.json` lists what is hard to test in this code, line by line, with the
properties that would notice it going wrong; the note of a hazard says why no
property covers it, or what the properties leave out.

## 2 Modules and how they correspond to the code

| module | what it is |
|---|---|
| `MissionCommands` | abstract: one open command per Mission; its receipt is written once over the stretch of the stream it opened |
| `CommandSaga` | `transactCommand` and the kernel's promise chain; implements `MissionCommands` |
| `MCCommandSaga`, `CommandSagaProofs` | instances; theorems |
| `OrderedDelivery` | abstract: messages settle in commit order within a partition, never twice |
| `OutboxDispatcher` | claim, handle, acknowledge/retry/dead-letter; implements `OrderedDelivery` |
| `MCOutboxDispatcher`, `OutboxDispatcherProofs` | instances; theorems |
| `AttemptHistory` | abstract: the attempts of a Task version follow one another, outcomes are final |
| `ExecutionLifecycle` | the ledger of attempts, open to any caller; implements `AttemptHistory` |
| `DepartmentSpawn` | extends `ExecutionLifecycle` with the callers the code has: spawn, child, reconciliation, crash |
| `MCDepartmentSpawn`, `DepartmentSpawnProofs` | instances; theorems of the ledger, whoever calls it, and of the callers it has |
| `TaskLedger` | the table of Task transitions and the fold of the event stream |
| `TaskRuntime` | extends `TaskLedger`: the Task record, the stream, and the kernel commands that change both, write by write |
| `CandidateSubmission` | composes `TaskRuntime` with the `submit_candidate` tool, the host's lease and release, git, crashes |
| `MCCandidateSubmission`, `CandidateSubmissionProofs` | instances; theorems |
| `TaskWaits` | extends `TaskLedger`: the waits of one Task across its record, the radio and the broker |
| `MCTaskWaits`, `TaskWaitsProofs` | instances; theorems |
| `MissionSchedule` | several Tasks of a Mission in waves, with dependencies: the schedule at the end of a command, completion, cancellation |
| `ResourceBudgets` | one budget scope and its writers, over a row with compare-and-swap |
| `TacticalIngestion` | sources, pipelines, reviews and Skill versions |
| `MCMissionSchedule`, `MCResourceBudgets`, `MCTacticalIngestion` | instances |
| `MissionScheduleProofs`, `ResourceBudgetsProofs`, `TacticalIngestionProofs` | theorems |

**CommandSaga.** One module state = one Mission. A call site submits a command
(`Submit`: reads the revision, chains itself), waits its turn in the process's
chain (`Turn`), and goes through the admission transaction, whose four outcomes
are `AdmitDuplicate`, `AdmitFirst`, `AdmitRetry` and `AdmitApplied`; then
`RunEffect` (outside any transaction), `Checkpoint` or `FailEffect`, and
`Finalize`. Each SQLite transaction is one action, because `BEGIN IMMEDIATE`
serialises them. `ExpireLease`, `Crash` (a process loses its calls and its
chain, the rows stay) and `ForeignAppend` (writers outside the kernel) may come
at any moment. An operation appends one domain event whose key derives from the
command, which is what makes it safe to run twice.

**OutboxDispatcher.** One row per message. `Claim` takes the row the query
selects, the lowest claimable id whose partition has no unsettled predecessor;
`Handle` and `Throw` are the handler; `Ack`, `AckLost`, `Retry`, `DeadLetter`,
`FailLost` are the branches after it, each fenced by worker and attempt as the
UPDATE is. `RequeueStale` is the operator's repair action. The handlers
registered by the host end with a create-only record, so a second run throws:
`recorded` keeps that.

**ExecutionLifecycle.** An attempt has exactly one Activation and one Dispatch,
so `records[n]` holds the three. Each operation's guard is exactly the condition
under which the code neither throws nor answers from what is there (`MayReserve`,
`CanBind`, `CanBeat`, `CanMark`, `CanSettle`). Time is `Expire`. The
reconciliation is two actions, `ListExpired` and `SettleExpired`, since the code
does not look at the lease again when it settles what it listed.

**DepartmentSpawn.** The stages of `call[c].at` are the awaits of the spawn
call: reserve, bind, find or prepare the binding, accept, send (recover the
child, take the Task's lease, admit the first prompt), start; and the two catch
blocks (`Compensate`/`Discard`, `Inspect`/`MarkFailure`). A dispatch key is a
digest that contains the Mission revision, so `Keys` are revisions, and two
calls that read the same revision are equal calls. `HostCrash` loses calls,
listing and children; records, bindings and the Task lease are durable. `shared`
is a history variable, which no guard reads: the keys that two calls have had in
flight at the same time. The code has no table of calls in flight, and what equal
calls do to each other breaks three of the properties (section 6, item 5); these
are stated of every attempt whose key is not shared (`Unshared`). Parallel calls
with other keys, earlier and later calls with the same key, the reconciliation
and crashes are not excepted.

**TaskRuntime / CandidateSubmission.** A kernel command is `Begin` (admitted;
the effect is computed from the record it reads), `AppendEvent` for each event
(deduplicated by key, folded at once), `Store` and `Commit`; `Refuse` is an
effect that throws before it writes, `TurnAway` a command that is not admitted,
`Abort` a crash or an exception between two writes. Each method of
`MissionRuntime` is one operator of its name (`LeaseTask`, `ReleaseTaskLease`,
`SubmitCandidate`, ...) with its early return, its checks, the record it stores
and the events it appends before. The checkpoint
and finalisation of the Saga are one step here; `CommandSaga` has them in
detail, and its `SingleOpenCommand` is what justifies the single `open`. The
tool's stages are the awaits of `submit_candidate`; it is not stopped when its
Agent loses the Task, which is what makes it interesting.
`CONFLICT` stands for every disposition other than `APPLIED`; an empty patch is
refused where patches are made (`infrastructure/src/workspaces.ts:543`) and has
no path here.

**TaskWaits.** One Task and its attempts. An operation of `MissionRuntime` reads
the record (`Load`) and then makes its writes one by one (`AppendEvent`,
`PutTask`); `Places` are the four places where such an operation may be under
way at once: inside the Mission's command, and, outside it, guidance, the
maintenance pass and the acknowledgements. `putTask` has no revision check, so a
later put overwrites an earlier one. The tools of the worker are sequences of
steps (`Tools`); the staff's tool calls, the maintenance pass and the spawn call
each have a place of their own and may be interrupted between their steps. Time
is a parameter: whichever operation looks at the store first finds an arbitrary
set `late` of entries out of time, which is why expiry happens in `Poll` and
`Present` as well as in the pass. `Throw`, `WorkerRefused`, `SpawnRefused` and
`Crash` leave a command open, as the Saga does. Radio entries, question sets and
attempts are named alike, one request and one set per attempt. `Request` is the
request of `submit_blocker`, which comes before its command;
`military_radio_request` makes it inside the command, which is the case that
nobody else's command comes in between.

**MissionSchedule.** `plan` gives each Task its wave, its needs and what it
validates; Tasks are registered in order. `effect` is the stage of the running
effect (`AdvanceWaveBarriers`, `OpenWave`, `MakeReady` are the three parts of
`#scheduleMission`), `open` the command it belongs to; after a crash or a throw
the command is still open and only the same one is admitted. `Replay` is the
early return that skips the schedule. `BeginComplete` and `CompleteMission` are
`completeMission`, which is no command and runs beside one. What happens to a
Task between lease and integration is the single `Verify`; `CandidateSubmission`
has it in detail.

**ResourceBudgets.** All writers of the one row `resource-budget/state`.
`BeginUpdate`/`EndUpdate` are `update` of `state-records.ts`: the next value is
computed from what was read, and the commit throws when the row moved
(`update[w].moved`). `RegisterPolicy` is a `putSync` without that check. A call
goes `reserving → running → ran → settling`, a tool call that could not settle
through the outbox (`BeginDeliver` ..., without the claims that
`OutboxDispatcher` has), a model request that lost its process through
`BeginReconcile`. One counter stands for nine.

**TacticalIngestion.** Every request is cut where the code awaits: `BeginEdit`
and `EndEdit`, `BeginApprove` and `EndApprove`, the stages of `#process`. The
record that was read before an await is carried along (`process[p].rec`,
`call[u].rec`) and written back after it. A candidate stands for its hash, a
bundle for a version of a Skill with `by`, `text` and `lineage`. The user's
decisions RETURN and REJECT are one transaction (`Decide`). `Snapshot` contains
the registration of the source in the tactical knowledge store
(`Unregistered`), which is part of its transaction: a second snapshot of a source
is refused and rolled back, and its pipeline fails.

## 3 Runs

| run | module / cfg | question | properties | distinct states |
|---|---|---|---|---|
| `saga` | `MCCommandSaga` / `CommandSaga.cfg` | Two processes, two keys, two payloads: is a command's commit one fact, whoever crashes or takes over? | `RepliesAgree`, `ReceiptsOwnTheirEvents`, `EventsOnce`, `OnlyLeaseHolderSettles`, `ImplementsPromise` | 216,810 |
| `saga_live` | `MCCommandSaga` / `CommandSagaLive.cfg` | Two calls chained in one process, one in another: does every call return and every admitted command commit? | `EveryCallReturns`, `AdmittedCommits` | 57,573 |
| `outbox` | `MCOutboxDispatcher` / `OutboxDispatcher.cfg` | Two partitions, two loops: order, receipts, fences; does every message settle? | `TypeOK`, `EffectsInOrder`, `ReceiptsAreProof`, `StaleLoopsAreFenced`, `ImplementsPromise`, `EveryMessageSettles` | 122,457 |
| `department_spawn` | `MCDepartmentSpawn` / `DepartmentSpawn.cfg` | Two spawn calls in parallel, equal or not, without crashes: do verdicts, bindings and leases agree with the children? | `StartProvesChild`, `LeaseBeforeChild`, `FailedHadNoChild`, `ExecutingIsAttended`, `LiveChildHasBinding` | 2,772,052 |
| `department_spawn_alone` | `MCDepartmentSpawn` / `DepartmentSpawnAlone.cfg` | One call at a time, with a crash or a failed release: the ledger's promises under its real callers, and the liveness of attempts | `FailedHadNoChild`, `SilentAttemptsEnd`, `KeepsAttemptHistory` | 63,935 |
| `candidate` | `MCCandidateSubmission` / `CandidateSubmission.cfg` | Two attempts with a Candidate each, crashes at every write: do record and stream agree, are states earned? | `RecordFollowsLedger`, `ProvenStates`, `RerunsAreIdempotent` | 438,222 |
| `unverified_merge` | `MCCandidateSubmission` / `UnverifiedMerge.cfg` | Are only verified patches merged? | `OnlyVerifiedPatchesMerge` — violated | |
| `task_waits` | `MCTaskWaits` / `TaskWaits.cfg` | A Task that waits for guidance or an answer, with everything that races it: does a wait come to one end, and is it given something before the next attempt? | `OneEnd`, `WaitsAreEnded`, `CancellationIsProjected`, `RequestsDoNotLinger` | 430,529 |
| `mission_schedule` | `MCMissionSchedule` / `MissionSchedule.cfg` | All plans of three Tasks over two waves: order of waves and needs, completion, progress | `WavesAreSequential`, `NeedsAreAccepted`, `CompletedIsAccepted`, `OrderlyTasksGetTheirTurn` | 106,093 |
| `resource_budgets` | `MCResourceBudgets` / `ResourceBudgets.cfg` | A model request and a tool call at the limit: do the books balance whatever conflicts, expires, is revoked, redelivered or recovered? | `BooksBalance`, `LimitIsKept`, `ChargedOnce`, `ToolsAreCharged` | 545,868 |
| `tactical_ingestion` | `MCTacticalIngestion` / `TacticalIngestion.cfg` | Two sources, pipelines and requests: revocation, approval and versions under every order of awaits | `RevokedIsQuarantined`, `ApprovedIsPublished`, `VersionsAreKept`, `RevocationStands` | 2,345,823 |
| `revived_source` | `MCTacticalIngestion` / `RevivedSource.cfg` | Is a revocation final, also one before the first snapshot? | `RevocationIsFinal` — violated | |

Each property of a passing run has a mutant in `PROJECT.json`: a plausible bug
in one mapped definition under which TLC finds that property violated. The
bodies of the mutants are the definitions just before the ones they replace.

Other configurations are not in the list of runs. They reproduce the
disagreements of section 6 that have no run: `OutboxRedelivery.cfg`,
`OrphanedLease.cfg`, `ReplayedSpawn.cfg`, `UnreadableHistory.cfg`,
`SilentExpiry.cfg`, `LateGuidance.cfg`, `ClosedWave.cfg`, `StalePolicy.cfg` and `LostRejection.cfg`;
TLC finds the property of each of them violated. The type invariants of
`CommandSaga` and `ExecutionLifecycle`, and invariants such as
`SingleOpenCommand`, `CommittedOnce`, `OffsetsHaveNoGaps`, `DeadLettersWereTried`,
`LayersEndTogether`, `EndedStaysEnded`, `OnlyNewestAttemptLives` and
`ChargesAreSettled`, are proved (section 5) and no longer
model-checked; the type invariants of the other modules can be added to their
configurations, and hold.

### Bounds, and why they are enough

* **Saga**: two keys show every interference between an open command and
  another; two payloads show the fingerprint checks; one process per caller
  (`saga`) or a chain of two and a competitor (`saga_live`); three command ids,
  recycled when nobody compares them any more (a uuid differs from every held
  one); one foreign append, which is enough to move the revision and to sit
  inside a stretch. The log is finite because appends are idempotent.
* **Outbox**: two messages in one partition and one in another show order and
  independence; two loops show the race of a late acknowledgement;
  `MaxAttempts` 2 (12 in the code) shows a retry and a dead letter; `MaxClaims`
  2 bounds the claims that run out or lose their worker: the second claim of a
  message ends by itself. (With 3, and without liveness, 351,141 states, with the
  same result.)
* **Spawn**: two dispatch keys give two attempts, the least in which one may
  disturb another; two callers are the least that may be equal. `MaxRevision` 2
  stands for every later revision, in which no modelled call begins. With two
  callers faults are left out (`MaxFaults` 0), with one caller there is one
  fault, a crash or a failed release. (Two callers with one fault, 9,428,274
  states, have been checked by hand with the same result.) `ChildOutcomes` are the ends cleanup
  settles with; in the parallel run one stands for all.
* **Candidate**: two attempts, one Candidate each, two verifications. This has
  every order of losing and retaking the Task during a submission. An instance
  with two drafts per Agent and one verification (3.6 million states) has been
  checked by hand with the same result; it is too slow to be kept.

* **Waits**: two attempts, of which the first asks: one that waits and one that
  follows. `MaxTries` 1 gives a lease that is taken back and a request that is
  given up (the code has 3). The staff is the General alone; an advisor does a
  part of what the General does.
* **Schedule**: three Tasks in two waves are the least with an order inside a
  wave and across; every assignment of waves with every choice of needs and validations
  among earlier Tasks is an initial state (`MCPlans`, 108 of them). One crash.
* **Budgets**: limits of one and two reservations and a half (`Grant` 2,
  `Limits` 3 and 4), a call that uses less and one that uses more than it
  reserved (`Actuals` 1 and 3), two deliveries, one crash, one process that
  starts.
* **Ingestion**: two sources, one of which descends from the other's version
  by supplement; two pipelines and two requests of the user, which is what any
  race needs; screenings that warn, pass and fail. Runs of `#process` are bounded
  to three over both pipelines, with one fault.

All runs but the Saga's say `CHECK_DEADLOCK FALSE`, since these systems stop
when their work is done or their bounds are reached.

## 4 Fairness

* **Saga** (`Scheduling`): weak fairness of each call's steps (Node runs every
  promise that can go on, operations end) and of the clock passing a lease. This
  is enough for `EveryCallReturns`. `AdmittedCommits` needs more, and says so in
  its own antecedent: `Recovery(k)` is the contract of the callers, which submit
  an unsettled command again and again, whose turn comes again and again, and
  whose operation does not fail for ever. The code has no recovery loop of its
  own for commands: that the property needs this antecedent is a statement about
  the code.
* **Outbox**: weak fairness of each loop (coordination maintenance runs one
  every second), of claims running out and of backoffs ending. A crash and a
  throwing handler need no fairness and are never required.
* **Spawn** (`Fairness`): weak fairness of the clock, of the reconciliation
  (coordination maintenance), and of a spawn call that has begun. Nothing is
  assumed of children, of the Mission or of the General: `SilentAttemptsEnd`
  holds for a child that hangs.
* **Waits**: strong fairness of the two listings of the maintenance pass when
  the clock has passed every deadline, and weak fairness of the rest of the pass
  (a timer runs it; a deadline that lies behind is found by it or by somebody
  else). Strong, because the pass starts again whenever it failed. Nothing is
  assumed of workers, staff or user: `RequestsDoNotLinger` holds without them.
* **Schedule**: weak fairness of effects (Node runs them on; a command left open
  by a crash needs its caller, so `OrderlyTasksGetTheirTurn` asks for a behaviour
  without crashes), strong fairness of leases, of a verification that passes and
  of integration: the workers do their work. Its antecedents name what the code
  does not provide for: a plan in which a Task needs one of a later wave
  (`Forward`), and a Task registered into a wave that has been closed (`Late`).
* **Budgets**: weak fairness of a tool call's settlement and of the outbox.
* **Candidate, Ingestion**: only safety is stated, without fairness.

## 5 Proofs

TLAPS proves the following for every value of the constants: any number of
keys, processes, messages, loops, attempts, Tasks, calls, sources and Agents. The
assumptions are named in the modules. Most say only what the constants are
(`SagaAssumption`, `DispatcherAssumption`, `NTasksAssumption`, `PlansAssumption`,
`AttemptsAssumption`, `AmountsAssumption`, `FindingsAssumption`, `NChunksAssumption`,
`ReceiptsAssumption`) and that `None` and the names of writers are no values
(`NamesAssumption`, `WritersAssumption`, the `NoneAssumption`s). `CallersAssumption`
says that senders of commands are told apart by their identity. Two carry
something of the code: `KeysAreRevisions` (a dispatch key is made of a Mission
revision) and `OutcomesAreEnds` (a child ends in a state the ledger counts as an
end). `ExecutionLifecycle` needs none.

| module | theorem | statement |
|---|---|---|
| `CommandSagaProofs` | `TypeCorrectness` | `Spec => []TypeOK` |
| | `ChainSerialises` | `Spec => []OneCallPerProcess` |
| | `OneOpenCommand` | `Spec => []SingleOpenCommand` |
| | `CommitIsAtomic` | `Spec => []CommittedOnce` |
| | `CheckpointPrecedesFinal` | `Spec => []FinalizerFindsCheckpoint` |
| | `IdempotentReplies` | `Spec => []RepliesAgree` |
| | `EventsAreAppendedOnce` | `Spec => []EventsOnce` |
| | `ReceiptsAreExact` | `Spec => []ReceiptsOwnTheirEvents` |
| | `LeaseHolderSettles` | `Spec => OnlyLeaseHolderSettles` |
| | `Refinement` | `Spec => ImplementsPromise` |
| `OutboxDispatcherProofs` | `TypeCorrectness` | `Spec => []TypeOK` |
| | `OrderedEffects` | `Spec => []EffectsInOrder` |
| | `GaplessOffsets` | `Spec => []OffsetsHaveNoGaps` |
| | `HonestReceipts` | `Spec => []ReceiptsAreProof` |
| | `TriedDeadLetters` | `Spec => []DeadLettersWereTried` |
| | `FencedLoops` | `Spec => StaleLoopsAreFenced` |
| | `Refinement` | `Spec => ImplementsPromise` |
| `DepartmentSpawnProofs` | `TypeCorrectness` | `Spec => []TypeOK` |
| | `EndTogether` | `Spec => []LayersEndTogether` |
| | `AdvanceTogether` | `Spec => []LayersAdvanceTogether` |
| | `NewestLives` | `Spec => []OnlyNewestAttemptLives` |
| | `EndedForGood` | `Spec => EndedStaysEnded` |
| | `HistoryKept` | `Spec => KeepsAttemptHistory` |
| | `LedgerIsKept` | `SpawnSpec => Spec` |
| | `HistoryIsKept` | `SpawnSpec => KeepsAttemptHistory` |
| | `CallersTypeCorrectness` | `SpawnSpec => []SpawnTypeOK` |
| | `LeaseComesFirst` | `SpawnSpec => []LeaseBeforeChild` |
| | `StartReceiptHasChild` | `SpawnSpec => []StartProvesChild` |
| | `FailedIsChildless` | `SpawnSpec => []FailedHadNoChild` |
| | `RunningChildIsBound` | `SpawnSpec => []LiveChildHasBinding` |
| | `ExecutingTaskIsAttended` | `SpawnSpec => []ExecutingIsAttended` |
| `CandidateSubmissionProofs` | `CandidateTypeCorrectness` | `Spec => []TypeOK` |
| | `RecordAndProjectionAgree` | `Spec => []RecordFollowsLedger` |
| | `AppliedEffectsMayRunAgain` | `Spec => []RerunsAreIdempotent` |
| | `AcceptedIsProven` | `Spec => []ProvenStates` |
| `MissionScheduleProofs` | `TypeCorrectness` | `Spec => []TypeOK` |
| | `SequentialWaves` | `Spec => []WavesAreSequential` |
| | `NeedsFirst` | `Spec => []NeedsAreAccepted` |
| | `CompleteIsDone` | `Spec => []CompletedIsAccepted` |
| `TaskWaitsProofs` | `WaitsInvariant` | `Spec => []WaitsInv` |
| | `TypeCorrect` | `Spec => []TypeOK` |
| | `EndsAreOne` | `Spec => []OneEnd` |
| | `CancellationStays` | `Spec => []CancellationIsProjected` |
| | `WaitsEndFirst` | `Spec => []WaitsAreEnded` |
| `ResourceBudgetsProofs` | `BudgetTypeCorrectness` | `Spec => []TypeOK` |
| | `CountersBalance` | `Spec => []BooksBalance` |
| | `LimitHolds` | `Spec => []LimitIsKept` |
| | `SettledIsCharged` | `Spec => []ChargesAreSettled` |
| | `ChargesAreFinal` | `Spec => ChargedOnce` |
| `TacticalIngestionProofs` | `IngestionTypeCorrectness` | `Spec => []TypeOK` |
| | `RevocationReachesVersions` | `Spec => []RevokedIsQuarantined` |
| | `ApprovalPublishes` | `Spec => []ApprovedIsPublished` |
| | `VersionsStand` | `Spec => VersionsAreKept` |
| | `RevocationIsKept` | `Spec => RevocationStands` |

**Saga.** Even the types need an invariant: `Return` takes the head of a chain,
which is only a chain without the caller if the caller *is* the head. So
`TypeInv` joins `TypeOK` with `ChainInv` (a chain holds exactly the calls in
flight of its process, each once, and whoever is past admission is its head) and
`RowInv` (an admitted row has its payload, a checkpointed one its result).
`SagaInv` then has what the theorems state, and `RepliesQuoteReceipts`: every
reply given is the receipt that is there, which `RepliesAgree` (a statement on
pairs of replies) is not strong enough to carry. One lemma per action and half.

What a receipt covers is a stretch of the event stream, and other Missions' and
processes' events stand in it. `StreamInv` gives every command its stretch, from
`prev`, where it was admitted, to its receipt or to the end of the stream while it
is open: nothing of a command is before its stretch, every domain event in a
stretch is its command's, and two stretches do not overlap. That a command's
stretch begins after the last one's has ended rests on `SingleOpenCommand`. The
refinement maps the open command to its `prev`; admission is the abstract open,
an append of any process extends the stream, finalisation is the settlement, and
everything else, retries, takeovers and crashes included, is a stutter.

**Outbox.** The order of effects follows from one idea: whatever a loop holds or
has recorded is *at the front* of its partition (`AtFront`: nothing pending
precedes it), and it stays there, for new rows go to the back and settled rows do
not become pending again. `Placed` says that ids are given once, `Claims` that only pending
rows are claimed, `Jobbed` and `Recorded` carry `AtFront`. The refinement follows
from the same invariant: a row that settles is at the front.

**Lifecycle.** The invariant is local: each record is `Sound` (its layers end
and advance together, and only a live activation has a lease), and every
operation replaces one *live* record by a sound one of the same key (lemma
`OneRecord`). From that single lemma follow the invariant, `EndedStaysEnded` and
the refinement. `ExecutionLifecycle!Spec` lets any caller do anything at any
time, so the theorems hold whatever the callers do.

**Spawn.** `LedgerIsKept` shows it of the callers the code has: each step of a
call, a child, the reconciliation or a crash leaves the ledger alone or is a step
of `ExecutionLifecycle` (`HostCrash` is `Abandon`), and so every theorem of the
ledger holds of `SpawnSpec`. `CallersInv` is what holds for any number of calls:
a call that has gone past a stage has left the trace the next one relies on (the
lease before the prompt, the child before the start receipt), and no other call
takes it back. The last three theorems also hold for any number of callers. When
two calls are equal they share one attempt, and when the second is denied its
catch block discards what the first has made (`ReplayedSpawn.cfg` shows it); so
the theorems speak of the attempts that are `Unshared`, and of those under every
interleaving. `KeyInv` is the reason they can: a call works on the attempt of its
key, and equal calls that are under way together have been noted, so that two
calls on one unshared attempt are one and the same (`OnlyCall`). Since `shared`
only grows, an attempt that is unshared now has always been (`UnsharedBefore`).
`UnsharedInv` then follows that one call: what it has established for its attempt
(the binding, the acceptance, the lease, the child) is undone by nobody but
itself, the child's cleanup or a crash, whatever calls for other attempts do.

**Candidate.** Record and projection are two computations of a Task's state, and
between them lie several writes and a crash at any of them. The invariant looks
ahead instead of back: what the open command has still to append takes the
projection, from wherever it is, to the state of the record it will store
(`OpenEnds`), also when it is run again from its beginning. For this every event
but `task/resumed` and `task/activation-settled` must belong to one command
(`StreamIsOwned`), or an append would be taken for somebody else's and skipped; a
resumption may be skipped, for the lease that follows it ends in EXECUTING or
breaks the fold from anywhere, and a settlement is appended by a host that has
looked for it. The
proof goes operation by operation through what `runtime.ts` and `task-reducer.ts`
say of the same move (`FreshEnds`). An applied effect is `Rerunnable` (it is
recognised, or its record and events are there already), but a release is not:
after it, its own guard refuses. `ProvenInv` carries `ProvenStates` through late
calls. A verification in the record is never replaced by another Candidate's;
each Candidate is submitted once, since its command commits once; so a Candidate
that has been left behind is never the Task's again, and a call that goes on for
it finds nothing it may change (`Tip`, `Fine`, `Due`). That the tool may then
integrate a Candidate nobody verified (finding 1) does not contradict this: its
patch is in `main`, but `recordIntegration` refuses it.

**Schedule.** That Tasks of two waves are never under way at once is not
inductive: a Task may be under way while its wave is no longer active only if
this cannot happen, so the invariant `Inv` says that there is at most one active
wave (`OneWave`) and that whatever is under way belongs to it
(`StartedInActive`). A wave is closed only when all its Tasks are accepted, but a
Task may be registered into it at that moment: `RegistersNew` says that a Task
which is being registered is not recorded yet, and `CompletionIsAlone` that the
General, who completes a Mission, is not registering meanwhile. `NeedsFirst`
rests on `Validatable` and `ACCEPTED` never being left, `CompleteIsDone` on the
check in the same step as the event. The oldest of a set of Tasks exists by the
well-foundedness of the naturals (lemma `OldestIsOne`).

**Waits.** Up to four operations of the runtime are half done at once, and each
will still write what it read and decided earlier. So the invariant `WaitsInv`
speaks of an event that is `Known`: told by the stream, or still among the
writes of some operation. `EndsInv` says that whatever is known of the end of a
wait is what its store has decided, and the stores do not decide again (lemmas
`RadioMoves`, `BrokerMoves`): `OneEnd` is its visible part. `CancelInv` says that
a record with CANCELLED, or the end of the Mission, is stored or about to be
written only after `task/cancelled` has been folded, or with that event as the
next write; it needs nothing of `putTask`, which may well overwrite the record.
`WaitsAreEnded` is the hard one. `OrderInv` states it of every attempt that may
still become one that waits (`MayBeWorker`: the record, or one that is still to
be put, names it as the worker), and to keep it when an attempt is leased one
has to know that the Task was not READY because of a lost update alone:
`QuietInv` describes the time *before anything was heard*, in which no
acknowledgement is under way, the only guidance under way is one about to be
told, and the record of a Task that waits cannot be overwritten by one that is
free. `LifeInv`, `AskedInv` and `CommandInv` supply what it rests on: attempts
start in order, each after its lease, only the one that leased asks, and which
command is under way says what it will put. That a Task whose own request was
answered is what goes on is *not* so, and the property says "its own or an
earlier attempt's" for this reason; `LateGuidance.cfg` shows the case.

**Budgets.** `BooksBalance` relates counters to sums over all calls. A sum
(`MapThenSumSet`) is a recursive definition behind a `CHOOSE`, and what the proofs
need of it, that it is 0 over nothing and that adding or changing one summand
adds or changes the sum by as much, is proved first, by taking a smallest
counterexample instead of by induction (lemmas `Inductive` to `SumAdd`). Then every pure change of the
record keeps it `Balanced`; and since an update is computed from a record that
was read earlier, the updates under way have to be balanced themselves
(`UpdatesKept`), and one that was computed from a record that has changed since
is refused by the compare-and-swap, except `registerPolicy`'s, which puts an old
but balanced record back. `ChargedOnce` says precisely this exception.

**Ingestion.** Requests and processes keep records over their waits and write
them back. So what is approved must be published not only in the store but in
every copy that may still be written (`PipelinesPublished`,
`ProcessesPublished`). An approval commits only when its source is still usable,
in the same transaction in which the version is stored, and a revocation recalls
whatever descends from the source at that moment; a version that descends from a
revoked source therefore never begins its life after the revocation. Versions
are only added, since a new one has a number no version of its Skill has. A
revocation that has reached versions is not taken back (`RevocationIsKept`),
because only a first snapshot writes the status, and a version's sources have all
been snapshotted: `SnapshotsInv` follows that through every record that waits to
be written back.

**Only model-checked**: the liveness properties, which are out of the prover's
reach (`EveryCallReturns`, `AdmittedCommits`, `EveryMessageSettles`,
`SilentAttemptsEnd`, `RequestsDoNotLinger`, `OrderlyTasksGetTheirTurn`,
`ToolsAreCharged`); and the properties the code violates, of which
there is a counterexample instead.

## 6 Disagreements found

Two runs are expected to fail. Each checks one sentence of the repository's
docs or tests against what the code does; `PROJECT.json` ("findings") quotes
both.

1. `unverified_merge`: only accepted patches are to be applied to `main`.
   `submit_candidate` takes the verification in the Task record for that of its
   own Candidate, and nothing clears it when a new Candidate is submitted. After
   an accepted Candidate whose attempt is lost before its integration, the next
   Candidate is merged unverified.
2. `revived_source`: a revoked source stays revoked
   (`tests/private-skill-supply-chain.test.ts:993`) and no new guidance follows
   from it (`docs/docs/47-tactical-knowledge-supply-chain.md:167`). `snapshot` does
   not look at the status; it writes the source record it read back as SANITIZED.
   A source that is revoked between `startExtraction` and the end of its first
   snapshot is usable again, although the revocation was answered with
   REVOKED_BEFORE_SNAPSHOT, and what is extracted from it can be approved. A later
   snapshot cannot do this (`RevocationStands`): `registerSource` refuses it, and
   the transaction is rolled back.
The next ones have a configuration but no run:

3. `OutboxRedelivery.cfg`: the runbook calls redelivery idempotent
   (`docs/docs/24-operations-runbook.md:159`). The registered handlers end with a
   create-only record that contains the time, so a message that is delivered
   again after its handler took effect throws on each attempt, holds its
   partition up and is dead-lettered although it took effect.
4. `OrphanedLease.cfg`: the runbook's recovery looks for Tasks whose lease has
   run out (`:199`). Nothing reads `leaseExpiresAt`; after a crash the attempt
   ends as LOST while the Task stays EXECUTING under a dead worker, and no later
   attempt can lease it, unless the very same spawn is repeated.
5. `ReplayedSpawn.cfg`: replaying a dispatch is called read-only
   (`docs/docs/69-execution-liveness-flash-and-production-readiness.md:74`,
   `tests/execution-lifecycle.test.ts:305`). The second of two equal spawn calls
   in parallel asks for ACCEPTED on a STARTED dispatch, is denied, and its catch
   block marks the dispatch RECOVERY_REQUIRED: the activation of the running
   child is LOST.
6. `UnreadableHistory.cfg`: the projection can be rebuilt from the events
   (`docs/docs/15-event-sourcing-and-state.md:124`). A verification that fails
   because its Agent was stopped appends an event that is illegal in the state
   the Task is in by then; from then on the Mission cannot be read.
7. `SilentExpiry.cfg`: the reconciliation of deadlines produces an expired
   outcome (`docs/docs/69-execution-liveness-flash-and-production-readiness.md:116`).
   When `pending` or `presentNext` looks at the broker first, they expire the
   question set, `reconcileExpired` lists nothing any more, and the Task waits for
   a decision that cannot come.
8. `LateGuidance.cfg`: before guidance is delivered, the generation and lease of
   the Agent that asked are checked (`docs/docs/11-staff-radio.md:100`).
   `applyGuidance` looks only at the version of the Task and at BLOCKED. When the
   attempt that asked ends between its request and its blocker
   (`tools/src/worker.ts:655`), the next one may block for a reason of its own and
   be given the guidance that the attempt before it asked for.
9. `ClosedWave.cfg`: deadlocks and waves that cannot be left are to be detected
   (`docs/docs/23-risk-register.md:33`). A Task registered into a wave that has
   been closed makes `#scheduleMission` append `wave/opened` again under a key
   that is used up: at best nothing happens, and when the wave was opened by the
   General the append conflicts and its command can never commit.
10. `StalePolicy.cfg`: the budget is one snapshot changed by compare-and-swap
   (`storage-sqlite/src/budget-repository.ts:47`). `registerPolicy` reads it and
   puts it back without a check; a settlement by another process in between is
   undone.
11. `LostRejection.cfg`: only the user makes "the irreversible review decision"
    (`tools/src/general.ts:459`). `editCandidate` writes the record it read before
    it stored the new text; a rejection decided meanwhile is gone.

Smaller observations, in the models or listed as hazards, without a run: a
dispatch that was reserved but never bound before a crash is skipped by the
reconciliation and locks its Task; two equal spawns in parallel may discard the
binding of the running child (this is why `LiveChildHasBinding`,
`FailedHadNoChild` and `ExecutingIsAttended` except the attempts of such calls);
`settleActivation` takes a dispatch from ACCEPTED to SETTLED, a step the
transition table does not have; a `task.lease` command is answered from its
receipt even after the lease was released; a refused effect leaves its command
RETRYABLE, which blocks the Mission until the same command is sent again and
succeeds; `releaseTaskLease` is not idempotent, so that a crash between its
record and its receipt leaves a command that can never commit; the random
receipt ids of verifications have the same effect on the record command; a
request given up by any other operation than the maintenance pass leaves
`pendingRadioRequestId` in its Task; a Task that needs one of a later wave waits
for ever, which the planner does not refuse; a `task/created` that crashed before
its schedule is replayed without it, and waits for the next command that
schedules; the settlements of all scopes contend for one row, and a model request
that loses the race is settled, if at all, when its agent starts again, while a
reservation that loses it refuses the call; what a call used is not charged when
its reservation expired first; two supplements of the same version cannot both be
approved, since the second compiles to the version number of the first; a second
extraction of a source that has been snapshotted always ends FAILED, with
IDEMPOTENCY_CONFLICT.

## 7 What is not modelled

* Not yet: workflow obligations, capacity control, the recovery of integration
  orders, `freezeAgent`, brainstorms, compaction attempts, preset generations.
  They are separate components with one record or one directory each; nothing in
  the present modules depends on them beyond an outcome.
* Pure computations whose result no interleaving changes: planning, routing,
  context compilation, templates, verification rules, tags, analytics.
* Boundaries: the LLM sessions and git are nondeterministic outcomes; SQLite is
  taken at its word (transactions are atomic and serialised).
* User interface, settings, remotes, installer, contracts and fixtures.
* `proposeCandidate`, `cancelTask`, `releaseAgent` and `rejectCandidate` have no
  caller in production code.
* Within the modelled components: `WAITING` activations (no operation writes
  them), cancelling a whole Mission during a spawn (`TaskWaits` and
  `MissionSchedule` have it), budgets and Skill usage of a submission, Tasks without a workspace, more than one `submit_candidate` call
  of an Agent at a time; in the budgets nested scopes and `discard`; in the
  ingestion expiry and purposes of rights, several processes, and the search.

## 8 Plan

Modules, in this order:

1. `IntegrationRecovery`: the executor of `infrastructure/src/integration.ts`
   with a crash between merge and receipt; `CandidateSubmission`'s one-step merge
   is its abstract specification.
2. `WorkflowObligation`: small; with the lifecycle's store.
3. `HostCapacity`: admission and release around a spawn
   (`storage-sqlite/src/production-control.ts`).
4. `freezeAgent` as a writer outside the kernel, in `TaskWaits`.

Proofs: every safety property of the passing runs is proved. What is left is to
be proved of the modules to come, and, of those here, the one-step merge of
`CandidateSubmission` as the specification `IntegrationRecovery` implements.

## 9 Running the checks

In this directory, for example:

    tlc -workers 2 -config CommandSaga.cfg MCCommandSaga
    tlapm CommandSagaProofs.tla

`PROJECT.json` ("runs") lists module and configuration of each run, whether it
is expected to pass, and its properties.
