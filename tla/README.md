# Verification of crewswarm's task execution

TLA+ models of how crewswarm hands out work to its agents and of how its
command-line tool, crew-cli, carries work out; the TLC runs that check them on
small instances; and proofs of the main results that the TLA+ proof system
(TLAPS) checks for every instance. Paths are relative to `src/`.

## 1. The system

crewswarm is a set of Node.js processes on one host, and a command-line tool
that can do without them.

| Part | Code | State it keeps | Operations |
|---|---|---|---|
| RT bus | `scripts/opencrew-rt-daemon.mjs` | connected sockets, their agent name and subscriptions; append-only channel logs | hello, subscribe, publish (to one agent or broadcast), ack |
| crew-lead | `crew-lead.mjs`, `lib/crew-lead/*` | `pendingPipelines`, `pendingDispatches`, `pipelines/<id>.json`, timers | chat and HTTP start pipelines; `dispatchPipelineWave`, `checkWaveQualityGate`, `checkDispatchTimeouts`, `resumePipelines`, `cancelAllPipelines` |
| RT router of crew-lead | `lib/crew-lead/ws-router.mjs` | its socket, reconnect timer | task.done, task.failed, task.in_progress, reconnection |
| agent daemon (one process per agent) | `gateway-bridge.mjs`, `lib/bridges/gateway-ws.mjs`, `lib/engines/rt-envelope.mjs` | the RT client, handlers under way, retry timers, heartbeats | run a task, retry, escalate |
| dispatch guard | `lib/agents/dispatch.mjs` | `<key>.lease/lease.json`, `<key>.done.json`, shared by all daemons | acquire, renew, release, mark done |
| dead letter queue | `lib/runtime/dlq.mjs`, `scripts/dlq-replay.mjs` | one file per task | write, list, delete, replay |
| startup guard | `lib/runtime/startup-guard.mjs` | one PID file per service | acquire, clean up |
| PM loop | `pm-loop.mjs` | `ROADMAP.md`, a stop file, counters | take an item, mark it, retry, extend the roadmap |
| work-graph executor of crew-cli | `crew-cli/src/pipeline/unified.ts` | batches, lanes, results | run units in dependency order, review, fix, flush |
| sandbox and edit tools of crew-cli | `crew-cli/src/sandbox/index.ts`, `crew-cli/src/tools/gemini/crew-adapter.ts` | staged changes per branch | edit, append, write, apply, roll back |
| run engine of crew-cli | `crew-cli/src/engine/*`, `crew-cli/src/executor/agentic-executor.ts` | turns, goals, failures, history | turns of a model, gates, verification cycles |
| worktrees | `lib/crew-lead/worktree.mjs` | git worktrees and branches per agent | create, merge, clean up |
| sessions | `lib/sessions/session-manager.mjs` | one JSON file per tmux session | create, lock, unlock, hand off |
| spending, CLI tracking, logs | `lib/runtime/spending.mjs`, `lib/cli-process-tracker.mjs`, `lib/runtime/log-rotation.mjs` | JSON files | read-modify-write |
| engines and tools | `lib/engines/runners.mjs`, `lib/tools/executor.mjs`, `lib/approval/policy-manager.mjs` | child processes, pending approvals | run an engine or a command with a timeout |
| unified orchestrator | `unified-orchestrator.mjs`, `lib/pipeline/manager.mjs` | phase files | a second, sequential way to run phases |
| front ends | dashboard, `telegram-bridge.mjs`, `whatsapp-bridge.mjs`, the rest of `crew-cli/`, `apps/` | user interface | clients of crew-lead and the bus |

How they interact. A user's request makes crew-lead create a *pipeline*: a
sequence of waves, each a list of steps. crew-lead publishes one
`command.run_task` per step of the current wave on the bus. The agent's daemon
acquires the task's lease, runs an engine, records the task as done and
publishes `task.done`. crew-lead counts the reply for the pipeline's current
wave; the reply that empties the wave runs the quality gate, which advances the
pipeline, retries the wave, inserts a fixer wave, or stops it. In parallel an
interval times out dispatches, retries wait in timers, and either connection to
the bus may break at any time. The services guard themselves against second
instances when they start.

The PM loop drives agents on its own, one item of `ROADMAP.md` at a time; the
file is its only memory, and people and the dashboard edit it while it runs.

crew-cli plans a request into a *work graph* and executes it in its own process.
Batches of units run on a few lanes; each unit is an agentic worker, that is a
run of the run engine, whose tools edit through the one sandbox all workers
share. A reviewer may send a unit back. At the end the sandbox is flushed to
disk, and in the meantime every shell command flushes it too.

What is hard, and what makes each part correct:

* *Dispatch guard.* Several daemons, and several deliveries to one daemon, race
  through sequences of file-system calls. Correct: at most one works on a task,
  a finished task is not run again, contention never leaves the task to nobody,
  and no lease outlives its handler.
* *Task handler.* It awaits an engine for minutes while its connection may
  break; its retry comes back through the bus; a success may turn into an error
  while it is being reported. Correct: retries are bounded, a finished task is
  not retried, escalation happens once, the task comes to an end, and its
  result is heard.
* *Pipelines.* Replies, second copies, timeouts, retry timers, reconnections,
  crashes and cancellation come in any order, and a state file must stand in for
  the maps in memory. Correct: waves in order, the gate respected, counters that
  survive a crash, an ended pipeline that stays ended, and progress.
* *Work graph and sandbox.* Workers stage edits in one map with an await between
  the reading of a text and the storing of its successor, while shell commands
  of other workers write the map to disk and empty it. Correct: no edit is lost,
  units wait for what they need, success means that everything is done and
  flushed, and a failure stops the rest.
* *Run engine.* Gates ask the model again, failures are remembered, the
  verification has cycles of its own, and an abort may come at any await.
  Correct: a complete run is a verified one, the number of questions to the
  model is bounded, nothing runs after an abort, every run ends.
* *PM loop.* It finds its item again in a file that others have changed while an
  agent worked. Correct: marks tell the truth, an item is tried a bounded number
  of times, what is finished is not done again, the loop ends.
* *Startup guard.* A file is tested, read, removed and written by processes that
  start and stop at once, after crashes, with PIDs used again. Correct: one
  instance, and no refusal because of what dead processes left behind.

`PROJECT.json` lists every place where this can go wrong ("hazards") with the
properties that cover it.

## 2. Modules

| Module | Models | Proofs |
|---|---|---|
| `DispatchLease` | the dispatch guard, driven by the task handler, for one dispatch key | `DispatchLease_proofs` |
| `TaskExecution` | one task through its retries, DLQ, escalation and the RT clients of the daemon | `TaskExecution_proofs` |
| `PipelineWaves` | one pipeline of crew-lead | `PipelineWaves_proofs`, `PipelineProgress_proofs` |
| `Sandbox` | crew-cli's staging area under concurrent tools | in `WorkGraph_proofs` |
| `WorkGraph` | the work-graph executor, composed with `Sandbox` | `WorkGraph_proofs` |
| `SerialTask` | abstract: a task that one delivery works on at a time, and none while it is known to be done; `DispatchLease` implements it for one daemon | in `DispatchLease_proofs` |
| `BoundedTask` | abstract: a task that is tried a limited number of times and handed over at most once; `TaskExecution` implements it | in `TaskExecution_proofs` |
| `WaveSequence` | abstract: a counter of waves with a verdict; `PipelineWaves` implements it | in `PipelineWaves_proofs` |
| `DependencyOrder` | abstract: what an executor of a graph promises; `WorkGraph` implements it | in `WorkGraph_proofs` |
| `RunEngine` | one run of crew-cli's engine | `RunEngine_proofs` |
| `PmLoop` | the PM loop and those who edit its roadmap | `PmLoop_proofs` |
| `StartupGuard` | the startup guard of one service | `StartupGuard_proofs` |
| `MC*` | definitions TLC needs for the constants | |

### DispatchLease

An *attempt* is one delivery of the task to a handler; `DaemonOf` says which
process handles it. `lease` is what `readLeaseRecord` sees: no directory
(`Absent`), a directory whose `lease.json` is missing or truncated (`Blank`), or
a claim with an expiry. `pc` is where the handler is; `beat` the interval that
renews the lease.

| Action | Code |
|---|---|
| `ReadDone`, `RemoveStaleDone` | `acquireTaskLease`, the done record (dispatch.mjs:78-91) |
| `MakeDir`, `WriteLease` | `writeNewLease`, first and second try; then the heartbeat and the ack (rt-envelope.mjs:320-433) |
| `ReadLease`, `TakeOver` | an existing lease (dispatch.mjs:118-139) |
| `HeartbeatRead`, `HeartbeatOpen`, `HeartbeatFill` | `renewTaskLease`; `writeFileSync` truncates first and fills later |
| `MarkTaskDone` | `markTaskDone` |
| `Finally`, `FinallyThrows`, `Release` | the finally block and `releaseTaskLease` |
| `Crash`, `Tick` | a daemon dies; time passes |

One file-system call is one action, because the calls of two daemons interleave.
Within one daemon a synchronous sequence is not interrupted (`MayRun`). What is
abstracted: one key; `rmSync` of the lease directory is atomic; claims are the
attempts themselves; the text of the reply. All clocks are one host's. The
constant `Timely` distinguishes heartbeats that fire before the lease runs out
(10 s against 45 s in the default configuration) from any timing at all.

### TaskExecution

The handler awaits only while the prompt is built and the engine and its tools
run. What precedes (`Deliver`) and what follows the verdict up to the end of the
finally block (`Succeed`, `Fail`) are synchronous, one action each. `clients` is
the sequence of RT clients of the daemon; an envelope remembers the one it came
in through, because the handler and the retry timer keep using it after a
reconnect. A client is `open`, `closing` (the socket is not OPEN, and publishing
throws) or `closed` (publishing is skipped in silence, an ack still throws).
`Errors` is what the code tells apart in an error's text: retryable
(`shouldRetryTaskFailure`) and catastrophic (`shouldDLQ`), where both may hold.
The lease is only free or held: no other delivery carries this task's key, and
`DispatchLease` covers those that would. crew-lead's own connection is taken to
be up; `told` is what was sent to it.

### PipelineWaves

`pipe` is the entry of `pendingPipelines`, `disk` the state file, `tasks` the
entries of `pendingDispatches`, `timers` the pending quality retries. One
handler of crew-lead's thread is one action; the model has no crash in the
middle of a handler. A step is the role of its agent, a reply what the gate can
tell apart: `work` (with evidence of files written), `report` (none), `FAIL` (a
QA verdict), `question`, `bail`. `env` is chosen at the beginning from
`Environments` and says which replies and faults happen, whether
`CREWSWARM_PIPELINE_ADVANCE_ON_QUALITY_FAIL` is set and how many dispatches the
instance has room for, so that one run covers settings that would be too large
together.

| Action | Code |
|---|---|
| `Start` | chat-handler.mjs:1769, http-server.mjs:2343, ws-router.mjs:563 |
| `Reply` with `Gate` (`Advance`, `Retry`, `WithFixer`, `Drop`) | ws-router.mjs:474-540, `checkWaveQualityGate`, `failPipelineOnQualityGate` |
| `Bail`, `RateLimited`, `Forget` | ws-router.mjs:350-396, 281-314, 328 |
| `Extend`, `Timeout` | `checkDispatchTimeouts`, `markDispatchClaimed` |
| `RetryWave` | the retry's `setTimeout` |
| `Cancel` | `cancelAllPipelines` |
| `Disconnect`, `Reconnect`, `Resume`, `Crash` | the close and hello.ack handlers, `resumePipelines` |

Left out: the wave that goes to crew-orchestrator as one task (it behaves like a
wave of one step), worktrees, tmux hand-off, question retries (only outside
pipelines), @mentions and hand-backs to crew-pm, and any second pipeline (it
interacts only through the queue limit, which is the fault `reject`). A failing
write of the state file, which the code logs and ignores, is left out too.

### Sandbox, WorkGraph and DependencyOrder

`disk` and `staged` are the files and the active branch. A text is the set of
workers whose edit it contains: what matters is whose work survives. `op` is the
call a worker has under way, between two of its awaits: it has read a file
(`read`), it waits in `addChange` for the original with the branch's record in
hand (`storing`; `live` tells whether that record is still the branch's), or it
is in `apply()` with the files that are left to write (`applying`). `edited` is
history: whose edit calls returned success.

| Action | Code |
|---|---|
| `EditStaged`, `ReadFile` | `editFile`, `appendFile` of a staged file and of another (crew-adapter.ts:777-891) |
| `WriteFile` | `writeFile`, whose guard looks at the disk only (716-761) |
| `AddChange`, `StoreChange` | `addChange` before and after its await (sandbox/index.ts:73-100) |
| `StartApply`, `WriteOne`, `ApplyFails`, `Rollback` | `apply`, `rollback` (121-142) |
| `Execute`, `EndBatch` | `l3ExecuteParallel`: gates, `topologicalSort`, `getBatches`, `Promise.all` |
| `WorkerReturns`, `ReviewReturns`, `UnitThrows`, `FinishUnit` | `runUnit`, `reviewAndFixWorkerResult`, the lanes |
| `ToolCall`, `ToolStep` | the tools; `shell` calls `apply()` first (617-630) |
| `FlushNothing`, `FlushStep`, `FlushEnds` | `flushSandbox` (1170-1180) |

`DependencyOrder` states the comment of `l3ExecuteParallel`, "Execute work units
in dependency order with parallelization", as a specification of four variables.
`WorkGraph` implements it with `started`, `finished` and `verdict` read off
`status` and `outcome`; a step of a lane that ends one unit and takes another is
one `Advance`.

Abstractions: the order in which `apply` writes files is free (the code goes
through them in order of staging); what a worker edits is free, once per file
and worker; the gates on cost and artifacts are a failure that may happen; a
worker that gives up returns like one that succeeds, as in the code. Left out:
the rule that a file be read before it is edited (`_filesRead`) and absolute
paths, which go to disk directly; `load` and `persist` across processes;
branches, which only sub-agents use; the file commands parsed from a worker's
answer after the last flush; and worktree isolation: the published bundle is an
ES module in which the `require()` of its availability test throws.

### RunEngine

The project is abstracted to `good`, the commands that would pass in it; an edit
changes it in any way, a command reports it. No command is flaky. `pc` is what
is awaited, `phase` the engine's own state. The model's answers are free.

| Action | Code |
|---|---|
| `BeginTurn` | the head of a turn: abort, budget, turns (run-engine.ts:143-166) |
| `ModelThrows` | a failing call, compaction and the second try (168-189) |
| `ModelReturns`, `Completes` | stale answers, the edit gate, the verification gate (191-258) |
| `RunTool`, `Run` | the calls of a turn, failure memory, proofs of goals (256-305, agentic-executor.ts:2340-2484) |
| `Verify`, `EndCycle` | `runVerificationCycle` and the verdict (317-339, 426-475) |
| `FixReturns`, `FixTool` | the turn between two cycles (335-357) |
| `Abort` | the caller's signal |

What the model takes from the code as it is, rather than as it was meant: a goal
made from the words of the task begins with a capital letter, which the search
for "test", "lint" or "build" never finds, so that it stays unproven
(`taskGoal`); a passing command proves every goal of its kind (`Like`); only a
command that throws fails; the turn to fix gets no prompt of its own. Left out:
read-only calls, cost accounting, guidance texts, trajectory scores.

### PmLoop

`roadmap` is the sequence of item lines with their marks and failure counts,
`cur` the item the loop took, with the line it had then, `buf` what the loop is
about to write. Reading the file and writing it after an await are two steps;
so are the two halves of the dashboard's reset.

| Action | Code |
|---|---|
| `Begin`, `Look`, `NoNewItems` | start, the head of the loop, the end of self-extension (pm-loop.mjs:1207-1292) |
| `NewItems`, `AppendNewItems` | `generateNewRoadmapItems`, `appendGeneratedItems` (860-980) |
| `AgentReturns`, `FixerReturns` | `callAgent`, QA, the fixer (1394-1511) |
| `MarkItem`, `MarkThrows`, `WriteMark` | `markItem` (568-603) |
| `UserAppends`, `UserInserts`, `UserStops` | a person at the file |
| `ResetRead`, `ResetWrite` | `/api/roadmap/retry-failed` (dashboard.mjs:8914-8924) |
| `Crash` | the process dies; `Begin` may start it again |

Texts of items are distinct, as the loop's duplicate filter has it; an extension
appends one item; lines that are not items are not there. A person's append
between the loop's read and write is lost, as in the code. Left out: dry runs,
the judge, routing to specialists; QA and security passes only take time.

### StartupGuard

`pc` is the next call of each process, `saved` the PID it has read, `reused` the
PIDs of dead processes that unrelated programs have been given. One call of the
file or process system is one action; `writeFileSync` truncates and fills in
two, and a writer whose file is unlinked meanwhile fills an inode nobody sees.

| Action | Code |
|---|---|
| `Look`, `Read`, `Probe`, `ProbePort`, `Remove` | the existing PID file (startup-guard.mjs:133-192) |
| `AskPort`, `Kill`, `Wait` | the owner of the port (195-235) |
| `Open`, `Fill` | the new PID file (238-243) |
| `Listen` | the service listens or meets EADDRINUSE (http-server.mjs:5205-5241) |
| `Stop`, `Cleanup`, `CleanupUnlink`, `Crash` | the exit handlers (246-270); a kill |
| `Reuse`, `Release` | the operating system |

The three kinds of service are those that call the guard: with a port and
`killStale` (RT bus, dashboard), with a port only (crew-lead), with neither
(Telegram bridge). Left out: the clients `lsof` lists beside the listener, and
errors of permission.


## 3. What is checked

| Run | Instance | Shows |
|---|---|---|
| `DispatchLease_contention` | 3 deliveries to 3 daemons, any timing | `ClaimNeverLost`, `LeaseHasOwner` |
| `DispatchLease_daemon` | 3 deliveries to 1 daemon, heartbeats in time | `MutualExclusion`, `NoRerunWhileFresh`, `FreshRecordKept`, `OneAfterAnother` (refinement) |
| `PipelineWaves_faults` | a build and a QA wave in three environments: every fault with 3 dispatches; what a wave loses track of with 4; what it keeps track of, with the gate set to advance, with 6 | `DiskIsCurrent`, `NeverStuck`, `InWaveOrder` (refinement), `RetryCounted`, `EventuallyEnds` |
| `PipelineWaves_gate` | a wave of two, then QA; no faults | a timeout passes the gate |
| `TaskExecution_faults` | 2 retries, 3 clients, all errors, all faults | `BoundedExecutions`, `DoneNotRetried`, `EscalatedOnce`, `RetryCanClaim`, `KeepsPromise` (refinement), `EventuallyOver` |
| `TaskExecution_result` | 2 retries, a perfect connection | crew-lead misses the result of a retry |
| `WorkGraph_parallel` | 3 units in a join or a cycle, 1 or 2 lanes, reviews, shell commands, 2 files of which one is new | `NothingLost`, `SuccessIsComplete`, `InDependencyOrder` (refinement), `FailureStopsBatches`, `EventuallyOver` |
| `WorkGraph_flush` | 2 independent units with shell commands | a flush drops an edit of the other worker |
| `PmLoop_edits` | 2 items and a third that is added, one insertion, reset or crash | `MarksAreTrue`, `AttemptsBounded`, `FinishedNotRepeated`, `EventuallyEnds` |
| `PmLoop_mark` | an insertion above the item in work | another item is marked as done |
| `RunEngine_verify` | 3 turns of a call each, 2 verification cycles, 2 commands, an abort at any time | `CompleteIsVerified`, `AskedBounded`, `AbortStopsTools`, `EventuallyOver` |
| `StartupGuard_starts` | 3 processes of one service of each of the three kinds | `OneInstance`, `RefusedForCause`, `PortDecides` |

Every module has one type invariant besides, `TypeOK`. Each property is broken
by a plausible bug in a mapped definition, listed under "mutants" and defined
beside the definition it changes.

Deadlock is checked in the runs of `WorkGraph` and `RunEngine`, which have an
explicit step at the end. It is off elsewhere, because there the system really
stops: a task or a pipeline is over, a loop has ended, or a bound is reached.

Bounds, and why they are enough:

* *Deliveries and daemons* (3). Two contend for an expired lease while a third
  still holds or has finished it; the take-over race needs no more. The proofs
  lift these results to any number.
* *Clock*. With `LeaseMs` = 2, `MaxClock` = 2 lets a lease expire under its
  holder in the contention run. In the daemon run `MaxClock` = 7 is long enough
  for a lease to be left by an orphan or a crash, to expire, for the task to be
  finished (`Ttl` = 2) and for its record to grow stale.
* *Pipeline* (`MaxWaves` = 4, `MaxTasks` = 6, `MaxResults`, `MaxResumes`). Two
  waves grow to four through one QA fix. Three dispatches are enough for a wave,
  its retry or fix, and one more from a bail, a rate limit or a resumption; six
  for the fix and a resumption. One crash or disconnection can come at any
  point. An action that would need more waves or ids is disabled; a dispatch
  that is open can still time out, so that `EventuallyEnds` does not rely on a
  disabled action.
* *Task* (`MaxRetries` = 2, the default). A retry of a retry and the exhausted
  limit both happen; coding agents have 3, which adds nothing new. Three clients
  let the connection break twice.
* *Work graph*. Three units make a batch of two and a dependent one; one edit of
  each file per worker is enough for two to overwrite each other; two review
  cycles (`MaxCycles`) are the code's.
* *PM loop* (`MaxTrouble` = 1, `MaxItems` = 4, `MaxRetries` = 2, the default).
  Four dispatches retry one item and reach the limit; `FailLimit` = 2 stands for
  the code's 10 and `ExtendEvery` = 2 lets the loop extend between items.
  `MaxTrouble` bounds insertions, resets and crashes together.
* *Run engine* (`MaxTurns` = 3, `MaxCycles` = 2, `GateTurns` = 2 for the code's
  3, `StaleLimit` = 2 for the code's 10, `MaxCalls` = 1). Every limit is reached
  and exceeded by one; both commands have "test" in them, so that one can prove
  the other's goal.
* *Startup guard*. Three processes: one holds the service while two start.

Fairness. `PipelineWaves` assumes that crew-lead's interval
(`http-server.mjs:5213`, every 15 s), its `setTimeout`s and its reconnect
backoff come round, as event-loop timers do. It promises no reply: a pipeline
ends even if no agent ever answers. `TaskExecution` assumes that the bus
delivers to an open socket, that timers fire and that an engine run ends one way
or the other, which the engines' timeouts see to. `WorkGraph` assumes that a
worker and a reviewer end in spite of what they still might call (strong
fairness: turns are limited and model calls have timeouts) and that the executor
and a tool call go on. `PmLoop`, `RunEngine` and `StartupGuard` assume only that
the program's own next step is taken: agents' and models' calls have timeouts,
file and process calls return. Nothing is assumed of faults, people, aborts or
crashes.

### Where code and documentation differ

Four runs find the program doing something a document or a comment says it does
not; `PROJECT.json` ("findings") quotes each line.

1. *Gates stop* (`docs/ORCHESTRATION-PROTOCOL.md:55`, run `PipelineWaves_gate`).
   A wave completed by a timeout never reaches the gate.
2. *Results reach crew-lead* (`docs/ARCHITECTURE.md:59`, run
   `TaskExecution_result`). A retried attempt answers the envelope's sender,
   which is the agent itself.
3. *Staged changes are flushed* (`crew-cli/src/pipeline/unified.ts:1168`, run
   `WorkGraph_flush`). A shell command's `apply()` empties the branch under the
   hands of another worker.
4. *The current line is found* (`pm-loop.mjs:572-573`, run `PmLoop_mark`). The
   text that `markItem` looks for is read from the stale index.

Others the models contain without a run of their own:

* *Deduplication* (`dispatch.mjs:3`). The done record is checked before the
  lease is made and not after; a task that another daemon finishes in between is
  run again. `NoRerunWhileFresh` is stated for one daemon for that reason.
* *Waves wait* (`docs/ORCHESTRATION-PROTOCOL.md:53`). Every reconnect resumes the
  pipelines in memory too and dispatches the current wave again, beside the
  steps that are still open.
* *Two QA fixes* (`test/unit/quality-gate.test.mjs:267`). The counter belongs to
  a wave index that the fix leaves behind, so that a third fixer may follow.
* *The DLQ holds failures* (`docs/DASHBOARD-GUIDE.md:89`). A success that cannot
  be acked counts as a failed last attempt.

`NeverStuck` and `EventuallyEnds` of the pipeline are stated for environments
without three behaviours the code has: a rejected step is not waited for, and a
step replaced after a rate limit or a bail leaves the wave waiting for the old
id; and a state file may be removed as too old. Such a wave hangs until a
reconnect. No document promises otherwise, so that these stay hazards.

## 4. What is proved

All results hold for every value of the constants, from the named assumptions of
the modules (types of the constants, and in `DispatchLease` that `LeaseMs` > 1).
Each proof rests on an inductive invariant that TLC checked first.

| Module | Theorems | Inductive invariant |
|---|---|---|
| `DispatchLease_proofs` | `TypeCorrect`, `LeaseOwned`, `ClaimKept`; `ExclusionOneDaemon`, `DedupOneDaemon`, `RecordKeptOneDaemon`, `ImplementsSerialTask` | `OwnerInv`, `ClaimInv`, `SoloInv` |
| `TaskExecution_proofs` | `TypeCorrect`, `ExecutionsBounded`, `FinishedForGood`, `EscalationOnce`, `RetryClaims`, `ImplementsBoundedTask`; `FirstAttemptHeard` | `IInv`; `HeardInv` |
| `PipelineWaves_proofs` | `TypeCorrect`, `DiskCurrent`, `RetriesCounted`, `ImplementsWaveSequence`, `EndsForGood`, `MovesWaveByWave`, `GateHeld` | `IInv`: `TypeOK`, `Placed`, `DiskIsCurrent` |
| `PipelineProgress_proofs` | `SomethingToWaitFor`; `PlanKept` | `Progress`: `Filled`, `NeverStuck`; `IInv` |
| `WorkGraph_proofs` | `TypeCorrect`, `SuccessComplete`, `FailureStops`, `ImplementsOrder`, `LanesKept`; `EditsKept` | `IInv`: types, `Batches`, `Flushers`, `Untouched`, `Flushed`; `EditsInv`: `Quiet`, `Matched`, `Drafts`, `NothingLost` |
| `RunEngine_proofs` | `TypeCorrect`, `CompleteVerified`, `QuestionsBounded`, `AbortStops` | `IInv`: `TypeOK`, `Located`, `Asking`, `Verifying`, `CompleteIsVerified` |
| `PmLoop_proofs` | `TypeCorrect`, `MarksTrue`, `AttemptsBound`, `FinishedOnce` | `IInv`: `TypeOK`, `Quiet`, `Room`, `Orderly` |
| `StartupGuard_proofs` | `TypeCorrect`, `OneHolder`, `RefusedRightly` | `IInv`: `TypeOK`, `Ported`, `Written`, `Settled` |

*Dispatch guard.* `LeaseHasOwner` is not inductive: a heartbeat might run for a
handler that has ended. `OwnerInv` adds that heartbeats run only for handlers
that work or are orphaned. For `ClaimNeverLost`, `ClaimInv` adds that as long as
nobody acquired and no daemon died, an empty directory has a writer, and where
there is no directory, someone is on the way to making it. The last four
theorems hold under `SingleDaemon` (all deliveries reach one process) and
`Timely`. `SoloInv` says that one synchronous sequence runs at a time and no
time passes in it; that a running heartbeat means an unexpired lease of its own;
that a handler about to remove or write the lease finds no heartbeat running;
and that there is no done record while someone claims or works. Both hypotheses
are needed: several daemons can pass each other between the done record and the
lease, and with late heartbeats a lease expires under its holder. Under both,
the guard implements `SerialTask`: whoever acquires begins, `MarkTaskDone`
finishes, the end of a handler and the death of the daemon end, and the calls in
between are stutters. It holds because `SoloInv` leaves no other handler at work
and no fresh record at the one step that acquires.

*Task.* `IInv` rests on two facts that the code nowhere states: the task is in at
most one place (on its way, in a handler, in a timer), and wherever it is, its
attempt number counts the executions so far. From it follows that the daemon
implements `BoundedTask`, with a handler as an attempt, the done record as its
success and the escalation as handing the task over: taking up an envelope is
`Try`, the end of a handler `Finish`, `Stop` or `HandOver`, a crash `Stop`.
`FirstAttemptHeard` is the part that does hold of the promise refuted by
`TaskExecution_result`: as long as the first connection holds, crew-lead hears
how the first attempt ended. `HeardInv` adds to it that an envelope with attempt
0 comes from crew-lead and that its client has been open.

*Pipeline.* `Placed` says that a pipeline in memory or on disk is at one of its
waves and has not ended, and that a live retry timer belongs to one that runs.
`DiskIsCurrent` is part of the invariant because a resumption takes up what the
file says. `WaveSequence` is mapped to the wave and the number of waves in
memory or, after a crash, on disk; each handler either stays where it is,
proceeds by a wave or ends, and a crash without a file is `Lose`. `GateHeld` is
the companion of the run `PipelineWaves_gate`: apart from a timeout nothing takes
a pipeline past a result the gate objects to, except on to a fixer the gate has
put in. `PlanKept` looks into the waves: whatever happens, the plan stays, or the
gate puts a fixer and a repetition in behind the wave reached while every other
wave keeps its place in the order. For progress, `Filled` adds that
no wave is empty in memory, on disk or in a timer: dispatching an empty wave
would leave nothing to wait for.

*Work graph.* `Batches` says that units of begun batches only are under way and
that what they depend on is finished, so that the mapping to
`DependencyOrder` takes a step to a step or a stutter; `Flushers` says
who may be in `apply()`, `Untouched` that without them nothing reaches the disk,
and `Flushed` that success leaves nothing staged. `NothingLost` is not
inductive: a call that has read a file and waits would store an old text.
`EditsInv` adds who may have a call under way (`Quiet`; with `LanesKept` it gives
that one lane has one call), that an `apply()` still has to write exactly what is
staged and not yet on disk (`Matched`), and that a text about to be stored holds
its author's edit and, on one lane, everybody's (`Drafts`). `EditsKept` is the
other side of the run `WorkGraph_flush`.

*Run engine.* `Asking` counts questions against turns, compaction and cycles;
`Located` ties `phase` to what is awaited; `Verifying` says that the commands a
cycle has left behind passed in the project as it still is, since no edit runs
while they are verified.

*PM loop.* `MarksAreTrue` is not inductive, for the loop writes content it read
earlier. `Orderly` adds, as long as people only append, the *book*: texts are
distinct, every attempt is a failure in an open line, the item in hand, or lost
to a crash; *held*: the item in hand is an open line at its index, which is why
`markItem` finds it; and *buffered*: what is about to be written is the roadmap
as it was read with one line changed, and what has been appended since was never
given to an agent, so that losing it falsifies no mark.

*Startup guard.* As long as nothing moved while a process started or stopped,
`Settled` says what each place of the guard knows: that it holds the file's PID
when it probes it, that nobody listens or holds the lock when it goes on to
write, that the one who holds it is named by the file and owns the port. Two
branches are thereby shown to be unreachable without interference: the kill of a
port's owner and the removal of a file that has vanished.

Only model-checked: the liveness properties, among them `PortDecides`, because
liveness under fairness and ENABLED are out of this prover's reach. No theorem is by induction over data, and no module with a theorem
reaches a RECURSIVE operator. Properties that the runs refute are not proved, of
course, and the bounds of the instances (`MaxClock`, `MaxTasks`, ...) are
constants of the theorems too: they hold for every bound.

## 5. Plan

The plan was to go through the parts in the order of how much depends on them:
the dispatch guard, a task, a pipeline, then crew-cli's executor with its sandbox
and engine, the PM loop and the startup guard; for each first the model and its
run, then the invariant, then the proof. The abstract specifications worth
stating were those of parts whose promise outlives its details: `SerialTask`,
`BoundedTask`, `WaveSequence` and `DependencyOrder`, all four proved to be
implemented. What would
come next:

1. `RtBus`: connections, subscriptions, the append before routing and the order
   it gives; then `TaskExecution` over it, with crew-lead's connection breaking
   too.
2. The replay of the DLQ in `TaskExecution`: a replayed task has a new id, so
   that neither the lease nor the done record knows it.
3. Branches of the sandbox, which sub-agents switch under the other workers.
4. The crew-orchestrator wave and worktrees in `PipelineWaves`, and with the
   tmux hand-off the session lock.

### Not modelled, and why

* *Engines, tools, front ends* (`lib/engines/runners.mjs`, `lib/tools`, the
  dashboard, the bridges, the rest of `crew-cli/` and `apps/`): input and output,
  prompts, parsing and rendering around the parts above. They are most of the
  repository's lines and keep little state that others decide on.
* *Spending and CLI tracking*: a read-modify-write of a JSON file by several
  processes, whose lost update takes two steps; listed as a hazard.
* *Sessions, worktrees*: they take part in pipelines only through the tmux
  hand-off and in git; see the plan.
* *Legacy `task-lease.mjs` and `retry-manager.mjs`*: the production path does not
  call them.
* *The unified orchestrator* (`unified-orchestrator.mjs`,
  `lib/pipeline/manager.mjs`): a second, sequential way to run phases.
* *Log rotation*: renames of large files.
