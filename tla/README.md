# FixLoop: specifications of run coordination, sandbox authority and plan execution

FixLoop is a Python application that repairs code with language-model agents.
Layer 1, `src/agent_runtime/`, is the agent runtime: the run registry, the Linux
sandbox, the plan runtime, the tool loop, providers and memory. Layer 2,
`src/src/`, is the product: the repair pipeline, the collaboration of several
agents, verification and the workbench. Tools run as separate sandboxed
processes, runs survive the crash of the process that drives them, and a
cancellation may roll back the workspace only when everything that was started
is known to have stopped. That last sentence is where most of the difficulty is,
and what this project is about.

The modules are TLA+; TLC checks small instances (`tlc -config X.cfg M`) and
TLAPS proves the theorems of the modules whose names end in `Proofs` for all
values of the constants (`tlapm M.tla`). `PROJECT.json` lists the runs, the
hazards they are aimed at, the mutants that show that each property can fail, and
the source lines each definition stands for.

## Inventory

| component | source | state | operations | interacts with | what makes it correct |
|---|---|---|---|---|---|
| Run registry | `agent_runtime/run_coordination/store.py` | SQLite tables `runs`, `resources`, `events`; leases in memory | acquire, activate, heartbeat, request_cancel, begin_cancelling, mark_recovery_required, finish, register/transition_resource, retirement_guard | every process that dispatches, and the sandbox supervisors (assert_request_owner) | one owner per run and one occupant per workspace; cancellation survives takeovers; an ended run is clean |
| Run coordinator, adapters | `run_coordination/coordinator.py`, `adapters.py` | current lease, heartbeat thread | reconcile, cancel (with rollback), finish, dispatch | registry, receipts, plan journal, collaboration store | unconfirmed resources block activation and rollback; what is confirmed is what happened |
| Sandboxed call | `linux_sandbox/routing.py`, `backend.py`, `supervisor.py`, `receipts.py` | resource row, durable receipt, supervisor and target process, control pipe | register, dispatch, plan, supervise, collect, clean up, settle | registry, permission tickets, OS processes | a settled call is a stopped one; only the owner's targets run; threads always return |
| Repair driver of the coordinator | `src/repair/plan_binding.py`, `events_service.py`, `execution/lifecycle.py` | binding, cancellation token | begin and end of a repair trace, cancel callback, close | coordinator, plan runtime, token | the coordinator's methods are called in an order that never reopens a closed run |
| Plan runtime | `agent_runtime/plan_runtime/` under `src/repair/plan_binding.py` | plan DAG (at most 8 nodes, 3 dependencies each), attempts, operations, append-only journal | schedule, dispatch, record, settle, replan, recover, rollback | registry (plan attempts are resources), workspace snapshots | no effect is repeated after a crash; success needs current evidence |
| Collaboration tasks | `src/collaboration/store.py`, `repair_runtime.py` | `task_records` table with versions, task leases | create, claim, heartbeat, complete, request_cancel_task | registry (agent tasks are resources) | a cancellation is never lost; a completion belongs to the current claim; the resource row never says more than the task |
| Read-only explorations | `src/collaboration/exploration_store.py`, `exploration_runtime.py`, `src/agents/explorer.py` | rows with attempts and token account, worker threads, deadline monitor | submit, claim, finish, invalidate, confirm, retry, drain, restore, close | registry (explorations are resources), cancellation token, writes of the owner | a write waits for its workers; tokens are charged once; a lost worker is found to have ended |
| Permission tickets | `linux_sandbox/permissions.py` | scope, revision, pending approval, tickets, used calls | authorize, resolve, replace_scope, cancel_pending, consume, discard | routing, user interface | one ticket, one call; an approval is used once and never after a revocation |
| Sandbox task retirement | `linux_sandbox/lifecycle.py` | lifecycle marker | retire | registry (retirement guard) | a retired task has no owner |
| Sandbox workspaces, environments | `linux_sandbox/workspace_*.py`, `environment*.py`, `guarded_fs.py` | private views, commit intents | read, broker commit, recover | permission tickets, receipts | commits follow the current authority; partial ones are reported |
| Repair pipeline | `src/repair/coordinator.py`, `phase_fsm.py`, `graph*.py`, `stop_loss.py` | phase, attempts, budget | phase transitions, retries, stop | agents, verification | terminates; never succeeds without verification |
| Edit transaction, verification | `src/repair/execution/`, `src/repair/verification/` | snapshot, edit lock, verification process | snapshot, restore, expand, check_write, verify | plan runtime, sandbox | no rollback beside a running verification; no write without a current read |
| Workbench: restoration | `src/workbench/restore.py`, `files.py`, `store.py` | project files, backups, previews, journal of operations, history | preview, apply, commit, recover, reconcile, checkpoint | editors that write the same files | no edit is lost; files and history end as the user decided; whatever was interrupted can be recovered |
| Workbench: service | `src/workbench/` | jobs, worker processes | start, stop | repair pipeline | a job has one worker and one end |
| Model calls | `agent_runtime/model_call_budget.py`, `budget_manager.py`, `providers/circuit_breaker.py`, `cancellation.py` | ledger of calls, tokens and cost with a record per call; breaker; worker threads of a scope | reserve, dispatch, abandon, settle, report, checkpoint, restore, merge | agent loop, journal of the extraction, model clients | the ledger adds up; no more requests than allowed; workers end |
| Provider clients | `agent_runtime/providers/` | parsing, streaming | call | model services | about texts and delays |
| Tool batches, agent loop | `tool_batch.py`, `tool_batch_runtime.py`, `read_permits.py`, `agent_loop.py`, `tool_executor.py` | calls of a batch, worker threads, permits of a run, the gate after an unverified cleanup | turn, batch, call, time out, cancel, close a turn | sandbox, explorations, providers | permits are returned; the answer of a call agrees with its thread; no write beside a running read; a batch returns |
| Memory; context and prompts; intent, exploration, MCP, observability; evaluation | see `PROJECT.json` | files, text, metrics | governance, assembly, parsing | agent loop | about wording and token counts, outside this project |

Hard behaviours, at the lines named under `hazards` in `PROJECT.json`:

- Concurrency inside a process is real. `run_blocking` (`cancellation.py`) and the
  tool batch abandon a running tool thread when a token is cancelled
  (`pool.shutdown(wait=False)`), so a thread may still be dispatching a call while
  the main thread cleans the run's resources up.
- Several processes share the registry file. Owners are fenced by generations and
  by leases that expire while their holder may still be working.
- The supervisor of a call is a process of its own that outlives its parent, and
  whose only durable words are the receipt files.
- Crashes fall between any two writes: between registry and receipt, and between
  the two files of a terminal receipt.
- Every wait has a deadline, so late answers race with the decision to give up.
- The journal of a plan is append-only and every fact about an attempt (prepared, running,
  dispatched, each operation, result, node, reconciled, resource row) is an append of its
  own. Recovery must reconstruct the run after a death between any two of them.
- Explorations run in threads of the owner's process, and their rows outlive it: a process
  that has lost the run still has threads that believe in their attempts.

## Modules

| module | models | status |
|---|---|---|
| `RunCoordination` | the run registry | checked and proved |
| `WorkspaceFence` | what the registry promises to its callers | abstract specification |
| `RunCoordinationProofs` | theorems about the registry; sums over finite sets, for the theorems about accounts | all proved |
| `SandboxCalls` (extends `RunCoordination`) | calls, supervisors, receipts, coordinators | checked and proved |
| `SandboxCallProofs` (extends `RunCoordinationProofs`) | theorems about the calls of a run | all proved |
| `PermissionAuthority` | what the permission service promises | abstract specification |
| `PermissionTickets` (extends `WorkspaceFence`) | the permission service and its callers | checked and proved |
| `PermissionProofs` | theorems about the permission service | all proved |
| `ModelCalls` | ledger, dispatch gate and circuit breaker of model calls | checked and proved |
| `ModelCallProofs` (extends `RunCoordinationProofs` for the sums) | theorems about the dispatch gate | all proved |
| `PhaseTasks` (extends `RunCoordination`) | the tasks of the repair phases and their runtime | checked and proved |
| `PhaseTaskProofs` (extends `RunCoordinationProofs`) | theorems about the tasks of the repair phases | all proved |
| `ExplorationTasks` (extends `RunCoordination`) | explorations, their threads and the owner that writes | checked and proved |
| `ExplorationProofs` (extends `RunCoordinationProofs`) | theorems about the explorations of a run | all proved |
| `PlanExecution` | the plan journal: attempts, recovery, rollback, replan | checked and proved |
| `ToolBatches` | batches of tool calls, their threads and the read permits of a run | checked and proved |
| `ToolBatchProofs` | theorems about the tool calls of a run and its permits | all proved |
| `WorkbenchRestore` | the restoration of project files by the workbench | checked and proved |
| `JournalProofs` | theorems about the plan journal and about the restoration | all proved |
| `MCRunCoordination`, `MCSandboxCalls`, `MCPermissionTickets`, `MCModelCalls`, `MCPhaseTasks`, `MCExplorationTasks`, `MCPlanExecution`, `MCToolBatches`, `MCWorkbenchRestore` | instances for TLC: symmetry, the constraint `Small`, the scripts of the batches | |

### RunCoordination

One action per method of `RunCoordinationStore`. Each method is one `BEGIN
IMMEDIATE` transaction, so it is atomic across threads and processes, and a method
that raises rolls back, so its action is not enabled. `run` is the `runs` table,
`res` the `resources` table, `lease[p][r]` the `OwnerLease` a process holds in
memory, `retired` the published lifecycle marker.

- A lease is compared by `owner_token` and `generation`. Tokens are fresh uuids
  drawn with each generation: the model uses the generation as the token, and 0
  for the empty token of a fenced row.
- Time is the bit `live`: whether `lease_expires_at` is in the future. `Expire` may
  happen whenever a lease is live. Heartbeats then change nothing but when the bit
  may fall, and their action is a stuttering step with the method's guard.
- `Crash` drops the leases of a process. It stands for `confirmed_exited`, by which
  `acquire` recognises that the recorded owner process is gone.
- Not modelled: the `events` table, `coordination_revision` (it only grows),
  `checkpoint_seal`, receipt references and error codes.

`WorkspaceFence` says the same without tables, leases and clocks: at most one run
occupies the workspace; each occupation is a new epoch that dispatches nothing until
it is opened; a run asked to cancel is never opened again; a closed run never comes
back. `RunCoordination` implements it under the mapping given at `Fence`.

### SandboxCalls

The life of sandboxed tool calls of one run. Four kinds of actors interleave:

- The coordinator thread of each process (`own[p]`). `Start` is `begin_repair_trace`
  with `RepairPlanBinding.__init__`: it acquires the run and lists the old
  resources. `InspectOld` and `Record` are the loop of `reconcile`; `BeginWork`
  activates the run, `GiveUpReconcile` fences it. `CancelToken` and `CancelCallback`
  are the token and the callback that persists the request. `EnterCancel`,
  `ListCleanup`, `AskSupervisor`, `InspectCancelled`, `Record` and `EndCancel` are
  `cancel`, in its order: the run is closed to dispatches, the open resources are
  listed, each is inspected and recorded, then the run is ended, fenced, or kept
  closed for a rollback. `CheckRelease` and `Release` are `end_repair_trace`, `Abort`
  is the binding's `close`, and `LoseOwnership` any store call that raises because the
  owner was replaced.
- The thread that dispatches a call (`call[x]`), `execute_sandbox` and
  `LinuxSandboxBackend`: `Register`, `MarkRunning`, `TokenStop`, `Refuse`,
  `AssertCanDispatch` under the dispatch lock, `Validate`, `PlanReceipt`, `Spawn`, the
  wait for an answer (`Response`, `CloseControl`, `GiveUp`) and `SettleCall`.
- The supervisor of a call (`sup[x]`), `supervise`: it writes "running" before it
  checks the owner, and starts the target after. It may die anywhere.
- The target (`target[x]`), which `bwrap --die-with-parent` (`policy.py`) ends some
  time after its supervisor is gone.

A receipt is `planned`, `running` and `terminal`. The terminal one is written to two
files; between the writes it is "torn", and every reader of a torn pair raises, which
the adapters count as unknown. Permission tickets and preflight checks are the
nondeterministic `Refuse`. Calls have no parent; the tree of resources is the
registry's matter. The two readings of a receipt, `FromReceipt` and `FromCancel`, are
`SandboxCallAdapter`'s.

### PermissionTickets

The service of `linux_sandbox/permissions.py`: a scope, at most one proposal, one-time
tickets, and a revision that every decision of the trusted side raises. Each method holds
the service's lock and is one action; `authorize_action` gives the lock up while a person
decides, so it is several. The actors:

- The thread of a call (`call[c]`): `Begin`, then under the lock `Refuse`, `Issue` or
  `Propose`; without it `Answer`, `NoAnswer` or `Interrupt`; then `Resolve`, `Recheck` and
  `Again`, which is the recursive second `authorize_action`. A ticket is used by
  `Dispatch` and `Consume` (`execute_sandbox` and the workspace backend, under its own
  lock) or at once by a host tool (`authorize_trusted`); `ConsumeRaises` and `Discard` are
  the ways out. `AssertOwner` and `CommitEdit` are the last two checks before an edit is
  written: the file is replaced after `assert_current` gave the lock back, so a decision
  made in between comes too late, and the model says no more than that the check passed.
- The trusted interface: `Show`, `ResolveShown`, `CancelShown` (`runtime.py`), with a copy
  of the proposal that may be old; `ReplaceScope` and `InitializeScope`.
- Cancellation: `SetToken`, and `CancelCallback`, which is `_request_cancel` and
  `_finish_user_cancel`.
- The owners of the run. The registry is represented by `WorkspaceFence`, which it is
  proved to implement: `CanDispatch` is what `assert_can_dispatch` and
  `assert_request_owner` come to. `Crash` is the death of an owner's process.

Abstracted: a member of `Paths` is a path together with how it is touched (read, written,
installed from), so one set stands for the three lists of a scope, and covering by a parent
directory is set inclusion; an action's digest is the request, its input
versions and its owner; the audit is the bit whether it has an entry, which is all
`initialize_scope` asks of it; `coordination_revision` goes with the owner. A proposal's id is the
revision in which it was made, which is unique: settling one raises the revision before
another can be made.

`PermissionAuthority` promises the same in three sentences: a call starts on the scope or
on a consent to exactly what it does; a consent serves one start; a decision of the trusted
side ends the authority of every call under way.

Three consequences of the code are visible in the model. The scope is a product of
capabilities and paths, so approvals combine: after an approved edit of one file and an
approved `expand_lock` of another, an edit of the other needs no approval. A decision about any proposal
raises the revision, so a running edit of another call fails at its commit. A preauthorising
`replace_scope` marks a waiting proposal stale, after which the same action is refused with
approval_stale although the scope covers it, until another action is proposed.

### ModelCalls

One call from `invoke_model_call`: `ReserveCall` and `Record` (the ledger, and for the
extraction its journal), `Submit` to a worker of the scope (`run_blocking`), then the owner
waits. `Abandon` is a timeout or a cancellation: the owner goes on and the worker stays.
`Settle`, `Report` and `Stop` are the ways an owner leaves. The worker (`Enter`, `Answer`,
`Fail`, `Release`) waits for the lock of its client, calls the provider, and reports to the
breaker whether or not somebody still waits. `Checkpoint` and `Restart` are the snapshot of
the ledger and a new process that restores it and merges the journal. `sent` and `spent`
record, outside the program, which requests went out and what the provider charged.

Consequences of the code that the model shows: a cancellation inside the breaker's
`wait_retry` counts as a failure of the provider; a call that the open breaker refuses keeps its
whole reservation as `unknown`; a call that stays `unknown` never reaches the account in
dollars; an abandoned call that still waits for the client may be sent long after its owner
has gone. A deadline is a cancellation here; the count of failures is capped at its
threshold, past which the code does not look; the second try of a client that does not know
a keyword argument is left out.

### PhaseTasks

The tasks `context`, `patch` and `verify` of a repair, and the thread of each process that
owns the run, or still believes so. `Start`, `Inspect`, `Ask`, `Look`, `RecordRow` and
`EndReconcile` are `reconcile` over `CollaborationTaskAdapter`; `Attach` binds the runtime;
`Advance` is `_advance`, which completes the task of the phase before and claims the next one.
Its reads (`ReadTask`, `Reread`, `ReadCurrent`) are apart from the writes that depend on them
(`Claim`, `Commit`), because `claim_task` and `complete_task` read the row in another
transaction; `fresh` is the comparison of versions. `Refresh` is `TaskScheduler.refresh`, which may raise.
`Swallow` is the `except` of `coordination.py:86`, after which the phase runs all the same.
`SyncRow` writes the resource row of a task. `Renew` is the heartbeat of task and run.

Abstracted: the visits of one reconcile go in the order of the phases; a token is read between
advances only; check and renewal of a heartbeat are one step although the code reads before it
writes. `Faults` says which faults a configuration has: the lease of the run or of a task
runs out under an owner that lives, or an owner dies.

### ExplorationTasks

The rows of `exploration_store.py`, and in each process the thread that explores
(`Claim`, `Publish`, `Confirm`, with `Abandon` for the ways out), the deadline monitor
(`Watch`), the cancel callback (`Callback`) and the owner (`Start` ... `CloseBinding`). The
owner delegates, drains (`BeginWrite`, `Quiet`, `Write`) before it writes, restores the rows
of the process before it (`Retry`, `StartWorker`, `StartFails`), and settles the resource rows
when the runtime is closed. `OneWorker`, `WritesAreAlone` and `LostHaveWitness` relate rows to
threads of several processes, which no row shows.

Abstracted: the id of an attempt is its number, and `lease_generation`, which grows with it, is
left out; "partial" counts as completed; a receipt never exceeds its reservation; a sweep
over several rows (`CancelAll`) and one round of the monitor are single steps; a process
opens the run once. Collection and review of findings, and the shared budget of the models,
are not modelled.

### PlanExecution

The life of a repair run as its plan journal sees it. The tree is a content number that
grows with every write; a piece of evidence is the content at which it was taken, so
`Valid` is equality. `plan` is the latest saved graph, `attempts` the latest record of
every attempt with its operations and the bit whether its registry row is settled, `live` the
attempts for which a tool or a test run is really executing, which no record shows.

- An attempt: `Prepare`, `MarkRunning`, `Dispatch` are the three appends of `prepare`; the
  callback runs tools (`OpPrepare`, `OpDispatch`, `OpRecord`), one of which may time out and go
  on (`OpTimeout`, `ToolWrites`, `LateEnd`); `Returns`, `VerifyEnds` and `CallbackRaises`
  record its result. `run_reads` has two attempts at a time (`StartReads`, `NextRead`).
- Settlement: `SettleReduce`, `SettleReconcile`, `SettleRow`, `SettleAfter` are the appends of
  `settle`. A move the reducer refuses raises, and the owner goes.
- Stages: `AdoptPatch`, `AdoptObservation`, `StartAnalysis`, `StartEdit`, `StartVerify`,
  `AdoptVerification`; `BeginRollback`, `RestoreFiles`, `EndRollback`; and the new graph:
  `RefreshEvidence`, `Reopen`, `ReadAgain`, `RequestReplan`, `CommitReplan`, `RejectReplan`, `EndReplan`.
- `Die` and `Abort` may happen anywhere. `Open` is the next opening of the run: the adapter's
  answers (`Answered`) settle rows, and with one left open the run is refused. `RestartSafe`,
  `EndRestart`, `AdoptWrites`, `Adopt`, `MarkUncertain` are the branches of `recover`, and
  `EndRecovery` what it does after its loop, with `_reconcile_replans`.

Abstracted: the run starts with its first graph, after the preplan reads; a wait for an
approval, the parallel reads of an edit and its quick tests are left out; evidence is about
the whole tree, where the code compares the files it names, so the model loses
evidence earlier; the commits of `EndRecovery` are one step; registering the resource belongs
to `Prepare`; budgets of tools and reads, and why a candidate graph is refused, are
nondeterministic or left out; a cancelled run, whose rollback and end are `SandboxCalls`' and
`PhaseTasks`' matter, is not followed.

### ToolBatches

The agent loop of a run and those of its explorations, which share the two read permits
of the run (`read_permits.py`). `Script` gives each loop the batches its model asks for. A loop
(`own[o]`) begins a batch, which runs on threads when it is short and only reads, and call by
call on the loop's own thread otherwise.

- On threads (`tool_batch.py`): one round of the scheduler is `Top` (a pending approval or a stop
  answers what has not started), `Submit` and `Reject` while a call may start, and `Collect`
  (results that are back, time limits, abandonment). The loop of the run takes a permit for
  each read; an exploration holds one from its first turn (`Spawn`, `TakeLease`,
  `GiveUpLease`), its reads borrow it, and `GiveBack` returns it with the last borrower.
- On the loop's thread: `SerialNext`, `SerialEnd`, and `SerialDetach` with `DetachedEnds`, the
  detached thread of `run_with_timeout`. `MayRun` is the gate of the executor after an
  unverified cleanup.
- A worker thread: `Enter` and `Return`; it may hang between them for ever.
- `Raise` is an exception of the preparation of a call; `Leave` closes the turn and answers what a
  raised batch left open (`_close_turn_progress`). `Cancel`, `CancelCalls` and `Deadline` are the
  token, its callback and the deadline of the run or of an exploration.

Abstracted: a call that succeeded, failed, was rejected or came back late is "done"; the
quota of calls, the other gates, the contents of approvals, the recheck of file versions
and the plan operation of a call are left out; only a write is an effect; times are the steps
that may pass. Which reads a call does is not modelled: a read is a thread that runs.

Two consequences: without a deadline of the run (`repair_s` is 0 by default) a batch of the run may wait
for ever for permits that hung threads hold, and a failed preparation leaves its calls to the
closing of the turn. `BatchReturns` therefore assumes a deadline.

### WorkbenchRestore

A restore brings the files of a project from one tree to another, step by step. A tree gives
each path its entry, `Steps` is the plan: what goes, then directories, files, modes. The
actors:

- The service, whose lock admits one call at a time (`call`). `Preview` and `PreviewCandidate`
  save a plan in memory, `Apply` checks that nothing changed and writes the journal, and then
  `StartStep`, `ReadStep`, `MoveFile` or `MoveDir`, `Publish`, `Chmod` and `MarkStep` are the parts of
  `_execute` and `ProjectFiles.change` between which an editor or a crash may come. `Scan`,
  `Commit`, `Clean` and `EndCall` end the operation.
- The user, who edits at any time (`Edit`), saves a checkpoint, changes the conversation (`Touch`), has a run
  propose a candidate (`RunTurn`) or discards it, and decides how an interrupted operation goes on (`Recover`).
- Failures: `Fault` is a system call that fails, `Crash` the end of the service, `Restart` its
  next start, where `reconcile_committed` finishes what is proved to be applied. A recovery is a
  child plan with a journal of its own, whose steps are those of `_recover_child`: `SkipDone` stands for the loop
  over the steps that were done before, which reads their paths once more, all at once in the model because edits
  in different directories commute.

Abstracted: one conversation; directories one level deep and with the rights of their owner;
a scan is one step; the tree of nodes and branches is the snapshot at the head; a change of a
file's mode alone is left out, and so are excluded files, expiry and capacity of previews. A call that raises leaves
the status `needs_recovery`, which nothing tells apart from `applying`: both are "open".

Definitions whose names end in a suffix after `_` and whose comments begin
with "Deviation" are plausible bugs of the definition they precede. No specification
uses them; the mutants of `PROJECT.json` put them in its place.

## Runs

| run | instance | shows |
|---|---|---|
| `registry` | 2 runs, 2 processes, 1 resource, 2 generations | ownership is single and fenced through takeovers, crashes and expiries; cancellation is sticky; an ended run is clean; a retired run is idle; the registry implements `WorkspaceFence` |
| `calls` | 2 processes and 1 call, or 1 process and 2 calls; 2 generations | a settled call has stopped and ended as recorded; targets of old generations never run in an active run; a rollback is alone; targets never run side by side |
| `calls_progress` | 1 process, 1 call, 2 generations, with fairness | threads, cleanups and targets come to an end |
| `perm_authority` | 2 calls, 3 kinds of request, 2 scopes, 1 ticket, revision 2, 2 owners | tickets and proposals implement `PermissionAuthority`; consent is informed; an unsettled proposal is never displaced |
| `perm_returns` | 2 edits, 1 owner, 2 tickets, 1 change of the inputs, with fairness | a cancellation leaves nothing to decide; tickets are returned; inputs are pinned; calls that ask for authority come to an end |
| `model` | 3 calls, 1 journalled, 2 behind the breaker, 1 client, 1 restart, with fairness | the ledger adds up and limits requests through abandoned calls and restarts; what is charged is one's own; a left scope is quiet; breaker and workers keep going |
| `tasks` | 3 tasks, 2 processes, 2 generations | the row of a task never says more than the task; phases complete in order in a run that is not taken over; cancel requests stick |
| `explore` | 2 processes, 2 explorations, 2 attempts, tokens for 2, all faults | reservations settle once; a write waits for its workers; one worker per exploration; lost workers can be confirmed |
| `plan` | 2 reads, 2 operations of an edit, 7 attempts, 2 processes, 1 change by others, 1 replan | no write is replayed after any crash; nothing runs beside a write; a completed plan verified its own patch; every interrupted settlement and restart is taken up again |
| `batch` | a run that reads twice and writes, an exploration that reads; 2 permits, with fairness | permits add up; a running thread is never reported as ended; no write beside one; every batch returns |
| `restore` | a directory with a file, 2 contents, 1 operation, 1 edit, 2 failures or crashes, 1 candidate | no edit is lost; history, files and backups end as decided; an interrupted operation that nobody disturbs is recoverable and its recovery ends it, but for one kind of plan (see Findings) |
| `plan_baseline` | 1 read, 1 operation, 6 attempts, 2 processes | violation, see Findings |

Further configurations, which pass and are kept for work on a module: `CallsMore`,
`ModelMore`, `TasksMore`, `PlanMore` and `RestoreMore` check the type invariants and
weaker or auxiliary properties (that targets stop,
that requests are reserved, that probes are probes, that late results refund nothing, the
limit of attempts, that ends are final, that a settlement asks for no move the reducer refuses).
`CallsDocs`, `PermStale`, `TasksPhases`, `TasksAttempts`, `TasksGuess`, `ExploreStale`,
`ExploreReopened`, `ExploreReleased`, `PlanResumed`, `BatchesUnclean`, `BatchesNested`, `RestoreMkdir` and
`RestoreEnds` show violations, described below; of several properties in one of them TLC
reports the first, so take them one at a time.

Bounds. `MaxGen` bounds the generations of a run; it occurs in the guard of `Acquire`
alone. Two generations give a takeover and a stale owner, which is the longest relation
between owners the code compares (a row stores one generation, a lease another). Two runs
compete for the workspace, two processes for a run. Calls meet only in the locks and in
`Plannable`. Runs, resources and processes are symmetric wherever no liveness is checked and no
name is told apart. Runs end and generations run out, so the specifications really stop and
deadlock is not checked; the same holds of a repair whose phases are done, of calls that
have all returned, and of a plan that is finished or refused.

Each `Small` is a constraint in the MC module; a state outside it is checked and not
continued:

- `calls`: two processes at work with one call, or one process, which owns the run once, with two.
- `perm_authority`: two owners share one revision and two edits; one owner sees more of both.
- `tasks`: the token of one process at most is set. Setting a token is idempotent and the second token
  only repeats the cancellation of the same run.
- `explore`: of a second exploration, a second ownership, set tokens, writes and passed
  deadlines, any two happen; two processes share one exploration.
- `plan`: a change by others is followed up to the first verification, a first graph with no
  rollback up to one attempt made again, a rollback and its retry up to 7 attempts, which
  reaches the second graph's readings. With 5 attempts of the first graph, that leaves a death or
  an abort at every point of it, and of the rollback, the reopening and the replan.

The revision of `PermissionTickets` is raised by cancellations and by decisions in the threads
of calls, which are bounded by the calls, and by what the trusted side does on its own
account; `MaxRevision` occurs in the guards of `Show` and `ReplaceScope` alone and bounds
that. Two revisions let a decision come after a ticket and between the two checks of an edit.
`MaxTickets` is 256 in the code; 1 with two calls meets the limit. `MaxVersion` bounds the changes
of the input files. The three requests are a read, an edit, and the host tool that widens
the scope; the scopes are one with every capability but only the path that is read, and the empty one.

In `ToolBatches` the capacity is the code's, 2, and a batch on threads has at most 4 calls. The
script of `batch` lets a write follow two reads, of which one has a time limit, one may need an approval,
and one may come back with an unverified cleanup, while an exploration competes for
the permits; its last permit may be the one a hung read of the run holds.

- `restore`: before there is a preview the initial states stand for what users did, but for a run on an
  unchanged project; nothing is looked at after the operation ended. One edit and two
  failures let an edit meet a step, its recovery and the recovery of that. `RestoreMore` has two edits.

In `ModelCalls` a call reserves one token and uses none or one; two requests and three tokens
are the limits, so that three calls meet both; the breaker opens after one failure and closes
after one probe, `Recovery` and `Tick` are its clock. `CostLimit` 0 is no limit in dollars, which
is the default of the code. In `ExplorationTasks` a run has tokens for two attempts, so a retry may be refused. In
`PlanExecution`, `MaxReplans` is 2 in the code; 1 meets the limit. `MaxOps`, `MaxAttempts`, `MaxLives` and `MaxForeign`
are bounds of the model.

Fairness (`SandboxCalls!CallsFairSpec`). Weak fairness is assumed of the steps of a cleanup and of a
dispatching thread: each of their waits has a deadline (`_read_response`, the lock in
`sandbox_dispatch_lock`, the two-second poll of `SandboxCallAdapter.cancel`, the kill
after `CloseControl`), so no step waits for another actor for ever. Weak fairness of
`TargetExits` is the kernel's, through `--die-with-parent`. Nothing is assumed of a
supervisor, which may hang, of a lease, which may expire, or of a process, which may die.

`PermFairSpec` assumes weak fairness of the threads of calls. It includes that the approval
callback returns: `authorize_action` waits for it without a deadline. Nobody has to ask,
revoke, cancel or crash.

`ModelCalls!CallsFairSpec` assumes weak fairness of owners and workers. It includes that a request to
the provider ends, which the timeouts of the HTTP clients bound. Nobody has to cancel, checkpoint or restart.

`ToolBatches!FairBatchSpec` assumes weak fairness of the loop inside a batch, of the wait for a permit, and of the clocks
(`CleanupPasses`, `Deadline`). Nothing is fair about a worker thread or a tool, which may hang.

`PhaseTasks`, `ExplorationTasks`, `PlanExecution` and `WorkbenchRestore` are checked for safety only: their
owners may give up at any point (a lost lease, an exception), so nothing must happen.

## Theorems

`RunCoordinationProofs` proves, from `ConstantsAssumption` alone (the bound is a natural
number; `NoRun` is no run and `NoParent` no resource), for any sets of runs, processes
and resources:

- `TypeCorrect`.
- `OwnershipCorrect`: `OwnershipInv` is inductive. `SingleDispatcher` is not inductive by
  itself: that two processes cannot pass `assert_lease` at once follows from the
  generations, so the invariant carries that a lease never lies ahead of its row
  (`LeaseIsPast`), that two processes never hold the same generation (`UniqueOwner`), that
  a fenced row has no token and an owned one its newest generation
  (`FencedRunHasNoOwner`), and that the workspace has one busy run
  (`WorkspaceExclusive`). `SingleDispatch`, `CancelIsSticky` and
  `RetiredRunsAreIdle` follow.
- `ResourceCorrect`: `ResourceInv`, from which `EndedRunsAreClean` and `ResourcesFormForest`. A
  registration under a parent keeps the forest because a new resource is nobody's parent
  yet, which the invariant states of absent rows.
- `RegistryImplementsFence`: initial states map to initial states, and each action maps to a
  step of `WorkspaceFence` or stutters, under `OwnershipInv`. The busy run is a `CHOOSE`;
  `WorkspaceExclusive` makes it the acquiring run in every step that changes it.

`PermissionProofs` proves, from `PermissionAssumption` (bounds are naturals, the requests and
scopes are well-formed) and `DistinctAssumption` (`NoProposal` and `NoTicket` are no
proposal and no ticket), for any calls, requests, scopes, owners and bounds:

- `PermTypeCorrect`. It needs that a call in the callback has a proposal (`Asking`).
- `ConsentInformed`, from `Informed`. That a yes meets the proposal it was given to follows
  from the ids: a settled proposal has an id below the revision (`ProposalIds`), so a new one
  differs from every notice that a thread or the interface still holds (`HeldNotices`), and a
  yes that is on its way to `resolve` is on record for as long as its proposal is in place
  (`Promised`). Every step but `Propose` leaves the proposal in place (`Careful`).
- `InputsPinned`, from `TicketFits`: a ticket says what its call does. `UnsettledKept`.
- `CancellationIsFinal`, from `SomebodyAnswers`: if a proposal is undecided although the callback of its
  owner's cancellation ran, a call of that owner still asks about this very proposal, and
  looks at the token when it comes back, or its process died. `TicketsReturn`, from `TicketsInUse`.
- `PermissionImplementsAuthority`. The scope at consumption is the one the ticket was computed from
  because the ticket names revision and scope (`Usable`, `TicketFits`). That a decision ends
  the authority of all calls needs that the policy a call holds is never newer than the
  service's; that a consumption revives no older call's authority needs that within a revision
  the scope only grows (`RunInv`).

`SandboxCallProofs` proves, from `ConstantsAssumption` and `SingleRun` (the calls belong to one
run), for any processes, calls and generations:

- `CallsTypeCorrect`. Every step of a call, a coordinator or a supervisor takes the registry
  where a method of `RunCoordination` takes it (`StepsOfTheRegistry`), so the registry's
  theorems hold here too and its invariants are at hand.
- `CallsInvariant`: `CallsInv` is inductive. Its idea is `Harmless(x)`: the target does not run, and
  can never start, because the generation that registered the call is shut (`Shut`), or its supervisor is
  sealing its receipt or gone, or its thread is past planning and has none. Once true this stays true (`HarmlessStays`). Whoever writes a
  confirmed end has proof of it: a terminal receipt that confirms an end, the answer the thread
  settles by, and the settled row are `Good` (`ProofInv`), and so is what an owner found and is about to record (`ListInv`).
- `SettledCallsHaveStopped` and `SettledCallsMatchReceipts` follow from `ProofInv`.
  `ActiveRunsOwnTheirTargets` is `ActiveInv`: a call of another generation is harmless in an active run. It
  holds because of `ListInv`: an owner whose cleanup has met nothing unconfirmed may call
  harmless every call that is not on its list any more, and it activates or
  rolls back when the list is empty. `TargetsAreAlone` needs `OneOccupies`: a receipt is
  planned only while no other one occupies the workspace, and occupies it until it is terminal.

`ModelCallProofs` proves, from `CallsAssumption` (finitely many calls, limits that are naturals), for any
calls, clients, limits and number of restarts:

- `CallsInvariant`: `CallsInv` is inductive. The ledger, the checkpoint and the journal are each
  `Sound` (the counters are sums over the records), a restored record was
  known before (`KnownInv`), a call past its reservation is on record and an extraction's also in the
  journal (`CoveredInv`), and what a worker reads of its client does not move while it
  holds the client's lock (`LineInv`): that is why `CallsAddUp` can say
  that what is settled as actual is what the provider charged for this call. The merge of the journal after a restart is
  the hard step: two sums over different sets of calls that overlap.
- `CallsAddUp`, `CallsReserved`, `CallsQuiet`, `CallsFewFailures`, and `CallsNoRefund`, an action property.
- `CallsProbe` has the hypothesis `SharedClient`: all guarded calls use one client. The code has one breaker
  and one `model_client` per agent (`runtime.py`), and the run `model` has the same. The
  breaker has no lock; it is the client's lock that keeps a request of the time before
  the circuit opened from answering for a probe.

`ExplorationProofs` proves, from `ConstantsAssumption` and `ExplorationAssumption` (the tasks belong to
one run; a database holds finitely many of them; bounds are naturals), for any processes, tasks
and bounds, `MaxGen` takeovers included:

- `ExploreTypeCorrect`, and `ExplorationInvariant`: `ExploreInv` is inductive. A step is first
  classified by what it does to a row (`RowMove`), a thread (`WorkMove`), an owner (`OwnMove`) and
  the leases (`LeaseMove`); then each conjunct is shown to survive each kind of move.
- `OneWorkerAtATime` follows from `ThreadInv`: a thread that claimed its task belongs to the last attempt of the
  row, and the row names the generation of the thread's process. A retry would break this,
  but it needs `Stopped`: the row is not clean while it runs (`RowInv`), so
  the process of the thread must have exited.
- `LostWorkersHaveWitness` follows from `WitnessInv`: a lost row has its thread or an exited process. It
  includes the rows that run, which may be lost in the next step.
- `OwnerWritesAlone` follows from `OwnerInv`: an owner that reconciles or writes has no thread at all, and a
  task on the list of a restoring or delegating owner has none in its process.
- `CleanRowsHaveStopped` is inductive together with `ExploreInv`. Before a takeover only one
  process has threads or an owner, so whoever confirms a cleanup is the thread itself or an owner that has
  the task on its list.
- `TokensAreAccounted` needs that a row that was never delegated is charged nothing; one retry
  changes one term of the sum, a batch fills in terms that were zero, and no other step
  adds to a term.

`PhaseTaskProofs` proves, from `ConstantsAssumption` and `PhasesAssumption` (one run, the tasks of the
three phases), for any processes, `MaxGen` and choice of faults:

- `TasksUseRegistry`: every behaviour of `TasksSpec` is one of the registry's `Spec`. A thread calls
  the registry's methods with what it has read, and `StepRegistry` shows that this is always
  within what the registry is asked by anyone.
- `TasksTypeCorrect`, and `TasksInvariant`: `TasksInv` is inductive. Its core is `ThreadOK`, which
  ties the program counter of a thread to its phase, row and goal, and `RowsInv`: a version is `fresh` only
  while its row runs, because every write of the row outdates it (`Outdated`).
- `RowsAreNeverAhead`, with `SeenIsTrue`: between the read of a task and the write of its
  resource row other processes may act, but an end that was read is for good.
- `CancelRequestsStick` and `EndsAreFinal`, action properties, from what a step can do to a row (`RowMove`).
- `TasksCompleteInOrder` has the hypothesis `"task" \notin Faults`, which the run `tasks` has too. Without it the
  property is false: if the lease of a task runs out beside its living owner, `complete_task`
  raises, the exception is swallowed, and a later advance completes the last task. The
  invariant is `OrderInv`. In the first generation one thread runs (`RunningOwns`,
  with `UniqueOwner` of the registry), running tasks keep their leases (`LeasesHold`), and the thread has the tasks of the
  earlier phases completed, or may never dispatch again (`EarlierDone`): a lost lease of the run
  lets no later advance through, and a thread that was told to cancel completes nothing as completed.

`ToolBatchProofs` proves, from `BatchAssumption` and `ScriptAssumption` (finitely many calls and explorations; a
call is one occurrence, asked for once, as `create` demands of a batch), for every script of batches, every choice of
effects, limits and approvals, and both capacities:

- `BatchInv` is inductive. Most of it is `LoopOK(o)`, which speaks of one loop and its own calls: a step of
  a loop or of one of its threads is `Local` and keeps the invariant of the other loops (`Elsewhere`). Nothing is known
  of a call before its batch (`NotYet`), what is open is pending or belongs to the batch (`InsideOK`, `OpenOK`),
  and a thread that holds a permit belongs to a call that runs or is "uncertain" (`ThreadsOK`).
- `PermitsAreBalanced` is the accounting: `HeldMoves`, `LeaseMoves` and `MainMoves` say what one thread or one
  lease that comes or goes does to the cardinalities. A child that leaves while its reads run only
  gives up its own reference.
- `EffectsRunAlone` needs `SerialOK` and `GateOK`: whatever was given up while it may hold a permit or write
  has set `unsure`, and a loop that is unsure starts no effect on its own thread.
- `BatchTypeCorrect`, `AnsweredCallsHaveStopped`, and `AnswersAreFinal`, an action property.

The last part of `RunCoordinationProofs` proves what a sum over a finite set is after one term changed, and how sums compare. The library's
induction theorems take an operator and cannot be applied, so `NaturalInduction` and
`SubsetInduction` state induction over a set, and rest on minimal elements of a well-founded order.

`JournalProofs` proves the two modules about what a crash leaves behind.

Of `PlanExecution`, from `PlanAssumption` (finitely many reads, which are none of the other three nodes; bounds
are naturals), for any number of reads, attempts, operations, processes, graphs and changes by others:

- `PlanInvariant`: `PlanInv` is inductive. Every step of the owner is one append of the journal, and recovery knows only
  the journal, so the invariant says what each prefix of the appends may look like. `OwnerInv`: outside a
  recovery what is open is what the owner has in hand, and the attempt it settles holds its node.
  `RecoveryInv`: a recovering process still has in its queue whatever is open, or has met something that
  makes it refuse the run (`me.bad`). `ReadInv`: only reads are side by side. `NodeInv` and `AttemptInv` tie nodes,
  attempts and versions to each other.
- `OneAttemptWrites` follows from `EditInv`: once an edit was sent, for all the journal tells, its node is not
  startable in this graph and no other attempt of it is prepared. This is what `restart_safe` preserves: it reopens a
  node only when its attempt sent nothing (`Restartable`).
- `WritesAlone` follows from `LiveInv`: what still executes holds its node, which is "running" or "uncertain", so nothing
  that depends on it is ready; it is never beside something the owner starts.
- `VerifiedAsEdited` follows from `PatchInv`: while nobody else changes the tree, an edit that succeeded is the last
  write (`PatchIsThere`) until its rollback begins. It must say so also in the middle of a settlement and for an open
  edit or verification that the next process finds.
- `JournalAgrees` and `PlanTypes`. `RefreshFacts`, `SetNodeFacts`, `OutdateFacts` and `RestaleFacts` say what the reducer
  and the refresh do to a graph.

Of `WorkbenchRestore`, from `RestoreAssumption` (finitely many paths, directories one level deep, files are no
directories) and `ValueAssumption` (the outputs of runs are trees; `NoPlan` is no plan and `NoOp` no operation), for any
operations, contents, numbers of edits and faults:

- `RestoreInvariant`: `RestoreInv` is inductive. The steps of a plan are sorted by `Cardinality` of what goes before, so
  `PlaceIsTaken` (a finite strict order has an i-th element) shows that they cover the paths that differ.
  `BackupInv` names the source of every backup, `ChildInv` says that a recovery starts from files that are
  as before or as the target, `FoundInv` that what was scanned is still there where nobody edited.
- `NoEditIsLost` is a conjunct: a step overwrites only what its backup holds, and a backup is removed only if it is what
  was planned (`AsPlanned`), and what was planned is in the history (`Sourced`) or is put back by the same rollback.
- `OperationsEndAsDecided` follows from `ReceiptInv`, `EndedInv`, `BackupInv` and `FoundInv`. `RestoreTypes`.

The two inductive invariants were checked by TLC on the instances of the runs `plan` and `restore` first.

Out of the prover's reach and only checked: liveness under fairness (`CallsComeToAnEnd`, `CallsReturn`, `WorkersEnd`,
`BatchReturns`). `RecoveryGoesThrough`, which says that whatever was interrupted is accepted by one of two decisions and that
a call in which nothing fails goes through, but for the exception under Findings, is not proved either: it needs an invariant for every state of every
step of a plan. Every other property of a passing run is stated by a theorem.

## Findings

`plan_baseline`: `lifecycle.py:153` takes the initial snapshot of a run from the tree it
   finds, also when it resumes. If the owner stopped after its edit was settled, that tree holds
   the patch. When the verification then fails, the rollback restores the patched tree onto
   itself, is recorded as completed, and the graph of the retry is planned on top of the failed
   patch, although `docs/PLAN_DAG.md:24` asks for a confirmed rollback before a new graph. The
   journal has the right tree (the event `baseline`), which is read only to export a patch.
Further disagreements, each with a configuration that shows it:

- `CallsDocs` (`ConfirmedReceiptAdopted`): a terminal receipt with `output_limit_exceeded` and confirmed
  cleanup is read as `unknown` by `SandboxCallAdapter._result` (`adapters.py:186`), so the run ends in
  `recovery_required`, although `docs/RUN_COORDINATION.md:28` says that a confirmed
  terminal receipt is adopted.
- `CallsDocs` (`ReportMatchesRegistry`): `RunCoordinator.cancel` computes the report from the adapters'
  results and then calls `finish`, which may find a row that has changed since: a dispatching
  thread between `register_resource` and `transition_resource("running")` overwrites its confirmed
  `not_started` row with `unknown` (`routing.py:142-159`). The caller is told "cancelled"
  while the registry holds `recovery_required` (`tests/test_run_coordination.py:86-88`).
- `PermStale` (`CancelLeavesNoApproval`): `docs/history/superpowers/plans/2026-10-11-sandbox-s5-record.md:11`
  says that a cancellation makes the proposal stale. A call that passed the token check
  (`permissions.py:396`) before the token was set proposes after the callback ran; when the
  interface approves it while the callback of the call is open, the call's own `resolve`
  raises (`:476`), and `authorize_action` leaves before it looks at the token again (`:479`).
  The proposal stays approved, and a later call of the same action would be authorized by it.
- `TasksPhases` (`RecoveryMeansUnconfirmed`): `_advance("done" or "failed")` completes the verify task
  only (`repair_runtime.py:244`). A repair that ends in the patch phase leaves its patch task running, so the run
  ends in `recovery_required` although nothing is unknown
  (`docs/REPAIR_STATE_CONFIG_CONTRACTS.md:5`).
- `TasksPhases` (`PhasesAligned`): after a failed verification the patcher runs again while its
  task is completed and the verify task is the running one (`repair_runtime.py:254`; `:15` says
  "Keep phase execution and durable task state aligned").
- `TasksAttempts` (`AttemptsWithinLimit`): `claim_task` raises `attempt` past `max_attempts`
  (`store.py:187`, against `contracts.py:87`), and since every process claims as "orchestrator",
  an owner that lost its lease claims a task after its successor. From then on every advance raises.
- `TasksGuess` (`NeverGuessedStopped`): the row of a task keeps the name of the process that
  registered it. Once that process has exited, a third owner calls the task failed with confirmed
  cleanup while the second, stalled, executes it (`adapters.py:135`, against `:108`).
- `ExploreStale` (`CleanMeansStopped`): a thread that is told to stop before it claims its task declares
  it stopped (`exploration_runtime.py:366`), whoever holds it by then. After a takeover with the task still
  queued that may be another process, whose running attempt is then recorded as ended with
  confirmed cleanup, so the drain before a write no longer sees it. The design document
  (`docs/history/superpowers/specs/2026-09-30-subagent-readonly-exploration-mvp.md:60`) reports a
  worker that has not exited as `worker_lost`, its cleanup unconfirmed.
- `ExploreReopened` (`EndedRunIsQuiet`): after a crash the row of a queued exploration is settled as
  completed; `restore` queues the task again and leaves the row, so the run may end while the new
  worker explores (`exploration_runtime.py:284`, against `docs/REPAIR_CONTRACT.md:26`).
- `ExploreReleased` (`CleanRunIsReleased`): the rows of explorations are settled by `close`, after
  `end_repair_trace` has ended the run (`events_service.py:168`). `finish` finds them open, and a repair that
  delegated anything ends in `recovery_required` with nothing unknown; the transition in `close` then raises.
- `PlanResumed` (`PreparedIsRestarted`): `docs/PLAN_DAG.md:32` says that a prepared node that was not
  dispatched can safely be prepared again. A node that `_refresh_replan_evidence` opens again
  (succeeded, stale, ready) keeps the id of its old attempt. If the process dies between the append
  of the new attempt and the commit that gives it the node (`session.py:590-592`), `recover`
  compares the two before it looks at the phase (`recovery.py:63-65`) and raises
  `resume_attempt_identity_mismatch`, now and at every later resume.
- `PlanResumed` (`RecordedResultIsAdopted`): the same page says that a trusted result that was
  recorded before the plan was updated is adopted once. `PlanAttemptAdapter` demands operations of
  it (`adapters.py:85`), and an analysis, a verification and an adopted observation have none, so their row stays
  unknown and the run is refused before `recover` could adopt the result.

- `BatchesUnclean` (`UncleanIsKnown`): `docs/TOOL_BATCH_TURN_PROGRESS.md` says that an unconfirmed
  cleanup sets the existing gate `execution_uncertain`, and that a timeout uses the same boundary.
  A thread that comes back after its time limit, and reports that its cleanup is not
  guaranteed, is answered as `tool_timeout` with `termination_guaranteed` (`tool_batch.py:421-427`),
  so the gate stays open and a later write is let through.
- `BatchesNested` (`OneCallAtATime`): `read_permits.py:41` says that a nested batch runs one call at a
  time. An abandoned read of an exploration goes on under the borrowed permit while the next batch
  of the same exploration starts another.

- `RestoreMkdir` (`InterruptedIsRecoverable`): `docs/WORKBENCH_S3.md:76` and the comment in `steps`
  say that intermediate modes are in the journal, for recoveries. `mkdir` makes a directory with mode 0700 and
  `fchmod` gives it the planned one (`files.py:397-400`). After a crash between the two the mode is
  neither the old nor the new entry, `_known_live` takes it for a new edit, and both decisions are refused.
- `RestoreEnds` (`ContinuedRecoveryEnds`): `docs/WORKBENCH_S3.md:87-88` says that a recovery that was
  interrupted itself need only be continued. `_recover_child` reads the path of every step before it skips those that
  are done (`restore.py:628-629`), and `read` takes only a missing entry for none (`files.py:203`). When a file
  replaces a directory that had entries, and the recovery is interrupted after the file is published, opening it as the directory of
  the entries that were removed raises `NotADirectoryError`, now and at each further attempt, though nobody edited anything. The
  other decision is refused, and `reconcile_committed` leaves an operation with an open recovery alone.
  `RecoveryGoesThrough` excepts such plans, in a recovery that is continued, and no other.
- `RestoreEnds` (`BackupNameIsFree`): the name of a backup comes from operation, step and path. When a
  recovery is interrupted after it moved a file and the user puts the content back, which
  `docs/WORKBENCH_S3.md` asks for, each further attempt finds the name of its backup taken and fails.
- `RestoreEnds` (`ReceiptCanBeCleaned`): an edit that comes between the read of a step and its rename is
  kept in the backup. If the user then completes the restore, the history is committed, and the
  cleanup refuses that backup for ever; the documentation says that the user need only complete, and
  that internal backups must not be removed by hand.

Observations without a run:

- Tickets of a crashed process stay in the table until the next decision, and count towards
  its limit of 256.
- A run in `recovery_required` occupies its workspace (`store.py:236-245`). If the receipt that
  keeps it there never becomes terminal, every other run of the workspace is refused until an
  operator intervenes.
- Tasks complete out of order when a task lease runs out under a living owner, and after
  takeovers; after a crash with an expired task lease every advance is swallowed.
- The cancel callback of an owner that lost the run invalidates the explorations of its successor too.
- A process that dies between a failed verification and its rollback leaves a run that can
  never retry (`replan_rollback_unconfirmed`), and one that dies during a rollback, or between the request for a
  new graph and its commit, leaves one that is never opened again.
- A rollback after the critic or the protected interfaces refused a patch leaves no failed
  verification, so the retry that follows it is refused.
- `PlanAttemptAdapter` calls an edit completed whose only operation was a read; `recover`
  marks the same edit uncertain.
- The evidence of a verification is taken after the tests: a change of the tree while they run, or between the
  edit and them, is not noticed. `CompletedIsVerified` therefore excludes changes by others.

## Not modelled

The storage formats (SQLite journals, checksums and seals, receipts as bytes), the texts that agents read and
write, memory, context and prompts, routing and code exploration, provider protocols, mounts and
cgroups, and the offline evaluation, which together are most of the source lines: they are sequential code about
text, formats and scores, with little that an interleaving or a crash could upset, and what they do to a
string is better tested than modelled. `PROJECT.json` gives the reason for each component.

## Plan

1. Done: `RunCoordination`, `WorkspaceFence`, `RunCoordinationProofs`, `SandboxCalls`, `SandboxCallProofs`,
   `ModelCallProofs`, `PhaseTaskProofs`, `ToolBatchProofs`, `JournalProofs`,
   `PermissionAuthority`, `PermissionTickets`, `PermissionProofs`, `ModelCalls`, `PhaseTasks`,
   `ExplorationTasks`, `ExplorationProofs`, `PlanExecution`, `ToolBatches`, `WorkbenchRestore`.
2. Proofs: that a call of the restoration in which nothing fails ends its operation (half of
   `RecoveryGoesThrough`); that a settlement asks for no move the reducer refuses (`PlanMore`).
3. Modules: `WorkspaceCommits` (broker commits and their intents), `EditTransaction`, `RepairLoop`, `WorkbenchJobs`.
