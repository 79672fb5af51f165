# Formal models of CodeWave

CodeWave is a desktop application (Rust core, TypeScript user interface) that runs coding
agents in a workspace.  Several of its processes may work on one workspace and one data
directory, each of them may be killed at any time, and parts of the work run unattended.
This directory models the parts of the core in which that is hard: TLA+ modules translated
from the source, TLC configurations for small instances, and TLAPS proofs for all sizes.

Paths below are relative to `src-tauri/src/`.

## 1. Running the checks

    tlc -workers 2 -config LeaseStoreMC.cfg LeaseStoreMC     # any row of section 5
    tlapm LeaseStoreProofs.tla                               # any *Proofs module

`PROJECT.json` lists the runs, the source lines each definition translates, a fault for each
property that the property detects (definitions commented "Fault:"), the hazards and the
findings.  A definition commented "Fault:" is part of no specification.

## 2. Inventory

| Component | State | Operations | Talks to |
|---|---|---|---|
| Lease store `core/process_coordination/owner.rs`, `mod.rs` | one file per resource, a generation counter file, OS file locks | acquire, release, force_release, next_generation | everything that coordinates processes |
| Shared transactions `core/process_coordination/transaction.rs`, `workspace.rs` | `transactions.lock`, temporaries beside their targets, `pending/`, journal directory | commit (stage, record intent, apply, seal), recover | leases (checked before a commit); start-up in `lib.rs` |
| Process guardian `core/process_coordination/guardian.rs`, `workspace.rs` | guardian process, watched process groups, anchors, receipt, settlement | launch, register, sweep, finish, reap after the host's death | lease of the workspace root; command tools; run lifecycle |
| Scheduler `core/scheduler.rs` | task table in memory, one file per project task, generations, reservations, execution lock | create, edit, delete, restore, collect, claim, run, finish, retry | projects, atomic writes, the agent |
| Run lifecycle `core/agent/runtime.rs`, `drive.rs`, `host/commands/session.rs` | run snapshot, running, token, injection queue, guard slot, clean-up flag, compacting | start, step, inject, cancel, delegate, finish, reconcile, compact, launch_run | session store, guardian, tools |
| Wait targets `core/wait_targets.rs`, `tools/wait.rs` | registered targets, results, waiters | register, complete, wait, consume | batches, sub-agents, services |
| Sub-agents `tools/subagent.rs`, `agents/` | children of a run, results | spawn, wait, cancel, collect | run lifecycle, wait targets |
| Tool batches `tools/batch.rs`, `writelock.rs`, `claims.rs`, `scope.rs` | running tasks, semaphores, write gate, path claims, write locks, plan and its approved scope | start and stop a batch, pass the gates, claim, lock, read and write | command, edit and file tools, user |
| Session store `core/sessions/` | session metadata, owners, segment files, interrupt marks | claim, append, seal, repair, clean up | lease store, run lifecycle |
| Configuration commits `core/config_commit.rs`, `core/config.rs` | `config.json`, journal of records and tombstones, keyring accounts; digest, versions and recovery block of an instance | load, recover, draft, commit (intent, secret, file, receipt), replay | settings of every component, keyring |
| Delivery `core/delivery/` | contract, candidate, acceptance, receipts | propose, accept, validate, complete | run lifecycle, workflow |
| Workflow `core/workflow/` | nodes, attempts, routing | dispatch, route, finish | delivery, sub-agents |
| MCP manager `mcp/`, `host/commands/mcp.rs` | pool of entries (configuration, generation, connection, referring sessions), approved launches, tool snapshots, `CONFIG_COMMIT` | save, reconcile, connect, approve, revoke, release, evict, call | configuration file, run lifecycle, tools |
| Background services `tools/service.rs` | service processes, logs | start, stop, probe | guardian, wait targets |
| Approvals, fence, ask `safety/`, `tools/ask/`, `tools/plan.rs` | pending questions, approved plan | ask, answer, time out | tool batches, user interface |
| Providers `provider/` | key pool, retries | stream, rotate, retry | run lifecycle |
| Quota, statistics, memory, skills, git, prompts, updater, user interface | counters, caches, views | read, poll, render | |

How they interact.  A run starts by settling its predecessor, claims its session in the
lease store (`claim_session_owner`), claims the workspace root and launches a guardian for
it (`WorkspaceGuard::acquire_global`), and drives the model and the tools until it ends or
is cancelled.  Commands go through the guardian.  When the run ends the guardian is settled
first and the session owner released afterwards.  The scheduler starts unattended runs of
the same kind.  At start-up shared transactions are recovered before anything else; a
failure refuses the start.

What is hard: processes that die between any two file operations; files that are visible
before they are durable; checks made before a lock is taken; results that arrive late; retries of
what was done before; unattended work that must not be repeated; processes that outlive the
one that started them.

What makes each component correct:

- *Lease store*: one holder at a time; a late release never takes a successor's lease, and
  generations never repeat or go back, as long as their counter is read; every call returns.
- *Shared transactions*: all or nothing over several files; recovery completes what was
  decided in the order of the leases; a start is not refused because of an ordinary crash.
- *Guardian*: nothing of a run executes after its root was handed on or its clean-up was
  reported; what a dead host started is killed; the root is then freed.
- *Scheduler*: no time executed twice; no revoked or missed work executed; no result lost;
  what the list shows survives a power loss; nothing is stuck as running.
- *Run lifecycle*: a run works only while it owns its session and its root, and so do its
  children; an accepted message is read before the run ends as done and is answered in any
  case; a compaction and a run never change the history together.
- *Tool batches*: two writers never stand between reading and writing the same file; what a
  sub-agent wrote is its own while it lives; a step outside the approved plan is asked for;
  a stopped batch returns.
- *Configuration commits*: the secrets the saved file refers to exist at every moment and none
  is lost track of; an operation sent twice is carried out once; no save undoes another.
- *Wait targets*: a completion is delivered once and never missed by a waiter that registers
  concurrently.
- *Sessions*: a crash between two files leaves one of the two versions.
- *MCP manager*: a call runs on the connection whose definitions the model saw; what no session
  refers to is closed; an entry at rest has the saved configuration and does not wait for a
  connection that nobody makes (not so in three cases: section 7).
- *Delivery, workflow*: no step is taken on a stale candidate or attempt.

## 3. Modules

| Module | Kind | What it is |
|---|---|---|
| `FencedLock` | abstract specification | owners of resources; a grant is newer than all earlier ones until the count is lost |
| `LeaseStore` | component | the files, locks and steps of `owner.rs` |
| `Transactions` | component | one action per file operation of a commit and of recovery |
| `Guardian` | component | hosts, guardians, anchors, commands |
| `Scheduler` | component | table, files, supervisor, workers |
| `SessionRuns` | component | the runs of one session, its messages, children and compaction |
| `ConfigCommit` | component | instances, drafts, the files and the keyring |
| `ToolBatch` | component | the calls of a main session and its sub-agents on their way to a file |
| `McpManager` | component | the pool of MCP connections, the operations on it, the calls of agents |
| `LeaseStoreProofs`, `TransactionsProofs`, `GuardianProofs`, `SessionRunsProofs`, `ConfigCommitProofs`, `ToolBatchProofs`, `McpManagerProofs`, `SchedulerProofs` | proofs | section 6 |
| `LeaseStoreMC`, `TransactionsMC`, `GuardianMC`, `SchedulerMC`, `SessionRunsMC`, `ConfigCommitMC`, `ToolBatchMC`, `McpManagerMC` | instances | constants of section 5 |

How they fit together.  `LeaseStore` is tied to `FencedLock` by refinement.  The others use the
lease store and the guardian through what those two modules establish: a transaction id is
a lease and may lose it at any time (`LeaseEnds`); the root of a guardian is granted when free
and freed only by its holder; in `SessionRuns`, `lease` is a resource that one owner holds at
a time (`FencedLock`), `root` is freed only after the receipt of its guardian
(`SettledIsClean`), and a receipt may fail to come (`faults`).  `ToolBatch` is one
step (`ToolBatch(r)`) of a run of `SessionRuns`, and the end of a drive there is the end of a
child here.

### LeaseStore

`file`, `gen`, `ownerLock`, `genLock` are the lease files, the counter file and the OS locks;
`pc` and `lease` are the threads, several of which share a process.  A claim is
`AcquireGate` (DiskLock), `CreateNew` (O_EXCL create: the file exists and is empty),
`ReadGeneration`/`WriteGeneration` (counter under its own lock), `WriteRecord`; `FindHolder`
is the answer to an existing file, `DrawFails` and `WriteFails` are the error paths, in which
the removal of the placeholder may fail as well.  A release is `ReleaseGate`,
`CheckGeneration` or `RefuseRelease`, `RemoveFile`.  A read may fail: a lease file then counts as
unreadable, and the counter as 0 (`Draw`), which `lost` remembers; `MaxLost` bounds how often.  `CallRecover` is the recovery of a
session whose holder is proven gone: the record is read without the lock and released later.
`force_release` has no caller in production; it is modelled for `Reaper` callers.  `Crash`
ends a process with all its threads and drops its locks.  The counter's `u64::MAX` is `MaxGen`.

A session run is driven by one task, so a run does not claim and give back its own lease
concurrently (`RunQuiet`); late releases of older leases are possible at any time.

### Transactions

Per call of `commit`: `temp` (each temporary is absent, partial or complete), `pending`,
`journal`, and `jtemp`, the temporary through which `atomic_write` creates the journal in the
same directory.  `Decide` is the rename of the journal.  Every step may be followed by a
crash; `MaxFaults` operations fail, with the error path the code takes (`StageFails`,
`DirectoryFails`, `DecideFails`, `ApplyFails`, a failing `Seal` or `ClearPending`), including
`discard`, which goes on after removals that fail.  Recovery is `TakeRecoverLock`, `List` or
`ListFails`, then `Pick`, `Roll`, `RemoveJournal` per journal, oldest lease first, then
`DiscardPending` and `EndRecovery` or `EndFails`; its errors are `Refuse`, since the application
does not start, while a temporary that cannot be removed is only logged and stays.  A complete temporary journal is listed like a journal, because `list` parses every
file of the directory.

### Guardian

`call` and `settled` are the host's side (`GuardianClient`, `WorkspaceGuard::settlement`),
`guard`, `groups` and `receipt` the guardian process (loop, watched groups, completed file),
`leader`, `members` and `anchor` one process group.  `Spawn` starts the guarded-exec helper,
which asks; `Register` puts the anchor into the group and answers (the answer may be lost);
only then `Exec`.  `Sweep` is the top of the guardian's loop, `HostGone` and `AcceptFinish`
end it, `Terminate` kills through live anchors, `Quiet` is the wait for empty groups and for
the servers' guardian, `WriteProof` and `Release` follow.  `AnchorKills` is the anchor that
finds the guardian gone.  `GuardDies` stands for a killed guardian and for each of its error
exits, the five-second deadline included; they are counted in `faults`, and so are expired
deadlines of the host.

### Scheduler

`mem`, `gens`, `pending` are the task table; `disk` and `durable` are the task files and what
of them survives a power loss: `atomic_write` may fail before the rename or report a failed
directory sync after it (`Outcomes`).  Table operations run under `mutation_lock`, so each is
one action.  `CollectDue` makes candidates and spawns workers; a worker waits for the
execution lock (`TakeExecLock`), claims durably (`Claim`) or is rejected, runs (`StartRun`,
`EndRun`), stores the result (`FinishRun`) and finally releases its reservation
(`ReleasePending`, spawned by a guard's drop and therefore late).  `Restore` and `Recover`
are the restart.  Sessions without a project keep their tasks in memory only.

### SessionRuns

`running`, `runId`, `cleanupDone`, `slot`, `accepting`, `activeCancel` and `compacting` are the
fields of `SessionRuntime`; `pc`, `outcome`, `step` the locals of a run; `owner` and `marked` what the
session store has in memory, `indexed` and `shown` the entry of the session in the index and its
mark, `lease` and `root` the leases on disk.  A start is `Begin` or `Refuse`, then
`ClaimOwner`, `AcquireRoot`, `CheckCompacting`, `SpawnMark`, `Spawn`, in the order of `start_chat`;
the loop is `Arm`, `BeginStep`, `ModelTurn`, `TextTurn` or `ToolBatch` (after `Answered` when a call
has to ask the user), `Gate`; the end is `CloseWindow`,
`Disarm`, `StopDescendants`, `Descended` and the two ways of `finish_run`, `FinishSettles` and
`FinishReleases`, then `Emit`.  A start that finds a run whose clean-up was not confirmed
settles it first (`Reconcile`); `Settled` and `SettleHeld` are the settlement that succeeds and
the one that does not.  `Abort` is
a dropped or panicking task whose guards still run.  `LaunchMark` to `LaunchUnshow` are what
`launch_run` does after `start_chat`: two calls of `mark_running`, a critical section each action.
A new session has no entry in the index: its mark is in memory until the first save makes the
entry (`Checkpoint`, in the drains, every few steps and at the end), which may be that of a
renaming (`RenameReads`, `RenameWrites`: the mark is read before the index is locked).
`CompactSlot`, `CompactCheck` and `CompactEnd` are `compact_session`.  `ref` is the clone of
the guard that each child keeps; a settlement is refused while any is left.

### ConfigCommit

`disk` is `config.json`, cut down to what the properties tell apart: which save was last, which
save set the page fields and the role, and where the secrets of the provider are.  `records`
and `expired` are the journal and its tombstones; `keyring` says for each generated account
whether its parts are absent, some or complete.  A start is `Load` and `NoteDigest`, the two
readings of the file, of which either may fail: the first then gives the default configuration
(`Blank`), the second no digest, with which no save passes its check; `RecoverDeletes` and `RecoverWrites` clean up what no record and no file
refers to, `RecoverRefused` leaves the instance blocked.  `DraftSave` is the client, which keeps
the operation id and may send the same draft again, to another instance too.  `Begin` is `commit` up to the
lock, its replay and conflict checks and the patch; `WriteIntent`, `WriteSecret`, `WriteConfig`,
`WriteReceipt` follow, each with its failure, and `Replay` is the answer to an operation that was
carried out before.  `applied`, `raced` and `defaulted` are history: operations past the commit
point, starts that noted the digest of a file they had not in memory, and starts whose first
reading failed.  `Legacy` are the accounts with a name that the clean-up does not accept
(`config_commit.rs:852`).

### ToolBatch

A slot is a place for one call of a batch; `at` is where its task stands: the gate, the
confirmation, the scope gate (`EnterScope`, `AllowScope`, `DenyScope`), the claim table (`Claim`),
the locks (`TakeLock`, in the order of the paths), reading, writing, checking.  `mark` says what became of
a task that is no longer `kept`: `aborted` by its batch (`Abort`), or `stray`, when the whole
drive was dropped (`DropDrive`) and nobody waits for it; both end only when they are next polled
(`DropTask`).  Claims are released once the drive and all of its tasks are gone (`LeaseEnds`).  `todos`,
`scope` and `card` are the plan of the main session, its approved baseline and the titles on
the card.  `consented` and `touched` are history.

### McpManager

`known` and `pool` are the entries: the configuration, the approved launch, the state, the
generation, whether a task is making the connection (`busy`), the connection and the sessions
that refer to it.  `grant` is the `LaunchRegistry`, `sessions` and `seen` are the sessions
registered with the pool, `disk` the configuration file, `commit` the mutex `CONFIG_COMMIT`.
Every action that touches the pool is one critical section of its lock; what a handler does
between two of them is a place (`op[c].pc`, `task[t].pc`) at which others may step in.

An operation of the user takes a caller: `Save`, `CollectSaved`, `Reconcile`; `Warm`; `Connect` or
`Reconnect`, `ConnectAgain`, then `Register`; `Approve`, `CollectApproved`, then `Name` and `Register`
for one session after the other; `Revoke`, `RevokeAgain`; `Disconnect`; `Close`, `ReleaseClosed`,
`ReleaseOpen`.  `Apply` is `apply_sessions`, and what it leaves to connect is handed to tasks by `Spawn`.
A task is `ensure_at`: `Permit`, `Admit`, `TurnAway` or `Deny`, `Reserve` (with the evictions), `Listed` or
`Fail`, and `set_ready` as `Recheck`, then `Publish` or `Refuse`, because it looks at the registry
before it takes the lock of the pool.  An agent takes a `Snapshot` of definitions, `Request`s one
of them, may have it `Allow`ed for good, and `Call`s.  A permit is one token in all its copies:
`Voided` is what cancelling it does to the tasks that carry it.  `conn` in a binding is history:
the connection the definition was listed from; the code compares generations.  `outrun` and
`forsaken` are history too, and name what `QuietIsSettled` leaves out (section 7): the entries
that an operation with an earlier reading of the file configured last; and those that
`connect_named` configured on the way to another server, or that a permit given up half way left
busy, until a task is admitted to them.

## 4. Abstractions

- Text, formats, logs, run summaries and statistics are left out; a record either parses or not.
- Leases: `history:`, root and process resources differ in their key only.
- Transactions: contents are the call that wrote them; targets outside a commit do not
  change; unreadable announcements are skipped as in the code; a process has one committing thread.
- Guardian: unix behaviour.  A command that leaves its process group (setsid) is out of sight
  of the code and of the model.  Process identities are exact: the start time recorded
  with a pid makes reuse visible, and a failing probe never counts as an exit, so it only delays.
  A server guardian's own lease has a resource nobody else wants and is left out.
- Scheduler: the counter of generations is per task (the code's is global, only equality
  matters); a project that is closed and one that is gone are one case; the agent run is one
  step with side effects; the clock does not go back; an unlink is not synced and a power loss
  may undo it; spawned workers are limited by `Slot`.  The files of the previous process
  (`FilesAssumption`) are what that code writes: no mark of an unsaved result, a history within its
  limit, an answer for every once without a next time; all its runs have the number 0.
- SessionRuns: one session.  A model turn is one step, with its retries and fallbacks; a turn
  fails, is stopped, calls tools or answers.  Children do not delegate; a child or a message that is
  done with may come again.  The index is the entry of the session with its `running` mark; what
  another instance writes there is left out, and a save of a run reads the mark and writes the
  entry in one step (only `launch_run` could come in between).  The other sessions of the workspace are other holders of the root.
- ConfigCommit: one provider account, whose parts are written in an order that only shows as
  "some"; the order of records, which decides what is compacted, is the set of older operations;
  tombstones are an exact set with a limit instead of a Bloom filter, so that the model never
  refuses a new operation for a false positive; a configuration that cannot be read is one fault
  (`RecoverRefused`, `Unreadable`); no file counts as the default configuration in it.  A digest
  is the configuration it was made of: the code serialises maps in no fixed order, so that it
  may refuse a save which the model lets pass, and a refusal changes nothing.
- ToolBatch: a file is read and written without a suspension in between, as in the code, but other
  tasks run in parallel threads; document, MCP and other tools are a step that takes any time
  (`busy`); a directory deletion reads and writes like an edit and is answered after the same check;
  titles stand for themselves, `Refines` for the comparison of their normal forms.
- McpManager: one configuration file and one tool for each server; a handshake answers, fails, times
  out or is cancelled in one step; the least recently used of the entries without references is any
  of them; whether an evicted entry may be connected again already (`EVICT_DEBOUNCE`) is open;
  revisions follow generation and configuration; the file is saved and the launches are voided in
  one step, as under `CONFIG_COMMIT`; a slot is reserved and the entry marked as starting in one
  step; the sessions that a save reconciles are read at once; a snapshot is taken between calls;
  the user's answer to a call is part of the next step; the service taken out of an entry is closed by
  a task that touches nothing else.
- Bounds: every `Max...` constant and the sizes in section 5.

## 5. Runs

| Run | Instance | Shows |
|---|---|---|
| `lease_store` | 2 threads of 2 processes with a run each, one of which forces releases, 2 resources (one is wanted by both), 2 generations, 1 misread counter | `HeldOnDisk`, `CallsReturn`, `ImplementsContract` over all interleavings, crashes, failing reads and writes |
| `transactions` | 2 processes, 2 commits sharing a target, 2 faults, any number of crashes | `AllOrNothing`, `JournalIsRedeemable`, `NewestLeaseWins` |
| `guardian` | 1 host, 2 runs, 1 server, 2 commands, 1 fault | `RootCoversCommands`, `SettledIsClean`, `OrphanReceiptCoversServers`, `OrphansDie`, `RootIsFreed` |
| `scheduler` | 1 task, 2 workers, 1 edit, 1 manual run, 1 failing write, 2 crashes | `RunsAccounted`, `ClaimOutlivesRun`, `ShownIsDurable`, `NoReplay`, `OnceIsAnswered`, `DeletedStaysDeleted`, `RevokedNeverRuns`, `OnceRunsOnTime` |
| `scheduler_live` | 2 tasks, 2 workers, 1 manual run, 1 edit, 1 failing write | `DueIsServed`, `ResultsAreSaved` |
| `session_runs` | 2 runs (one through launch_run) of a session with or without an entry, 1 child, 1 message, 2 steps, 1 fault | `OwnerCoversRun`, `DelegatesKeepRoot`, `DoneSawAll`, `CompactionExcludesRuns`, `InjectionAnswered`, `DelegatesEnd` |
| `config_commits` | 2 instances, 2 operations, 2 fresh accounts and one of an older version, 1 fault, 1 crash | `SecretsAvailable`, `SecretsRegistered`, `AtMostOnce`, `NothingReverted`, `NoBlindOverwrite` |
| `tool_batch` | main session with 2 calls, 2 sub-agents with 1, 3 paths, 4 titles | `ClaimsExclude`, `WritersExclude`, `ScopeIsAsked`, `StopReturns`, `LocksAreGranted` |
| `mcp_manager` | 2 sessions, 1 agent, 2 servers and a pool for 1, 2 operations, 2 tasks, 2 documents | `CallsReachTheirListing`, `ReleasedIsReclaimed`, `QuietIsSettled` |
| `guardian_orphan`, `transactions_refused`, `config_raced` | as above, smaller | the findings of section 7 |

Why the bounds are enough.

- Leases: a late release needs a holder and a successor, and with two generations a resource changes
  hands; a forced release takes it from either.  Two runs contend for the lock of a resource, and
  for the counter's lock from two resources; one misread is what it takes for a generation to be
  issued again (103,223 states).  The proofs cover any number of threads,
  several in a process included, and of generations.
- Transactions: one shared target gives order, a second target per call gives "half way", two
  faults let an error path fail as well.
- Guardian: the second run is the successor that wants the root; one command of a run and one
  of a server are enough because groups do not interact; the proofs cover the rest.
- Scheduler: an edit and a crash fit between any two steps of a run; a second crash interrupts
  the recovery; the history holds two runs, so that dropping the oldest happens; two tasks are
  what the execution lock and the reservations need to be contended for.
- Session runs: the second run is the successor that a late clean-up, mark or release could
  harm; with two steps a message can arrive before, in and after a turn that uses tools (481,327
  states).  The
  proofs cover any number of runs, children, messages and steps, and a full queue.
- Configuration: two instances and two saves make one save stale for the other; two
  accounts let a secret be replaced; `Keep = 0` has receipts compacted at once, so that an
  operation can be sent again after its record is gone; the one fault can be the first reading
  of a start, and the initial file may refer to the account of an older version (2,095,364
  states).  The limits of the journal are not
  reached in this run; the proofs cover them.
- Tool batches: two calls of one batch and two sub-agents contend for the same locks in every
  order; path 1 is a directory and 2 and 3 lie in it, so that claims overlap without
  being equal; of the titles one is in the plan, one is a rewording of it and two are new;
  three batches of the main session are a plan, its approval and its expansion.  `Budgets`
  takes the main session alone, with a sub-agent, and two sub-agents without it.
- MCP: two operations are what it takes for one to be outdated by the other, two sessions share
  an entry or make it wait for room, two tasks are of an old and a new generation; the second
  document changes one server and adds another (2,032,009 states).  Three operations without an
  agent were checked once (36.3 million states) and showed nothing more; the proofs cover any
  number for the first two properties.

Symmetry is used for workers, processes, operations and accounts in runs without
liveness.  Deadlock is not checked: bounded budgets end, a process may stay dead, a start
may be refused.

### Fairness

- `LeaseStore`: strong fairness for the next step of a call: a thread that can move is
  scheduled, and the OS does not starve a thread that waits for a lock for ever.
  No fairness for calls, crashes or an error at a lock, so that no wait is ended by an error.
- `Scheduler`: weak fairness for the start-up task and the supervisor loop (tokio tasks that
  sleep and go on) and for workers, since a run has a bounded number of steps; strong
  fairness for the execution lock, a FIFO tokio mutex.  `GuardsArePrompt` says that a
  release spawned by a guard runs before the supervisor's next tick 15 seconds later; the
  safety runs do without it.
- `Guardian`: weak fairness for the guardian's loop, for the anchors' polling and for the
  helper, whose socket has timeouts.  Nothing is assumed of hosts, and commands may run for ever.
- `SessionRuns`: weak fairness for the tasks of the runs and a save that holds the lock of the
  saves: some task that can move does, which is enough as a run has a bounded number of steps.
  Every wait in it ends by itself, by its deadline or by the token, except a question to the user
  (`ask/tool.rs:415`, `approval.rs:191`), which ends with the answer or with a stop; weak fairness
  also for the end of a child whose token is cancelled.  Nothing is assumed of users, of other
  instances or of a child nobody stops: `InjectionAnswered` is said of the behaviours in which no
  question stays open for ever (`Answers`), since a message waits behind an open question, and
  `DelegatesEnd` needs no answer, since a run that ended stopped its children.
- `ToolBatch`: weak fairness for the loop of a batch noticing a stop or the end of its tasks
  and for a task that can go on, strong fairness for a write lock, a FIFO tokio mutex.
  Nothing is assumed of the user, of commands or of new batches, so a question may stay open
  and a stop is what ends it.

## 6. Proofs

All theorems hold for every value of the constants under the named assumptions of the modules.
Every invariant and every action property of the passing runs is stated by one; the invariants
that carry the proofs were checked by TLC on the instances of section 5 first.

- `LeaseStoreProofs`: `TypeCorrect`, `Invariance`, `Fencing` (`UniqueGenerations`),
  `NoTheft` (`HeldOnDisk`: no lease disappears under its holder, unless its file is removed by force
  or another lease of the resource has the same generation) and `Implementation`
  (`LeaseStore` implements `FencedLock`).  What is said of generations holds until the counter is
  misread; that a resource has one owner, and what the locks protect, holds in any case.  Uniqueness alone is not inductive: `LocksExclude`
  says that what a caller learned under a lock is still so, `CounterCovers` that the counter
  is never behind a lease or a claim being written, `CallsAreSound` that a release names an
  issued lease that its holder no longer counts on.  With `IInv` every step is a `Grant`, a
  `Free`, a `Lose` or a stutter of the contract: `WriteRecord` grants because its generation is above
  all issued ones of the resource or the count was lost before, `RemoveFile` frees.  The constants of the store meet what the
  contract asks of its own (`ContractAssumption`), so that what the contract promises carries over:
  `Newest` (its invariant `FInv` is inductive) and with the refinement `StaleNeverInForce`
  (`Fenced`, as a theorem of the store).
- `TransactionsProofs`: `TransactionInvariant`, `NoneIsHalfApplied` (`AllOrNothing`),
  `JournalsAreRedeemable` (`JournalIsRedeemable`), `NewestWins` (`NewestLeaseWins`).
  `DiskIsRedeemable` says that what a listed journal promises is on its targets or complete beside
  them.  It is not inductive by itself: `CommitOf` carries what a commit has established from
  staging to the removal of its journal (all temporaries complete before the journal is, the
  targets renamed so far before the seal), `RecoveryOf` the same of a recovery, which works on
  the list it made at its start.  The holder of `transactions.lock` works alone, so each step needs to be
  looked at for its own process only and leaves the statements about waiting ones (`HolderKeeps`,
  `MoveKeeps`).  `OldestFirst` says that among the listed journals those taken are older than
  those left.  `AllOrNothing` and `NewestLeaseWins` speak of calls that do not share
  their lease with another (`Alone`): calls under one lease share the file of the journal, and the
  second overwrites the record of the first (section 7).  `JournalIsRedeemable` holds of all.
- `GuardianProofs`: `Invariance`, `TypeCorrect`, `RootExclusive` (`RootCoversCommands`),
  `CleanUpIsProven` (`SettledIsClean`), `OrphanReceipt` (`OrphanReceiptCoversServers`).
  The properties speak of what executes, but a command may be admitted and execute later, so
  the invariant is about admitted processes: they are in a group that their guardian watches
  (`AdmittedAreWatched`); only a serving guardian admits, and it holds the root
  (`RootIsKept`); once its groups were found empty they stay so.  `CallsAreSound` is needed
  for the one case in which the host frees the root itself, a failed launch;
  `OrphansWait` carries the servers' receipts from `Quiet` to the end.

- `SessionRunsProofs`: `Invariance`, `WorkIsOwned` (`OwnerCoversRun`), `RootIsKept`
  (`DelegatesKeepRoot`), `NothingUnread` (`DoneSawAll`), `CompactionAlone`
  (`CompactionExcludesRuns`).  `OneRun` says that the fields of the runtime describe one run,
  which makes every other statement one about that run; `Rooted` follows the guard from the
  slot to the children's references; `Marks` says that only an entry shows a run and that the lease of
  a run under way is its own, nobody's or with `launch_run`; `Window` says that a message waits only while its run can
  still take it; `Progress` carries what a step has established about unread messages to the
  decision that ends the run.
- `ConfigCommitProofs`: `CommitInvariant`, `SecretsStayAvailable`, `NoSecretIsLost`,
  `CarriedOutOnce` (`AtMostOnce`), `OverwritesWhatItSaw` (`NoBlindOverwrite`), `DraftsAreVersioned`,
  `NoSaveIsReverted` (`NothingReverted`).  One commit at a
  time is prepared (`Locked`), and what it wrote into the journal before the commit point names
  every account of both the old and the new file (`Traced`, `JobsPrepared`); deleting what is not
  referred to is then harmless.  `Remembered` ties receipts and tombstones to `applied`, and
  `InSync` says that an instance has in memory what its digest stands for, unless its start is in
  `raced`: another instance saved between its readings, or only the second one succeeded.
  The properties about secrets and overwriting except these starts, `SecretsRegistered` only
  those that also took the default configuration (`Deaf` are those that did and can not save);
  `config_raced` shows the exception to be necessary.  Accounts in `Legacy` are excepted too: the
  code keeps them on purpose (`config_commit.rs:850`).  `NoSaveIsReverted` does not: it compares a save
  with the memory of its own instance.  `Drafted` says that a draft with the present versions was made on
  the values the instance has, and `JobsAreCurrent` that a commit under way changes nothing but
  what its draft edits; versions only grow, so that an older draft can never look current again.
- `ToolBatchProofs`: `BatchInvariant`, `ClaimsAreExclusive` (`ClaimsExclude`),
  `WritersAreExclusive` (`WritersExclude`), `ScopeIsKept` (`ScopeIsAsked`).
  `StagesAreSound` says what a task has in hand at each of its stages (a writer its claims, a
  reader its locks); `LocksExclude` that the gate of the writing channel, the locks of the
  files and the lock of the scope gate have one holder; `ClaimsAreSound` that the claims of
  different sub-agents never touch and cover what is being written; `ScopeIsSound` that
  a plan not marked as expanded stays within what was agreed to, and that an open card shows
  everything beyond it, so that an answer to the card cannot consent to more than it showed.

- `McpManagerProofs`: `Invariance`, `CallSafety` (`CallsReachTheirListing`), `Reclaimed`
  (`ReleasedIsReclaimed`), `TypeCorrect`, `WorkIsOwned`, `NothingIsLeft` (`QuietIsSettled`).  Every step but two leaves an entry with its generation,
  connection and command (`Kept`) or clears it and opens a new generation (`Wiped`); `Keeping` says
  that such a step preserves everything tasks, entries and bindings owe each other, once
  for all operations of the user and most steps of the tasks.  The two that do more are the
  admission of a task, which opens a generation in which the task is alone (`AdmittedIsBusy`,
  `AdmittedIsAlone`), and its end (`Concludes`).  `BindingsHold` says that as long as the generation
  of a definition lasts, its entry is not being connected and, if ready, still has the connection
  it was listed from; that is what `validate_binding` relies on when it compares generations.
  `ReferencesAgree` is needed for the entries that a session gives up.
  `QuietIsSettled` speaks of the moments in which nothing is under way and is not inductive at all;
  `Settled` says who sees to an entry at any moment: one that is outdated has an operation that
  will update it (`Updates`), one that waits has an operation that still hands it to a task
  (`Hands`), a task with a permit for it (`Takes`) or a task that connects it (`Drives`), and a busy one is
  driven.  A step that ends one of these roles hands the entry to the next or leaves it
  settled.  `Outdated` says nothing of the entries in `outrun`, and `Waits` and `BusyIsDriven` nothing of those
  in `forsaken`: for the former the code gives no promise of the saved configuration, for the
  latter none of a connection (section 7).

- `SchedulerProofs`: `Invariance`, `TypeCorrect`, `ReplaySafe` (`NoReplay`), `RunsKept`
  (`RunsAccounted`), `ClaimsKept` (`ClaimOutlivesRun`), `ListIsTrue` (`ShownIsDurable`), `OnceKept`
  (`OnceIsAnswered`), `Revocation` (`RevokedNeverRuns`), `OnTimeOnly` (`OnceRunsOnTime`),
  `Deletion` (`DeletedStaysDeleted`).  The invariant is about every copy of a record, in memory, on
  disk and after a power loss: each is `Good`, that is, its time is later than everything executed or
  claimed for its task (`Later`), it carries the claim of the worker at work (`Held`), and it lists
  what was executed until newer runs have pushed that out (`Accounts`, `Covers`, which needs that
  the history is in the order of the run numbers, `Numbered`).  A step then leaves the runs of a
  task alone (`KeepsGood`), claims (`ClaimedGood`), executes a claim (`StartedGood`) or stores
  a result (`SettledGood`), and a write that fails before or after the rename leaves one of
  two Good records on each side (`StoreKeeps`).  `OneExec`, the execution lock, is why one worker
  at a time can invalidate `Held`; `OnTime` is why an overdue once of the previous process
  never becomes a candidate.

Only model-checked: liveness (`CallsReturn`, `OrphansDie`, `RootIsFreed`, `DueIsServed`,
`ResultsAreSaved`, `InjectionAnswered`, `DelegatesEnd`, `StopReturns`, `LocksAreGranted`), which
is out of the prover's reach, and the statements of the three runs that are violated.

## 7. Findings

1. `guardian_orphan`: the anchor of a group dies of a SIGTERM to the group, which
   `terminate_tree` sends before SIGKILL.  A command that ignores SIGTERM then survives the
   death of its host, since the guardian only signals groups with a live anchor.
   The root stays leased.  `OrphansDie` is what does hold.
2. `transactions_refused`: a crash while the journal is written leaves a partial temporary
   file in the journal directory; `list` takes it for an unreadable journal before
   `discard_orphan_temps` is reached, and every later start is refused.
3. `config_raced`: the configuration in memory and the digest that guards it come from two
   readings of the file.  A save of another instance in between is covered by the digest
   and not by the memory, and the next save of the starting instance silently undoes it.

Seen while modelling, without a run of their own:

- leases: a counter file that cannot be read or parsed counts as 0 (`owner.rs:75`), so that the next
  claim gets generation 1 again, although `owner.rs:9` asks for generations that only grow; the late
  release of an old lease can then remove a later one with the same number; a crash between the creation of a lease file and its record, or a failing removal of
  it, leaves an empty file that holds the resource for good (`owner.rs:137` removes it only
  where the write fails); `force_release` names a resource and not a generation;
- runs: `launch_run` unmarks the session without naming a run (`session.rs:572`) and in several
  critical sections (`store.rs:837`), which can take the lease or the mark from a successor (the
  theorems name these runs: `disowned`, `hidden`); the mark of a new session is only in memory
  (`store.rs:829`), so that a crash before the first save of its first run is not noticed, and a
  renaming that reads it before the start and writes the entry after it leaves the run without a
  mark (`store.rs:776`); a stop that arrives
  before the token is published is lost (`runtime.rs:716`);
- batches: a stop seen by the scope card is remembered as a denial by the user
  (`batch.rs:940`); a call aborted during the check after its write is answered as cancelled
  although the file was written; the main session does not take claims, so its directory
  deletion and an edit below it lock different paths (`delete.rs:85`);
- MCP: `connect_named` reads the desired set and registers it under two separate locks, while a
  save reconciles outside `CONFIG_COMMIT`: it can give an unrelated server its old configuration
  back and leave it starting, although `manager.rs:576` says that only the named server is
  touched; two saves can reconcile in the wrong order (`service.rs` drops its guard before);
  an approval connects without `CONFIG_COMMIT`, so that a session released meanwhile is
  registered again and its connections are never reclaimed; a permit given up between the
  registry and the lock of the pool leaves its entry starting, and one given up between the two
  looks of `set_ready` leaves it busy, so that no later approval connects it; a denied task can
  mark an entry stopped whose service runs; a revocation runs twice and takes back an approval
  given in between;
- configuration: a start whose first reading fails goes on with the default configuration
  (`config.rs:590`); when the reading for the digest succeeds, its first save replaces the whole file
  and the accounts of the old one are neither referred to nor registered, although
  `config_commit.rs:411` says that a tolerant load is never the authority to replace a file; an
  instance that noticed an external change refuses every save until it is
  restarted; a saturated set of tombstones refuses saves for good;
- transactions: commits under one lease share a journal file (`workspace.rs:337`), so a second
  commit after one that stopped half way makes the first unrecoverable; the error path of a
  journal that cannot be written may leave its complete temporary, which the next start
  rolls forward (`mod.rs:69`, `transaction.rs:281`); `commit` compares its lease before it waits for
  `transactions.lock` and not afterwards; clean-up after a failed stage drops the record of what
  it could not remove (`transaction.rs:206`); a journal that stayed behind is rolled forward over
  what later commits wrote;
- guardian: one that dies between receipt and release lets `settle` succeed while the root
  stays leased (`guardian.rs:571`).

`commit` of shared transactions and `force_release` have no caller in production yet, the
recovery at start-up has.

## 8. Not modelled, and the plan

Next, in this order:

1. Deletion and closing of a session (`session.rs:428`), which check for a run before they act,
   and segments with their repair and clean-up (`core/sessions/segments.rs`, `cleanup.rs`).
2. What is left of the MCP manager: approvals kept in the key store, renewed tool lists
   (two concurrent `refresh_tools` can leave the older list), trial connections.
3. Wait targets and the service table: no lost or doubled completion.
4. Delivery and workflow together: no step on a stale candidate or attempt.
5. An abstract `AtomicFiles` (a commit is one step) that `Transactions` implements, and
   one `WorkspaceRoot` that `Guardian` and `SessionRuns` share: the root changes hands only
   when nothing executes.

Partly modelled components and what is missing of them: the process guardian (windows, the probes of
process identity, `ProcessGuardian` without callers), the run lifecycle (deletion, closing,
supervision, frames), sub-agents (limits, progress, reports), approvals (only as far as a batch
waits for them; non-interactive approvals), background services (their processes only), the MCP
manager (item 2, the closing of services, retention, which removes a session before it
releases it, and `disconnect_all`, which has no caller in production).

Not planned: fence and search tools (pure functions over text), document tools (sequential
file transformations), providers and quota (network protocols), prompts, memory, skills,
git status, updater, presentation.
