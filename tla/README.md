# A verification project for nas-file-center

NAS File Center is a web application that scans directories for duplicates,
plans operations on files (quarantine, delete, move, rename, restore, purge,
links) and executes them in a background worker. Its state lives in one SQLite
database and on the file system. The API process and the worker processes share
nothing else, so its correctness is that of a small distributed system: short
transactions that interleave, leases that keep workers apart, and crash
recovery between a file operation and its record.

This directory holds TLA+ models of that system, their TLC configurations, and
proofs checked by TLAPS. Paths below are relative to `src/`.

## The system

| Component | State | Operations | Hard behaviour | What makes it correct | Module |
|---|---|---|---|---|---|
| Worker lease: `app/tasks/recovery.py` | the row `task_lock` | acquire, heartbeat, fence, assert | expiry of a live worker, a fence that waits for the writer lock | one live owner; a protected call has no competitor | `WorkerLease` |
| Task queue: `app/tasks/service.py`, `state_machine.py`, `sync.py`, `context.py` | `work_jobs` rows | enqueue, pause, resume, cancel, retry, delete, clear; checkpoint | requests against a running handler; ids that are used again | one active execution per plan | `TaskQueue` |
| Worker and recovery: `app/worker.py`, `app/tasks/recovery.py` | the worker's place, its job, its lease-lost event | acquire, recover, claim, preflight, finalise, exception handlers | crash at any point, clean-ups that raise, takeover | no interrupted job is forgotten; no stale worker writes | `TaskQueue` |
| Plan execution: `app/tasks/handlers_base.py` | plan and item states, journals | reconcile, freshness check, then per item intent, mutation, result | crash between intent and result | intents settled first; success only for finished work | `TaskQueue`; the phases of one item in the modules below |
| Plan lifecycle: `app/service.py` | `batch_plans`, `batch_plan_items` | create, freeze, validate, enqueue, delete | checks made before a transaction and used in it | completed items keep their outcome; no execution of a plan that is gone | `PlanLifecycle` |
| Quarantine across storages: `app/quarantine/cross_storage.py` | an entry with a phase, private copies | copy, verify, publish, retire, restore, reconcile | crash between copy, publication and unlink | no copy is given up before another is verified | `CrossStorage` |
| Quarantine on one storage: `engine.py`, `restore.py`, `reconcile.py` | an entry with a phase, attempt directories | anchor, publish, capture, restore, reconcile | the same with hard links and renames; a slow former owner | no last name is lost; entries say what is on disk | `QuarantineTx` |
| Purge: `unlink_purge.py`, `single_unlink_purge.py`; `app/media/corrupt_delete.py` | a frozen manifest and a journal | unlink name by name, reconcile, record | crash in the middle, two actors on one entry, files replaced | only frozen files go, after their intent; one record | `PermanentDelete` |
| Storage optimisation: `app/storage_optimization/executor.py` | a journal, hidden names | replace a duplicate by a link | crash between renames, repetition | the payload stays beside the kept copy | `StorageOptimization` |
| Moves: `app/execution/` (`directory_transplant.py`, `utility_wrapper_pair.py`, `empty_dir_quarantine.py`) | a transplant record | a move and its paired clean-up | crash inside a transplant, failing calls, inode numbers that drift | no file is lost; outcomes are true and written once | `TreeMove` |
| Deduplication: `app/planning/`, the guard in `executor.py` | none | choose, freeze, validate, execute | overlapping scan roots, two plans of one scan, changing trees | a protected directory keeps a file | `LastFile` |
| Scheduler: `app/scheduler/` | a lease of its own, runs with a unique slot | tick, dispatch, edit, run at once | a tick retried or overtaken | a slot has one job; no schedule gets stuck | `SchedulerDispatch` |
| Workflows: `app/workflows/` | revisions, compiled plans | edit, preview, generate, schedule, rebuild | edits and new inputs between preview and draft | a draft is of an existing revision, and what was previewed | `WorkflowPlans`, `PathGraph` |
| Batch utilities: `app/batch_utilities/` | none | compile an ordered list of operations | the tree changes while it is read; names that free and take each other | what is proposed can be carried out | `BatchUtilities` |
| Resource policy: `app/resource_control.py` | a policy row | evaluate, claim under policy | the policy changes during a claim | a job the policy forbids is not claimed | a choice in `TaskQueue` |
| Quarantine maintenance: `bulk_lifecycle.py`, `restored_cleanup.py`, `transaction_residue.py` | records of finished transactions | clean-up of residue | | only terminal records are removed | none |

The remaining parts (archive recovery, download verification, authentication,
filters and scanners, API and front end) are thin, sequential or I/O;
`PROJECT.json` lists each of them with its reason.

How they interact. The API process writes requests straight into `work_jobs` and
`batch_plans` (a cancel of a queued job is decided there and then; a cancel or
a pause of a running one only leaves a mark that the handler's next checkpoint
reads). A worker takes the lease, settles what its predecessor left, lets the
scheduler tick, claims the lowest queued job that the policy admits, runs the handler, and
finalises job and plan in one transaction. Every handler transaction asserts the lease and
commits; nothing else keeps two workers apart. An execution handler works off
the items of a plan; each item is a transaction of the quarantine, purge, link or
move engine with a journal of its own. `sync_batch_plan_status` derives
the plan's status from its items whenever the job's status changes. Workflows,
utilities and the deduplication compile the plans; the scheduler enqueues jobs
that scan, draft or execute.

## The modules

| Module | Models | |
|---|---|---|
| `ExclusiveLease` | what a lease promises: an owner, and whether its lease is live | abstract |
| `WorkerLease` | the `task_lock` row with timestamps, acquisition, heartbeat and the fence before a file-system call | implements `ExclusiveLease` |
| `TaskQueue` | queue, lease, worker loop, recovery, plan execution and the users' requests, composed | implements `ExclusiveLease` |
| `PlanLifecycle` | plans from draft to deletion, the requests that change them, composed with `TaskQueue` | extends `TaskQueue` |
| `SafeMove` | what a transaction that moves a payload promises: a copy is given up only while another is left | abstract |
| `CrossStorage` | quarantine, recovery and restore of one file across file systems | implements `SafeMove` |
| `QuarantineTx` | quarantine, recovery and restore of one file on one file system | |
| `WriteAheadDelete` | what a journalled deletion promises: a name goes after its intent, and the end is closed once | abstract |
| `PermanentDelete` | the purge of a quarantine entry and the deletion of a corrupt media file | implements `WriteAheadDelete` |
| `StorageOptimization` | replacing a duplicate by a hard link or a reflink | |
| `TreeMove` | moving the only child of a directory up and removing the directory | |
| `LastFile` | deduplication plans and the protection of the last file of a directory | |
| `SchedulerDispatch` | schedules, runs, slots and the scheduler's lease | |
| `WorkflowPlans` | revisions of workflows and the drafts made from them | |
| `PathGraph` | the order of operations of a workflow of mode file (pure) | |
| `BatchUtilities`, `UtilitySamples` | the compilation of the five utilities (pure), and small trees for it | |
| `MC*` | model values, symmetry and samples for TLC | |
| `PlanLifecycle_proofs` (with the theorems of `TaskQueue` and `WorkerLease`), `CrossStorage_proofs`, `QuarantineTx_proofs`, `PermanentDelete_proofs`, `StorageOptimization_proofs`, `TreeMove_proofs`, `WorkflowPlans_proofs` (with those of `SchedulerDispatch`), `LastFile_proofs` | theorems | |

### TaskQueue and the code

Every write of the code is a short `BEGIN IMMEDIATE` transaction, and SQLite
admits one writer at a time, so one transaction is one action; between two
transactions everybody else may act. What a handler does with files happens
between its transactions and appears as the choice of an item's outcome.

- `lock` is the `task_lock` row with its age reduced to live or lapsed;
  `Holds(w)` is `assert_active_worker_lease`. `WorkerLease` justifies the
  reduction, including the late fence that brings a lapsed lease back.
- `job`, `plan`, `item` are the tables. A job keeps its status, kind, plan,
  whether a checkpoint has been saved, and the pause mark. Two kinds stand for
  the two that the queue tells apart: `exec` (pause, resume, a plan) and `scan`
  (resource-controlled, cannot be paused). `NextId` is SQLite's id of a table
  without AUTOINCREMENT: the id of a deleted newest job is used again.
- `pc[w]` is where a worker is: `acquire`, recovery (`list`, `recover`,
  `repair`), `idle` (about to claim), `claimed` (preflight), the places of the
  handler, `finish`, and the three exception handlers `pausing`, `cancelling`,
  `failing`. `cur[w]` and `pid[w]` are what the worker holds in its variables, and
  may be stale: an abandoned worker keeps them while others go on. `at[w]` is the
  item its loop has reached; `Boundary` moves it on, past the items that are done.
- A plan starts as validation leaves it: each item validated or skipped, the plan
  partial if one is skipped. Reconciliation makes an item "planned" again when its
  mutation did not happen, and the loop treats that as pending like "validated".
- `todo[w]` and `orphans[w]` are the candidate lists of recovery, read once and
  worked off one transaction each, with the status looked up again.
- `Intent`, `ItemResult`, `Fresh`, `ItemStale`, `Reconcile` and `PostLoop` are the
  handler's transactions. `Checkpoint` is `JobContext.checkpoint`; a cancel commits
  there and the worker syncs the plan later, in `Cancelling`. `ItemResult` may also
  set the item after it, as a move with a paired clean-up does.
- `Lapse`, `LateFence`, `HeartbeatRefused`, `Crash`, `Raise` and `SwallowedError`
  are what may go wrong. `SwallowedError` is a clean-up whose own transaction
  raises; the worker loop discards the exception and claims the next job.
- `abandoned` is a history variable: the jobs such an exception left in flight. No
  guard reads it.

### PlanLifecycle and the code

- `call[c]` is what a request being served has in its Python variables between its
  transactions: the plan, the items it will write (`todo`), the items it has seen
  completed (`done`), whether it saw the plan stale, the job it is to cancel. A
  request of the code is a Start action, which reads and checks, and a Commit
  action, which writes. Hashing and stat calls take place in between, and everybody
  else may act there. `CallFails` is an exception, or an API process that dies.
- `FreezeCommit` and `EnqueueCommit` (which is `TaskQueue`'s `EnqueuePlan`) check again
  what they rely on, in their own transaction; `DeleteCommit` looks for active jobs
  again; `ValidateCommit` and `EnqueueStale` only need the plan to exist.
- `Create` stands for every operation that makes a plan (batch tools, duplicates,
  restores, purges, undo), which differ in what the items mean. A plan has the same
  number of items each time. `NextPlanId`: an id of a deleted newest plan is used again.
- The verdict on each file, in `validate_plan` and in the freshness check of an
  enqueue, is a choice. `recovered` stands for the job events that a
  deletion consults (`recovered_after_worker_restart`).
- `QueueStep` is any step of `TaskQueue`: workers, recovery, and the requests on jobs.
  An enqueue that finds a changed file is `EnqueueStale`; a retry does not look.
- `frozen` is a history variable: the plans that were frozen since they were created.
- Not here: `execute_plan`, the synchronous execution, which no route reaches, and how
  each creator of plans chooses the items.

### WorkerLease and the code

`Acquire` and `Heartbeat` read the clock under the writer lock. A fence
(`renew_and_assert_worker_lease`) reads it, waits for the lock, and then compares
and stores its old reading: `FenceSample` and `FenceCommit`. `fenced[w]` marks the
file-system call that follows. `MaxDelay` bounds the wait; in the code it is the
5 s `busy_timeout` of `app/db.py` against a timeout of 30 s, so `MaxDelay <= Timeout`
is assumed. `Tick` respects the bound, which is why it is an assumption about the
environment: a process suspended between reading the clock and asking for the
lock is outside it.

### The transactions on files

`CrossStorage`, `QuarantineTx`, `PermanentDelete`, `StorageOptimization` and `TreeMove`
are built alike. There is one item of a plan and its restore or clean-up if it has one. `frame[w]` is the place
where worker `w` is in the engine's call chain and what its variables hold. A
lease step asserts the lease and writes rows, in one transaction; a file step is one
system call. What directly follows a call and only reads (an `lstat` after `mkdir`, a
stat before the `unlink` through the same directory descriptor) is one step with it.
`Crash` takes a worker out of its call, and from then on its name stands for the process started next, which still
owns the lease; `TakeOver` gives the lease to another while
the old owner goes on from where it is until its next assertion, and does the next file
call even though it lost the lease. Recovery (`_reconcile_executing_item` and what it calls) is a path through the same
places. `faults` counts crashes, takeovers and failing calls; `tampers` counts
what users do to the files; `late` records that a worker without the lease has
changed a file. No guard reads `late`.

- `CrossStorage`. A file's content is the user's original, another file, or the copy made by attempt
  `g`. `entry` has the state, the phase and the identities recorded. Users do not change a published
  copy between the worker's last look at it and the retirement of the other one
  (`ReliedOn`): the code cannot close that window either.
- `QuarantineTx`. A name leads to the frozen inode, to another file or to nothing; `slot[g]` are
  the private names of attempt `g`: anchor, captured source, captured view.
- `PermanentDelete`. Workers execute the plan's item; an API thread (`Clerk`) may clear the
  same entry at the same time without any lease. `intents`, `marks` and `terminals`
  are the journal. A restore in competition only takes the entry.
- `StorageOptimization`. The journal is the set of phases recorded. The freshness check
  of the handler comes before each repetition of the call, as in the code.
- `TreeMove`. Three modes: native rename, plain rename, transplant. The child is a directory with a file and a
  directory that has a symlink; `names[side][entry]` is what each name leads to, `state`
  is the transplant's `state.json`, `journals` counts the outcomes written for each item. `drifted` is an inode
  number that changed. Users do not remove or replace directories that the move made.

### LastFile

`Compile` reads the scan, `SelectGroup` decides one group, in any order and with any
choice the guard admits (scores and the balance between directories are left out),
`Freeze` and `Validate` record the identities, and the worker's steps record the intent, pass a fence (`Fence`, a transaction
that asserts the lease), look at the item (`Look`), pass another and look at the protected directories
(`Protect`), check once more in the executor (`Check`), and move the file (`Take`). The lease may be lost between any two of
them, and `Take` does not ask for it: a native rename has no fence, and that of a capture in a transaction is committed
before the rename. `worker[w].gone` is a history variable: what others, users or workers, took files from
since the worker looked. Two plans are made of one scan, and a directory may get a new inode number when it changes.

### SchedulerDispatch

`tick[w]` is a tick in progress with the time it sampled, `due` what it listed. One
transaction per schedule reserves the slot, decides on overlap and enqueues
(`Process`). A tick that was refused the lease counts as done for its minute, as in the code.
The lease is never released, only outlived. Whether a target is
valid is a choice. A retried job is a new one that no run is linked to. Users act on the schedules in `Edited`: an
update, with the clock read and the revision seen before it, a run at once, the deletion of an ended job.

### WorkflowPlans, PathGraph and BatchUtilities

`WorkflowPlans` keeps a workflow as its list of revisions and a plan as what it
says about where it came from. What a definition compiles to is a value:
the definition, with the versions of the inputs its mode reads. `call` is a request between its
transactions: `PreviewWorkflow` returns a digest, `GenerateRead` compiles again and compares,
`GenerateCommit` writes; `GenerateStructural` is the second stage of an advanced organizer. A scheduled job does
the same from a pinned revision, in a handler that only asserts the lease at checkpoints.
Ids of workflows and plans are used again (no AUTOINCREMENT; the model takes the smallest free id of a plan).
A plan is a draft, active (frozen, ready, validating, executing), partial (or failed, or completed) or stale. `Advance` lets any
status follow any other, since a validation writes its verdict whatever the plan is by then; `held` remembers whether the plan
has been a draft or active all the time, which are the plans that keep a workflow from being deleted.

`PathGraph` is `VirtualPathGraph` as functions: the simulation of the steps, the collisions it
refuses, the order it derives. Of the operations that may come next its topological sort takes the same one as the code's
heap: the smallest step, then the smallest number among the operations of a candidate, then the smallest candidate
(`ComesFirst`).
`BatchUtilities` has the five compilers. A compilation reads the tree at up to four moments (preflight,
discovery, snapshot, graph), each of which may find it changed; `seen` maps the moment to the tree found. Paths are sequences of
names and names sequences of parts, since the suffix rules compare parts and the collision rules ignore case.

## The runs

| Run | Question | Properties |
|---|---|---|
| `queue_items` | Do two workers that crash, stall, take over and have clean-ups raise, and users who request anything at any time, keep jobs, plan and items consistent? | `NoUnsettledIntent`, `NoFalseSuccess`, `NoForgottenJob`, `FencedWrites` |
| `queue_live` | Does work come to an end? | `InFlightSettles`, `FirstInLineRuns`, `NextOwnerRepairsPlan` |
| `plans` | Can requests that read first and write later harm a plan that workers execute? | `CompletedStays` |
| `lease` | Do timestamps keep the promise of the lease? | `CallsAreExclusive` |
| `cross` | Does a file survive its way across storages and back? | `KeepsPayload`, `TruthfulEntry`, `InterruptedQuarantineSettles` |
| `qtx` | The same on one storage | `NothingDestroyed`, `TruthfulEntry`, `InterruptedItemSettles` |
| `delete` | Do the deletions remove only what was frozen, after its intent, and record it once? | `RecordedOnce`, `OnlyTheFrozenFile`, `DeletionSettles`, `WriteAhead` |
| `storage` | Is a duplicate replaced without a moment at which its content is only in the kept file? | `PayloadStays`, `OriginalGivenUpLast`, `TruthfulCompletion`, `InterruptedItemSettles` |
| `tree` | Is a move with its clean-up safe and truthful in each mode? | `NothingLost`, `TruthfulMove`, `FinishedMoveIsFound`, `TruthfulCleanUp`, `WrapperComesBack`, `JobSettles` |
| `last_file` | Does a protected directory keep a file, whatever plans and users do? | `LeavesOne`, `TrustedDirectories`, `SelectionIsExecutable` |
| `sched` | Is a slot dispatched once, and does every slot pass? | `OneJobPerSlot`, `SlotPasses` |
| `workflows` | Is a draft what was previewed, of a revision that exists? Can accepted orders and proposals be executed? | `NewPlanHasItsRevision`, `DraftIsWhatWasPreviewed`, `TruthfulSchedule`, `ScheduledJobSettles`, `OrderIsExecutable`, `UtilityPlanIsExecutable` |

Every property is stated with a comment in its module. `KeepsPayload` and
`WriteAhead` are refinements: TLC and TLAPS check that `CrossStorage` implements
`SafeMove` and `PermanentDelete` implements `WriteAheadDelete`. The type invariants are proved, and no run
is spent on them.

### Bounds

- `queue_items`: two workers, one plan of two items (an intent left behind while another item could start, a pair of
  items), one job, one lapse of a running worker's lease (the lease of a dead worker lapses freely), and one
  clean-up or heartbeat that raises. Two workers are what a takeover needs, since a third is either dead or
  waits for the lease like the second; one plan suffices because no action relates two plans; the id of the one
  job is used again. A worker of the model is one process start, and a process that died does not come
  back under the same identity; so that one process is always left, `Crash` needs another that is alive.
- `queue_live`: two jobs, so that a retry, a second enqueue and a scan meet the first; no lapse and no raising
  clean-up, but crashes. With a raising clean-up `InFlightSettles` fails: the worker goes on to claim and
  the job stays in flight until the lease changes hands.
- `plans`: two workers, one request at a time, one plan of two items (a move and its clean-up) that is
  created twice, so that its id is used again while the request still holds it, and one job at a time. No lapse
  of a live worker. That requests overlap, leases lapse and there are more jobs and plans is covered by `CompletedIsFinal`.
- `lease`: three workers, a timeout of 3 ticks, a delay of up to 2 and 8 ticks in all: two full lease periods with a takeover in between.
- `cross`, `qtx`: two faults and one change by a user; `delete`: two of these three, in any order; `tree`: all
  three with native renames, where a wrapper can be quarantined, and two of the three in the other modes; `storage`: three
  faults. A fault is needed to interrupt, a second to interrupt the recovery, and a change by a user meets one interruption.
  `MaxGen` (4 and 6 attempts) is large enough that no behaviour with these faults is cut.
- `last_file`: three directories that overlap (`root` above `left` and `right`, and `left` a scan root of its own for one
  file), four files in two groups that share both directories, two plans, two workers, and one change by users or one fault (`MaxTroubles`). That more happens is covered by
  `ProtectedKeepOne` and `NoTrustInReplaced`; `SelectionIsExecutable` is about plans nobody disturbed. `Others`: an extra file comes
  and goes in `right`, so that what protected a directory at planning need not do so later.
- `sched`: two workers, two schedules of which users act on one, a lease of one minute, two minutes, and two of
  an update, a run by hand, the deletion of a job and a fault. That more happen is covered by the theorem about `OneJobPerSlot`.
- `workflows`: one workflow id, which may be deleted and created again; a deduplication and an advanced organizer (the modes
  file and organizer differ from them only in which inputs they read); two revisions, four edits, or one and one change of the inputs
  (the theorems about drafts and schedules have no bound),
  one user, one job, two plan ids. Beside the behaviours there are initial states without a successor for the pure modules:
  all workflows of up to two steps with two candidates over two directories and three names, with and without a
  stranger's file, and with three candidates in one directory; and 57 544 samples for the utilities: files in nested directories
  with current, stale and missing index rows in both orders (quarantine); names that differ in a suffix or in case, listed under a
  directory, a link to it or both (suffix); two wrappers with one change at any of the four moments (flatten); nested empty directories (empty) and chains of single children (collapse).

Symmetry is used in safety runs only. The deadlock check is off in the runs whose system comes to an end: one item, one
schedule horizon, one list of bounded edits. Of the queue it is on: a worker can always poll.

### Fairness

`TaskQueue.FairSpec` asks weak fairness of each worker's own progress (a process that
is alive keeps executing; an exception handler and a poll end) and of the lapse
of a dead owner's lease (time passes). It asks nothing of users, crashes,
exceptions or heartbeats. `FirstInLineRuns` says the first execution in the queue
does not wait for ever rather than that every one runs: a lower id that is paused and
resumed for ever may keep another one waiting. `NextOwnerRepairsPlan` starts
when no live worker holds the lease, because a plan is only repaired after an
acquisition, and from a terminal job as evidence: a plan whose jobs the user
deleted stays executing, by design of `_repair_orphaned_executing_plans`.

In the transactions on files, `WF(Run(w))` is the same for a worker inside an engine, including the worker that
takes up what another left. A crash needs another worker that may go on, and faults are bounded, so that settling is a claim about the time after the last fault.
`sched`: the clock passes (`Pass`), and as long as some worker that is not down has a tick to make, one makes it.
A single worker may die, but not every one. `workflows`: a
handler that lives goes on, a free worker claims, and the job of a dead worker is recovered.

## Proofs

The theorems hold for any number of workers, plans, jobs, items, schedules, clients, files and names, and any
bounds, under the assumptions `TaskQueueAssumption`, `WorkerLeaseAssumption`,
`PlanLifecycleAssumption`, `SchedulerAssumption`, `CrossStorageAssumption`, `QuarantineTxAssumption`, `PermanentDeleteAssumption`,
`StorageOptimizationAssumption`, `TreeMoveAssumption`, `NoneIsNoState`, `WorkflowAssumption`, `NoneAssumption`, `LastFileAssumption` and `TreeAssumption` (bounds are
naturals, `None` is not a worker, a plan, a row or the content of a file, a plan has at least one item, `MaxDelay <= Timeout`, ids are
numbers, the contents of a name are told apart, the tree and the groups of a scan are finite, groups do not
overlap, and a file is in or below a directory of its scan root). TLC evaluates each of them in a run of its module.

`PlanLifecycle_proofs`, on `TaskQueue`.
- `TypeCorrect`: `TypeOK` is inductive. Lemmas say what each helper does
  (`SetStatusEffect`, `NewJobEffect`, `LeaveEffect`, `CheckpointEffect`) and the
  step lemmas cite them. The position of the loop has a lemma of its own
  (`LoopSteps`): only a boundary enters the intent, and only an intent the mutation.
- `Fencing`: a step of a worker that does not hold the lease writes nothing, the
  sync after a pause excepted (`FencedStep`).
- `QueueImplementsLease`: every step takes, lapses, revives or leaves the lease.
- `OneExecutionPerPlan`: `OneActiveJobPerPlan` is inductive with `TypeOK`.
  Recovery may requeue only a running job, so it adds no active one.
- `HandlerOwnsItsJob`, `OneJobInFlight`, `NothingForgotten`: none of these is inductive alone. The
  strengthening is `Ownership == TypeOK /\ HandlerJobInFlight /\ Settled /\ SingleFlight`;
  `Settled` says, for each place of the owner, which jobs may be in flight: the
  current one while processing, those not yet handled during recovery, none when idle.
  It speaks of the owner on record while it processes a job, even after its lease
  lapsed, because a late fence may bring that lease back; for recovery and idling,
  where nothing can revive the lease, it needs the lease to be live. `OwnerStep`,
  `OthersStep`, `NewOwnerStep` and `OutsideStep` cover the owner, other workers,
  a takeover and the users.
- `IntentsAreSettled`: `NoUnsettledIntent` is inductive with `TypeOK`. It is a statement about
  each worker on its own (`Settles`), so a step is looked at from two sides: what the worker that
  moves does to its own plan (`SettlingStep`, `QuietIntentStep`), and that nobody else changes an item, since
  writing items takes the lease (`FencedStep`). A new owner starts with recovery, where nothing is
  claimed of items yet.
- `SuccessIsTrue`: `NoFalseSuccess` is inductive with `TypeOK` and `NoUnsettledIntent`. A plan becomes completed
  only in the sync of its status, and that only when all items are done (`SyncedCompleted`,
  `SyncPlanHonest`); a job, only when its handler has left the loop with nothing
  open (`WorkerJobsHonest`); and an item that is done is never opened again (`DoneStaysDone`).

`PlanLifecycle_proofs`, on `PlanLifecycle`, carries the queue's invariants over to the composition.
- `PlanTypeCorrect`: rows of a plan and of its items come and go together. The queue
  neither creates nor deletes a plan row (`QueueRows`), so only four actions matter.
- `OnePlanExecution`: `OneActiveJobPerPlan` again, now that enqueueing checks in one
  transaction and inserts in another.
- `NoExecutionWithoutPlan`: `ExecutionHasPlan`. A deletion checks for active jobs in the
  transaction that deletes, but a handler that has lost its job could still be at work; so the
  invariant is `PlanTypeOK /\ Ownership /\ ExecutionsHavePlans /\ HandlerPlan`, where
  `Ownership` (of the queue) says that the owner's handler has its job in flight, and
  `HandlerPlan` that this job is an execution of the handler's plan (`HandlerEntry`,
  `NextHandlerPlan`). `QueueExecutions` shows that no step of the queue starts an
  execution of a plan that is not there.
- `CompletedIsFinal`: `CompletedStays`, an action property. A request writes items only at its commit, and only those in its
  `todo`, which were open when it read them: `ReadsApart` keeps `todo` and `done` apart. Of the
  worker's transactions only five write items (`ItemWriters`), and they pass over the completed ones, because the item the owner
  of the lease has in hand is not completed (`OwnersItem`); all but the clean-up row of a move that is
  repeated, which the property names.

`PlanLifecycle_proofs`, on `WorkerLease`. The timestamped lease has variables of its own there and is an instance, `Timed`, whose
workers are the queue's; `WorkerLeaseAssumption` is a hypothesis of each theorem. `LeaseInvariant` says: types, the lease is not
dated in the future, a waiting fence's reading is at most `MaxDelay` old, and for each fenced call the worker is
either the owner with a lease dated no earlier than `MaxDelay` before its fence, or
the call has already outlived its cover. From it follow `LeaseTypeCorrect`,
`ExclusiveCalls` (`CallsAreExclusive`) and, with one lemma for each way a step can look to the
abstract lease (take, lapse, revive), `LeaseRefinement`: what `TaskQueue` takes for granted of its lock.

`CrossStorage_proofs`. A worker that has lost the lease writes no rows, and stops at its next assertion of the lease, but
until then it may still copy, publish or unlink. So what is said of a worker is of two kinds.
- Of every worker: `Sources` and `Backed` (who may still retire a file has verified a whole copy at the other name; a quarantine's copy
  may be taken away again by a restore, but that one begins after the original is gone, and `Gone` says that it stays so),
  `Numbers` (an attempt's number is taken once, so a staging file about to be created is nobody's record), `Whole` and
  `Spent` (a copy that is recorded is not half written, and one whose publication was noted has left its staging, so
  that nobody can publish it a second time).
- Of the owner: `Own` (the entry's phase by the step it is at), `Rows`, `Refused` (a restore for a plan's item is refused, see 8
  below), `Retired` and, as long as nobody meddles with the files, `Untouched`.

  Each step is first reduced to what it may write (`Looked`, `Staging`, `Moving`, `Opening`, ..., lemma `Steps`), and each
  part of the invariant is shown for each of these twelve kinds of step. It yields `CrossStorageTypeCorrect`,
  `CrossStorageMovesSafely` (`KeepsPayload`: only `Moving` and the users change what is at a name, and a worker retires what `Backed`
  says it has elsewhere), `CrossStorageTruthful` (`TruthfulEntry`) and `CrossStoragePublishesWhole`
  (`OnlyWholeCopies`, which only the proof module states).

`QuarantineTx_proofs`. Here too a slow worker may still link and rename after it lost the lease, and steps are first reduced to
nine kinds by what they write (lemma `Steps`). The invariant has four groups.
- Of every worker: `Numbered` (no attempt is in use before its number was handed out) and `Slots`: workers that are about to
  link or rename into a private name have different attempts, and the name is empty. The source needs more than its number,
  because recovery captures into the attempt of the anchor unless the public name was noted before: `NotCaptured` and
  `ReadyToCapture` say that until then nobody has come to a capture, and that the owner's attempt is then its alone.
- Of the entry: `Anchored`, a promoted anchor is the payload and stays so.
- Of the owner: `OwnerInPhase` (the phase fits its step, its attempt is the entry's), `RestoreIsSecond`, and `RestoringOwner`,
  which knows at each step of a restore whether a view was captured. It needs that a restore runs once: its first
  run is the only worker that restores, and whatever follows is recovery.
- Of the names a user sees, while nobody meddles: `Visible`.

  `FilledStays` and `PlaceStays` turn `Slots` into `QuarantineDestroysNothing` (`NothingDestroyed`); at the two steps that finish an entry the
  rest gives `QuarantineTruthful` (`TruthfulEntry`). `QuarantineTypeCorrect` is the type invariant.

`PermanentDelete_proofs`. The invariant `IInv` is `TypeOK`, one conjunct for each actor that
says by its place what it can rely on (`ActorOK`: the entry is past the point of no return, the intent of the name
it is about to unlink is written, its record is there when it is done), and `RecordOK`, which relates journal, marks,
records and entry. It yields
`DeleteTypeCorrect`, `RecordsOnce` (`RecordedOnce`), `RemovesOnlyFrozen` (`OnlyTheFrozenFile`) and
`DeletionIsWriteAhead`: the detailed deletion implements `WriteAheadDelete`, step by step.

`StorageOptimization_proofs`. A worker that has lost the lease cannot write the journal and marks its file calls as
late, so the argument follows the lease: the invariant says what the place of its owner implies. `Recorded` ties the journal
to the place and the audit, `Covered` says that a name about to be unlinked has another one beside it, and, if nobody
interferes, `Names` what each name may lead to and `Prepared` what the owner has made sure of. A takeover makes
an idle worker the owner, for which the places claim nothing. `StorageTypeCorrect`, `PayloadIsKept`
(`PayloadStays`), `OriginalGoesLast` (`OriginalGivenUpLast`) and `CompletionIsTrue` (`TruthfulCompletion`) follow.

`TreeMove_proofs`. Steps are of nine kinds by what they write (`Looks`, `Calls`, `Saves`, `Wraps`, ..., lemma `WorkerSteps`). The
invariant is layered by what may have interfered.
- Always: `TypeOK` and `Rows`, what the two items say when the owner is at a step (`Stage`), and that a clean-up begins after its
  move is settled (`Order`). It gives `MoveTypeCorrect`.
- While nobody without the lease has changed the trees: `Trees`. `Shape`, what is missing as a whole has nothing in it; `Handles`, what the
  owner is about to unlink at the source is the same file at the target; `Knows`, where the root is, and that the worker's copy of the state is the one on disk,
  step by step. From `Handles` follows `MoveLosesNothing` (`NothingLost`), whatever users put into the trees.
- While no user has either: `Whole` (every entry is the child's or made for it, and at the target if not at the source) and `Identified` (a
  child that is gone from the source is at the target itself, or the state file records the root made for it, because the root is recorded before anything is moved
  into it). They give `MoveTruthful` (`TruthfulMove`) and `FinishedMoveFound` (`FinishedMoveIsFound`).
- For every worker, with the lease or without, and whatever users do: `Wrapping`. An empty wrapper is at one place or gone (`InOnePlace`), only
  the wrapper of a move that failed is relocated (`Relocates`), and such a move can not be made any more by a worker that stalled in it (`Apart`, `Blocked`),
  so that what a worker found out of the wrapper lasts until it acts on it (`CleansUp`). `OnlyAhead` says what no step ever takes back; `Lasting` follows from
  it. It gives `CleanUpTruthful` (`TruthfulCleanUp`).

`WorkflowPlans_proofs`, on `WorkflowPlans`.
- `NewPlansHaveRevision`: revisions are only appended, and a deletion of a workflow looks for its active plans
  in the transaction that deletes it (`DependentPlans`). The property is about plans that were held ever since, and inductive with
  `TypeOK` and `HeldActive`: such a plan is one the deletion looks for. Of a plan that was partial, failed or stale in between
  nothing can be said (observation 17).
- `DraftsAreAsPreviewed`: `Shown` says of every request and job that the digest it holds is of what was shown with it, and that
  what it compiled again after comparing digests is the same.
- `SchedulesAreTruthful`: `Keeps` (a handler works with the pinned definition), `Counted` (the number of drafts by the
  handler's place), `JobsOfPlans`, and `Reliable`: a job that failed was disturbed, and one that is not disturbed is on its
  course (`Pinned`, `OnCourse`), where no check of its handler refuses. So whatever makes a job fail has disturbed it before.

`WorkflowPlans_proofs`, on `SchedulerDispatch`. The scheduler has constants and variables of its own there and is an instance, `Sched`;
`SchedulerAssumption` is a hypothesis of each theorem.
- `SchedulerTypeCorrect`: `TypeOK` is inductive.
- `OneJob`: `OneJobPerSlot`. By itself it is not inductive; `RunsOK` adds that a slot without a record has
  no job, and that only a dispatched run has a job going.
- `ExactOverlap`: a run gets a job only if no other run of its schedule has one going, and is skipped as
  overlapping only if one has (`OverlapIsExact`, an action property).

`LastFile_proofs`. The invariant has a conjunct for each party.
- Plans: `Chosen` (every item has another file of its group to be kept) and `Noticed` (the identity a plan trusts, frozen or
  bound, is at most the present one, and less for a directory that was replaced).
- Workers: `Runs` (a worker is at a frozen plan and one of its items), `Looked` and `Relies`. `Looked` speaks of every
  worker that has looked and not yet moved its file, with the lease or without: each directory it protects has two files, and
  the kept copy is there, but for what others took since. It stands because every step that takes a file, a user's or another
  worker's, leaves its directories and its group in `gone` of the workers that have looked (`BehindStep`, `ItemStep`). `Relies`
  says that a worker between its look and its capture is in directories that were not replaced, and that what it captured of
  one replaced since is older than the replacement.
- `CountKept` and `CountTaken` are the arithmetic: a step that takes no file below a directory does not lower its count, one
  that takes one lowers it by one.
- From it follow `LastFileTypeCorrect`, `ProtectedKeepOne` (`LeavesOne`) and `NoTrustInReplaced` (`TrustedDirectories`).

Some properties are proved for all instances and in no run, since a run would show less:
`OneActiveJobPerPlan`, `HandlerJobInFlight`, `SingleFlight`, `ImplementsLease` of both lease
modules, `ExecutionHasPlan`, `OverlapIsExact` and `OnlyWholeCopies`.

Only model-checked: all liveness, since fairness
and `ENABLED` are beyond this prover; and three invariants that are statements about computations over data.
`OrderIsExecutable` and `UtilityPlanIsExecutable` are shown for bounded samples: what
`PathGraph` and the compilers compute for every input would take an induction over data that
none of the provers carries out. `SelectionIsExecutable` compares the counters of a selection with the counts at every later
point of an execution in any order, which takes the same kind of induction, over the items.

## Observations

What the models show of the code that a reader of its documentation would not expect. None of the properties
above depends on the opposite; each of them holds of the code as it is.

Queue and plans.
1. After `JobPauseRequested` the worker syncs the plan in a transaction
   that does not assert the lease (`app/worker.py:303`), unlike the handlers for
   cancellation and failure. A worker that stalls there while another resumes, or
   completes, the job rewrites the plan. `app/worker.py:353`: "Stale worker MUST NOT mutate
   database!" `FencedWrites` exempts this write, and no other.
2. Cancelling a queued execution of an untouched plan makes the plan
   failed: the branch that keeps it ready looks for items that are "pending"
   (`app/tasks/sync.py:117`), and validation has set them to "validated".
   `tests/test_gate2_hotfix1_cancel_lifecycle.py:109` has the plan ready, with items still pending.
3. The handler decides that a plan is stale; the finalisation of its
   job then makes it partial (`app/worker.py:220`).
4. The fence reads the clock before it waits for the writer lock
   (`app/tasks/recovery.py:80`) and so renews a lease that has lapsed. The design
   (`docs/superpowers/plans/2026-09-11-gate5g-zfuse-transactional-mutation-implementation-plan.md:149`) asks
   for the opposite order. `CallsAreExclusive` bounds the damage: a protected
   call loses `MaxDelay` of its cover.
5. `validate_plan` looks for an active execution only when it starts. Its last
   transaction writes item states and the plan's status without looking again
   (`app/service.py:2219`), over an execution that was enqueued during the hashing;
   `tests/test_gate2_plan_enqueue.py:126` has a validation refused while an execution is active.
6. Whether the plan was already stale is remembered from before the files were
   verified (`app/service.py:2235`): of two validations that overlap, the last one may
   make the plan ready that the other has just found stale. `tests/test_gate3_stale_plan.py:385`: "Attempting to
   validate again must keep plan in stale status, never transition back to ready".
7. The verdict on a deleted plan lands on the draft that has been given its
   id (`app/models.py:303` has no AUTOINCREMENT), which becomes ready without having been
   frozen (`app/service.py:2221`). An enqueue that spans the deletion and the
   creation is the same case. `CompletedStays` bounds the damage of 5 to 7: only a request that read an item
   before it was completed can overwrite its outcome; `ExecutionHasPlan` shows that no
   such race takes the plan away from an execution.
   The worker has one transaction of that kind too: phase 3 of a move writes the row of its paired clean-up without
   looking at it (`app/tasks/handlers_base.py:3615` and 3916), so a move that is repeated after its clean-up was completed
   gives it a new outcome.

Quarantine.

8. The restore of a cross-storage entry through a plan: the intent sets the phase `restoring`
   (`app/tasks/handlers_base.py:3137`), which the restoring code rejects
   (`app/quarantine/cross_storage.py:1138`, "CROSS_STORAGE_RESTORE_PHASE_INVALID"). Every such restore fails
   and the entry ends in conflict; recovery of such an item raises. `tests/test_gate6c_cross_storage.py:697`
   expects it completed, of a call of the executor without the handler's intent before it.
   `KeepsPayload` shows that nothing is lost by it.
9. On one storage a worker that lost its lease can link or capture a name again after a
   restore that another completed (one file call, as the design allows), and
   an item found `source_captured` is planned again without a source (`app/quarantine/reconcile.py:373`).
   `NothingDestroyed` holds with it.
10. An interrupted single clear leaves its entry "purging" for good: the reconciliation at
    start-up leaves entries with a transaction phase alone (`app/service.py:5015`). `README.md:201` of the repository says start-up
    brings `preparing`, `restoring` and `purging` into line. `DeletionSettles` is about plans.
11. The restore of entries from before the transactions (`app/service.py:5056` to 5268) reads and
    writes in separate transactions without a lease.

Links and moves.

12. After a crash between the unlink of the source and the publication of the link
    (`app/storage_optimization/executor.py:1083`) the freshness check of the handler
    (`app/tasks/handlers_base.py:2636`) finds the source missing and blocks the replay, which section 9 of
    `docs/storage-optimization-h0-architecture-freeze.md` ("Crash / restart
    convergence") asks for. The payload is where `PayloadStays` says. The undo of the unlink does not
    look at the source again.
13. A worker that stalls inside a transplant (`app/execution/directory_transplant.py:233` to 250) while another
    carries out and undoes the move can remove what the other left: one stale call is enough, and
    `docs/superpowers/specs/2026-09-11-gate5g-zfuse-transactional-mutation-architecture-amendment.md:172` allows for exactly one.
    `NothingLost` is about moves that no such worker disturbs; `NothingLostToStalledWorker` states the stronger
    claim, and does not hold.
14. The branch for a clean-up that has already happened (`app/execution/executor.py:1069` to 1073) cannot be
    reached, so a crash between the paired `rmdir` and the record of it ends with the clean-up
    "skipped" and the plan partial. A transplant interrupted midway is never resumed; and if saving the
    state "transplanted" fails, a finished move is reported as failed. `TruthfulMove` says what can be
    relied on: an item reported as completed is.

Scheduler, workflows, utilities.

15. The scheduler's lease is never released, `reserve_scheduled_slot`
    (`app/scheduler/service.py:234`) has no caller, and the retry of a failed scheduled job is linked to no run,
    so the overlap check does not see it.
16. `generate_plan` asserts no lease: a stalled worker's draft can arrive after its job was given to another. A failure after
    the draft was committed reports the job as failed though the draft exists. The revision check does not
    tell a workflow from one that was deleted and created again under its id. `NewPlanHasItsRevision` and `DraftIsWhatWasPreviewed`
    hold with it.
17. `rebuild_plan` (`app/service.py:6652` to 6793) of an advanced organizer compares no preview digest, leaves out
    the structural stage and accepts an empty plan. A plan that is partial or failed, executed or not, is not in the list that
    `permanent_delete_workflow` looks for (`app/workflows/service.py:405`), and a partial one is validated to ready
    (`app/service.py:1623`) when its workflow is gone, or another has its id. `NewPlanHasItsRevision` is about plans that were
    held ever since.
18. `VirtualPathGraph` refuses some sequences that could be executed (files `a` and `b`, with `b` to `t`, `t` to `u`,
    `a` to `t`, `t` to `v`). It errs on the safe side: `OrderIsExecutable` is about what it accepts.
19. A directory reachable under two names lets the filtered quarantine select all its files; the guard of
    the executor refuses the last one (`LeavesOne`).

Protection of the last file.

20. A native rename has no fence of its own (`app/execution/executor.py:1053`), and the fence of a capture in a transaction
    is committed before its rename (`app/quarantine/engine.py:173`). A worker that stalls between its look and its rename and loses
    the lease still takes its file; if the new owner has taken others meanwhile, a protected directory can end up empty,
    or a group without a copy. `LeavesOne` excepts what the other one took and shows that the stalled worker takes this
    file only.

## What is not modelled, and the plan

- `TaskQueue`: the two residue clean-ups inside the worker loop, audit events, task logs, progress
  figures, the `scan_jobs` row. The resource policy is a choice of what may be claimed: the arithmetic of its
  windows and the three attempts of a claim (`app/tasks/recovery.py:226`) are left out.
- `PlanLifecycle`: what its section names; of `create_undo_plan`, how the inverse items are chosen.
- `QuarantineTx`: quarantine by a native rename (`app/execution/executor.py:1051`), with its entry and the recovery of it. A
  rename is one call; it is modelled as such in `LastFile`.
- `CrossStorage`, `QuarantineTx`: entries with a single role, the epochs of the journal, orphans known from
  metadata only. Maintenance (`bulk_lifecycle.py`, `restored_cleanup.py`, `transaction_residue.py`) works on records of
  finished transactions.
- `PermanentDelete`: the pruning of empty parents, the audit of a bulk purge. `app/quarantine/purge.py`, the
  older purge, is created by nothing.
- `StorageOptimization`: link counts, writes in place during the copy, the probe of capabilities, planning.
- `TreeMove`: moves of single files, `mkdir`, touch, and the restore of an empty directory.
- `LastFile`: scores, the balance between directories, the second check of the index's lineage
  (`app/service.py:7200` to 7240).
- `SchedulerDispatch`: the arithmetic of cron expressions, which is a set of due times.
- `WorkflowPlans`: what the organizers propose from media names; modes `file` and `organizer` apart from which
  inputs they read.
- `BatchUtilities`: of checks that overlap, some alone can be broken without any sample showing it (a duplicate
  source, an unsafe name and a changed wrapper are each caught by another check too), and
  the overlap check of flatten's preflight leaves nothing for its later rules on descendants to refuse.
- Archive recovery, download verification, media probes, authentication, filters, scanners, indexing, batch
  tools, API, schema and front end: cryptography, external tools, parsing, listing, single-row requests.

In order of what it would add:
1. `ClaimPolicy`: fingerprint, window and attempts of a claim, in the place of the choice in `TaskQueue`.
2. `QuarantineRecords`: maintenance, with the bulk purge.
