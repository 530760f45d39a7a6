# A formal model of TankAI Core

TLA+ modules, TLC configurations and TLAPS proofs about the parts of TankAI Core
whose correctness depends on the order in which processes, databases, Git and
crashes take their turns. The repository is under `src/`; all paths below are
relative to it, and `dev/` stands for `tankai/dev_orchestrator/`.

Contents: [inventory](#inventory) · [plan](#plan) · [modules](#modules) ·
[runs and bounds](#runs-and-bounds) · [fairness](#fairness) · [proofs](#proofs) ·
[where documentation and code differ](#where-documentation-and-code-differ) ·
[what is not modelled](#what-is-not-modelled)

## Inventory

| Part | State it keeps | Operations | What is hard |
| --- | --- | --- | --- |
| Fence store (`dev/fencing.py`) | one row per repository in its own SQLite file: epoch, job, token hash, expiry | acquire, renew, release, force-expire, current | the clock is read before the transaction begins; late calls with old credentials |
| Job queue and dispatcher (`dev/job_queue.py`, `dev/queue_cli.py`) | jobs, policies, repositories, events in another SQLite file; per worker process a main and a heartbeat thread | admit, enqueue, cancel, claim, recover expired leases, heartbeat, start, guard, complete, fail, reap | two databases that commit separately, crashes, retries, expiry during a check, a restored queue file |
| Integration (`dev/integration.py`) | journal file; local variables of one attempt | recover, rebase, fast-forward, test, finalize, roll back | three stores (Git, state file, journal) that a crash leaves at different points |
| Git workspaces (`dev/git_workspace.py`) | worktrees, branches, lock files under the common Git directory | create, rebase, merge, reset, remove; a lock file with takeover from a dead owner | takeover races, a crash in the middle of a rebase |
| State store (`dev/state_store.py`) | project state as JSON with a revision; a lock file | create, save, transaction | takeover of the lock by age |
| Orchestrator (`dev/orchestrator.py`, `dev/models.py`) | tasks, agents, worker runs, file locks, cycles, capabilities | about forty transactions on the project state | long legal sequences of calls; gates, dependencies, exclusive scopes |
| Worker pipeline and pool (`dev/worker.py`, `dev/pool.py`, `dev/process_control.py`) | a run's phase | prepare, implement, test, commit, review, QA, security, complete | the lease is lost between two phases; a stale runner reports its failure |
| Container runtime (`dev/container_runtime.py`) | containers with labels | execute, list, remove | a container outlives its worker |
| Releases (`dev/release_publication.py`, `dev/release_backup.py`) | publication ledger with a hash chain, backups | publish, verify, back up, restore | one of several files written |
| Web runtime cache (`tankai/web/runtime.py`) | cached workspace runtimes, leases on them, last use | get, acquire, evict, close | eviction and shutdown under concurrent requests |
| Authentication (`tankai/web/auth.py`, `tankai/web/auth_state.py`, `src/cloudflare.ts`) | users, sessions, invitations, agent tokens, write grants; a remote copy of the database with a revision | sign in, rotate, revoke, grant, consume; restore, save | two containers write the same object; grants used twice |
| Web server (`tankai/web/server.py`) | rate-limit windows | routes | limits under load |
| Agent core (`tankai/core`, `tankai/agents`) | runs, memories, vectors | plan, act, critique, synthesise; remember, recall, retain | retries and budgets around model calls, retention at capacity |
| Tools, evaluation, self-test, deployment scripts | none of their own | | |

How they interact: the dispatcher of the job queue claims a job (queue and fence
databases), runs the worker pipeline (project state, Git, containers) behind a
guard that asks the queue and the fence again before every stage, and records the
result. A reviewed run is later integrated by a separate command, which shares the
project state and the repository with everything else. The web side shares nothing
with them but the submission of jobs.

## Plan

The order follows what a wrong interleaving would damage most.

1. `FencedLock`, `LeaseFence`, `JobQueue`: who may change a repository. Done, with proofs.
2. `Integration`: how a change reaches MAIN and survives crashes. Done, with proofs.
3. `Orchestrator`: tasks, runs, gates, dependencies and exclusive scopes as
   transactions on one state, called by anybody; it is the abstract specification of
   `Development`, which has the pipelines, the integration and the operator that make
   the calls. Done, with proofs. `Scopes` is the comparison of scope patterns behind the
   locks. Left: the capability registry.
4. `LockFile`, with `StateStore` and `Publication` on top of it: the lock files and what
   they protect; `AtomicState` is the abstract specification of `StateStore`. Done, with
   proofs. Left: backup and restore of a release.
5. `Reaper`: cleaning worktrees and containers beside the workers of a job. Done, with
   proofs.
6. The web side: `AuthState` (with `src/cloudflare.ts` as its server), `RuntimeCache`,
   `Accounts`, `AgentJobs`, `LoginLimiter`, `ProviderLimiter`. Done, with proofs.
   Left: invitations, the expiry of sessions and tokens.
7. `AgentLoop` and `LongTermMemory`. Done, with proofs. Left: the run store.

Every safety invariant and action property the runs check is stated by a theorem. Theorems
still worth proving are the properties of the parts named "left" above once they are
modelled.

## Modules

### FencedLock

The abstract promise: per scope a generation that only grows, and whether somebody
holds it. A new generation starts only when nobody holds the old one, and a holder
that has lost its generation never holds it again.

### LeaseFence — `dev/fencing.py`

One action per method of `LeaseFenceStore`; each is one `BEGIN IMMEDIATE`
transaction. `fence[s]` is the row of `lease_fences`, with 0 for NULL and epoch 0 for
a missing row. Token hashes are numbers in the order of issue: two leases never share
one, which is what 48 random bytes mean. `acquire` and `renew` compute with an instant
read before the transaction could begin, hence `Samples`: any instant at most
`MaxWait` old. `release`, `current` and `_validated_lease` use the present.

### JobQueue — `dev/job_queue.py`

Extends `LeaseFence`. `jobs` is `development_jobs` as committed; `txn` is the table as
the claim in progress has changed it; `lock` is SQLite's write lock between `BEGIN
IMMEDIATE` and `COMMIT`. A method that only touches the queue is one action. A method
that also changes the fence store is cut where the other database commits:

| Code | Actions |
| --- | --- |
| `_prepare_admission`, `enqueue_with_outcome` | `PrepareAdmission`, `Enqueue` (the policy is the copy read first) |
| `cancel_job_with_outcome`, `set_policy` | `CancelJob`, `SetPolicy` |
| `claim_next` | `ClaimBegin` (lock, `_recover_expired_leases`), `ClaimSelect` (scan, fence acquired) or `ClaimNothing`, `ClaimCommit` or `ClaimAbort` |
| `heartbeat` | `HeartbeatCheck`, `HeartbeatRenew` or `HeartbeatDenied`, `HeartbeatCommit` or `HeartbeatError` |
| `start_job`, `complete_job`, `fail_job` | `StartCheck`/`StartCommit`, `CompleteCheck`/`CompleteCommit`, `FailCheck`/`FailCommit`, each or `CommitError` |
| `_release_terminal_fence` | `ReleaseFence` |
| `execution_guard`, the stage after it | `Guard`, `Stage` |
| `finally` of `run_once` | `Join` |
| `force_expire_fence` | `OperatorConfirm`, `OperatorExpire` |
| process stop, queue file restored | `Crash`, `TakeBackup`, `RestoreQueue` |

A process that ends after a `QueueError` and is started again is the step `Join` back
to "idle". The heartbeat thread is joined for good: the code waits twice the
interval, the model until the beat in progress has ended. A job is one idempotency
key; a replay finds its row and changes nothing. Left out: `available_at` (the
dispatcher asks for no delay), the hourly limit per user (it only rejects), disabled
or damaged repository rows (they behave like an inadmissible profile), events.

`MCJobQueue` holds the instances: which repository, profile and rank each job has, and
the sets of policies.

### Integration — `dev/integration.py`

With the operations it calls in `dev/orchestrator.py` and `dev/git_workspace.py`. A
commit is the sequence of the runs it contains: a rebase appends, "is an ancestor of"
is "is a prefix of". `pc` is the place in `run()`, `job` its local variables
(`merged` is `merged_commit is not None`, `started` is `integration_started`), and
`journal` the file. `Recover…` is `recover_interrupted_integration`, `Rollback…` and
`FailRun` are the `except` block. `Raise` is an exception before a step of the `try`
block has had an effect; `MergeRaises` one after `git merge` has moved MAIN;
`RollbackRaises` one inside the rollback (the journal is kept); `Abort` one outside.
`CancelTask` is another process. `journal.integration = <<>>` is `None`: it is only
compared where a commit has been written.

### Orchestrator — `dev/orchestrator.py`

One action per transaction of `DevelopmentOrchestrator`. `ProjectStateStore` makes a
transaction atomic, and one that raises leaves the state alone, so that an error is a
guard that is false. `CanX` is what the transaction `x` checks: the callers in
`Development` need it to know when they are refused. `task`, `agent` and `run` are the
records of `dev/models.py` with the fields that decide; a state "none" is a record that
does not exist yet. A task is assigned once and its agent works on nothing else, so an
agent has its task's name, and `agent.base_commit` is `task.base_commit`. `locks` are
the tasks whose scopes are in `file_locks`, which are always added and removed by task.
A scope is the set of files it matches. MAIN's commits are numbered; the commit of a run
is the run and the commit it is based on. `Advance` is what `integrate_task` and
`finalize_worker_integration` have in common. Three history variables serve the
properties: `released` (tasks that gave up their locks since they started), `approvals`
(gates that approved since the last submission) and `returned` (tasks whose agent had
ended and was made active or blocked again: `NoteReturn`).

`OrchestratorSpec` lets anybody make any call at any time.

### Development — `dev/worker.py`, `dev/integration.py`, `dev/pool.py`

Extends `Orchestrator` with those who call it.

| Code | Actions |
| --- | --- |
| `WorkerPipelineRunner.run`, `_run_gates` | `StartPipeline`, then one action per transaction: `Begin`, `Implement`, `SubmitRun`, `Mark`, `AssignRunReviewer`, `Review`, `Security`, `AssignRunTester`, `QA`, `Complete` |
| its `except` block | `StageFails` (a command, Git or the runtime fails), `PersistFailure` |
| a stopped process, a lost lease | `PipelineCrash`: `_guard_allows_persistence` forbids what a dead process cannot do either |
| `WorkerIntegrationRunner.run` | `StartIntegration`, `BeginStep`, `RebaseStep`, `MergeStep`, `IntegrationFails`, `PersistIntegrationFailure`, `IntegrationCrash`, `RecoverIntegration` |
| `cli.py`, used by the operator | `Plan`, `Cancel`, `Reopen`, `Rebase`, `NewCycle` |
| `reap_worktrees` with a confirmed run | `Reap` |
| agents that submit without a pipeline | `Manual` |

`pc[r]` is the place in `run()`; in "raised blocked" and "raised failed" the exception
has been raised and is about to be persisted. Between any two transactions others take
their turns. `WorkerPoolRunner` runs pipelines of different agents at once; what stops
two pipelines of one task is the queue, or the pool's one job per agent. In an update of
a run only the commit and the state matter: updates that change executions, messages or
the phase appear where they can be refused.

`MCDevelopment` holds the instances.

### Scopes — `dev/orchestrator.py`

`Orchestrator` takes a scope for the set of its files. Here it is a text of any number of
names with wildcards, up to a length, in the form `normalize_repo_path` returns;
`PathMatchesScope`, `ScopeAnchor` and `ScopesOverlap` are the functions of the source,
character by character, because what can go wrong is in the characters. `FnMatch` says
that the path is cut into one stretch per character of the pattern, of any length for a
wildcard. `AcquireLock` and `ReleaseLocks` are the locks of two agents. "?" and "[" are not told apart from "*": they
end an anchor like it and match less.

### LockFile, StateStore, Publication — `dev/git_workspace.py`, `dev/state_store.py`, `dev/release_publication.py`

`LockFile` has both kinds of lock file, told apart by `rule`: "age" (`_process_lock` of
the state store and of the ledger: a file older than 120 s is removed) and "owner"
(`_git_metadata_lock`: a file whose process is gone, or that says nothing for a second).
A waiter finds the file stale in one step (`FindStale`) and removes what is there by then
in another (`RemoveFile`, `RemoveStale`); the release removes the file whoever made it.
`Age` and `Die` are the faults: a holder that is too slow, or killed. `displaced` records
that a file was removed under a holder that still worked, `fault` that one of the two
has happened.

`StateStore` puts `create`, `transaction` and the read-and-`save` of a caller inside the
lock; `Publication` the creation of a ledger and its receipts, whose hash chain is
verified at every load, while `Rebuild` changes the release directory.

### AtomicState

The abstract promise of the state store, without files, locks and revisions: `create`,
`transaction` and `save` each change the state as it was at one instant, once, and a save
only while the state is what its caller has read. It ends when a lock is taken from a process
at work (`Break`). `StateStore` implements it, which is why a transaction is one step in
`Orchestrator`.

### Reaper — `dev/job_queue.py`, `dev/git_workspace.py`, `dev/worker.py`

One agent, its task and its worktree, and the attempts of one job by their fence epochs.
A worker's run is `Prepare` … `Finish`, or `Fail`, `RemoveOwn`, `UnbindRemoved`; the
operator's steps are `StartSweep`, `ReadProject`, `LookAtTree`,
`LookAgain`, `RemoveTree`, `FailConfirmed`, `Unbind` for worktrees; `ListContainers`,
`ReadJobs`, `ReadFence`, `RemoveContainers` for containers. Only `LookAgain` and
`RemoveTree` are under the workspace lock. `harm` is a history variable: who was robbed of
a worktree, whether work was lost, whether a failed predecessor removed it (`crossed`) or
cleared its binding (`unbound`). Lease and fence
of an epoch are one flag: they part only where `JobQueue` shows how.

### RuntimeCache — `tankai/web/runtime.py`

Request threads on `WorkspaceRuntimeManager`. What happens under the manager's lock is one
step: `AcquireCached`, `AcquireNew` (with the expiry and eviction it causes, whose closes
may fail), `AcquireFails`, `DropLease`, `CloseManager`; between `acquire` and the end of
the lease a thread takes the runtime's own lock. `lru` is the order of the `OrderedDict`
as a set of pairs of keys. A sweep takes a set of keys (`AfterExpiry`: those up to the
last expired one; `AfterVictims`: the first ones without a lease), closes what is under
them, any of which may fail (`Failures`), and leaves what `Evicted` says.

### AuthState — `tankai/web/auth_state.py`, `tankai/web/server.py`, `src/cloudflare.ts`

Containers boot (`Fetch`, `InstallSnapshot`, `BootstrapOwner`, `BootSave`), change their
database (`CommitChange`) and save it before they answer (`SaveBeforeAnswer`). A PUT and
its reply are messages in `wire` and `replies` that may be late or never come;
`DeliverPut` is the Durable Object with `If-Match`. `Timeout` is a reply that nobody waits
for any more. A database is the set of changes that made it.

### LoginLimiter, ProviderLimiter — `tankai/web/server.py`, `tankai/web/auth.py`

Both read the clock before they take a lock; `MaxLag` and `MaxDelay` bound how much
earlier. The first has three steps per log-in, the second books a call in one
transaction. `attempts` and `tried` are sets of events, those of one instant told apart by
a number.

### AgentJobs — `tankai/web/server.py`, `tankai/web/auth.py`, `dev/job_queue.py`

A submission is `Enqueued` (queue database), `GrantJob` (auth database) and the answer,
and may break in between; the client then repeats it with its idempotency key. A walk
through the job list takes its pages while others submit, cancel and run jobs: with a
filter from scans of several grant pages, without one from a page of grants. A page is a
set of jobs, in the order of instant and identifier that the query asks for; `walk`
records what the client has `seen`, what it saw `again` and what is still `due` to it.

### Accounts — `tankai/web/auth.py`

A request reads who asks and what there is (`Verify`, `Resolve`, `ResolveActor`,
`FindAgent`, `CountAgents`, `CountTokens`) and then acts on it (`StoreSession`,
`SelectWorkspace`, `CreateWorkspace`, `InsertAgent`, `InsertToken`, `DeactivateAgent`);
the server and two command lines are processes between whose statements others commit.

### AgentLoop — `tankai/core/loop.py`

One run: `MakePlan`, `ReviewPlan`, then for every step `ExecuteStep` and `CritiqueStep`
(in order, or all at once in the parallel mode), `Synthesize`, `Verify`, and what the run
leaves behind (`Learn`, `Consolidate`, `Complete`). A model's answer is any verdict and
any citation; a call may fail, be refused or find the budget used up.

### LongTermMemory — `tankai/core/long_term_memory.py`, `tankai/core/vector_store.py`

`rows` is SQLite, `index` the vectors in memory and `saved` their file, `archive` the
lines of the cold archive. An operation on several of them is cut where each is written:
`AddEntry`, `IndexEntry`; `ArchiveLine`, `Unindex`, `MakeStub`. `ArchiveWriteFails`,
`SaveFails` and `Crash` may come at each.

### MCWeb, MCPlatform

The web side's modules share no state with each other, and neither do the others above.
To check them with few configurations, a behaviour of `MCWeb` or `MCPlatform` is one of a
single part, which `which` names; the other parts keep their initial values. The
invariants `RuntimesHold`, `AuthStateHolds`, `RatesHold`, `SubmissionsHold`, `AccountsHold`,
`RunsHold`, `MemoryHolds`, `LockedFilesHold`, `CleanupHolds` and `ScopesHold` are the
conjunctions of the properties the parts' own modules define, their types among them.

## Runs and bounds

| Run | Instance | Shows |
| --- | --- | --- |
| `QueueCrash` | 2 workers, 2 jobs of one repository, one attempt, 1 fault, 1 operator revocation, clock to 5, read up to 1 late | types, `OneActivePerRepo`, `CheckHoldsUntilCommit`, `RunningLeaseIsNewest`, `SuccessUnderNewestEpoch`, `TerminalIsFinal` |
| `QueueRetry` | 2 workers, 1 job with 2 attempts, retryable or not, 1 fault, 1 restore of the queue file, 1 guarded stage | `AttemptsBounded`, `LiveFenceKeepsItsJob`, `SupersededWorkersStop`, `ImplementsFencedLock` |
| `QueueProgress` | 2 workers, 2 jobs of two repositories in one workspace, three policies that differ in limits, profiles and enabling, one change, 1 fault, with fairness | `CapacityRespected`, `QueuedJobsEnd` |
| `Integration` | 3 runs, 2 crashes, 2 errors, any cancellations | the integration invariants, `StateFollowsMain`, `OrphanedInOnePlace`, `IntegrationEnds` |
| `Development` | 3 tasks (one for two worker runs, one worked on by hand that writes the same file, one that depends on the first), at most 2 active agents, 2 a cycle, 1 of a module (the last two tasks share one), 1 child, 1 generation; 3 interventions of the operator (new cycles among them), 1 crash | `GatesPassed`, `OneWriter`, `DependenciesFirst`, `EndedPipelineClosesRun`, `ReadyIsIntegrable`, `ListsMatch`, `LimitsHold` |
| `Web` | one part at a time: the cache with 2 threads, 3 workspaces and room for 2 runtimes, 2 failing closes; 2 containers that boot up to twice, 2 POSTs, a snapshot that holds 2 changes; 2 log-ins with a limit of 2; 2 calls per window; 3 jobs of one agent listed in pages of 1; 2 users, 2 workspaces, 2 requests | `RuntimesHold`, `AuthStateHolds`, `RatesHold`, `SubmissionsHold`, `AccountsHold` |
| `Platform` | one part at a time: a plan of up to 2 steps with one retry and 5, 7 or 12 calls; 2 memories, 1 fault; 3 processes at a lock file; 2 attempts of a job and one cleanup; 2 agents with scopes of up to 5 characters: one letter, separator, wildcard | `RunsHold`, `MemoryHolds`, `LockedFilesHold`, `CleanupHolds`, `ScopesHold`, `LiveTreeIsRemovedLate`, `ImplementsAtomicState` |

Why these bounds are enough for the cases that matter: two workers are what it takes
to supersede one; two jobs of one repository what it takes to violate exclusion; a
claim lease of 1 and a heartbeat lease of 2 on a clock of 5 let a lease expire, be
recovered, be claimed again and expire again; one fault at any step is a crash between
any two commits. `MaxTime` is not reached in `QueueProgress`, where the clock only
moves while some expiry lies ahead. `MaxIssued` exceeds the leases that can be issued.
In `Integration` the third run is what makes a rebase of a rebased branch happen; two
crashes let recovery itself be interrupted. In `Development` the second run follows a
reopened first one; integrating the task worked on by hand moves MAIN under the worker,
so that its branch is rebased; three interventions are a cancellation, a reopening and
one more. The task worked on by hand and the dependent one meet the limit of their module;
the cycle's limit makes the third agent wait for a new cycle; a cancelled or rejected agent
can be brought back while another has its place. The locks and the dependency keep more
than two counted agents apart before the limit of active agents does, and no agent here has
a second child to approve: for those limits the theorem `LimitsCorrect` stands alone. Nothing
in this run has to happen: an operator who has used up the interventions may leave a blocked
task alone, hence `CHECK_DEADLOCK FALSE`.

In `Web` room for two of three runtimes makes every third request evict; two boots of a
container let one meet its own late PUT, and a snapshot of two changes is the one that the
third does not fit into; pages of one job make a walk of three jobs continue twice, which
is where a page can skip or repeat one; a limit of two attempts or calls and two actors is
what it takes to exceed a limit by reading it together. In `Platform` three processes are
a holder, one who takes its stale file away and one who comes next; two memories let one be
stored, archived or restored around the fault of the other; 5 calls do not pay for
a plan of two steps, 7 do without a retry and 12 always do; two epochs are a worker and its
successor. Neither run has to go on for ever: a walk ends, budgets, instants and attempts
are bounded, and a lock file whose holder died may be given up, hence
`CHECK_DEADLOCK FALSE`.

`Development` uses the symmetry of the two runs of one task, `Web` and `Platform` that of
actors of one kind (several kinds share their names in the configuration, so that one
permutation serves all), and these check no liveness. The other runs use none: jobs differ
in rank, and two of them check liveness.

## Fairness

`QueueProgress` assumes that the clock moves while an expiry lies ahead and that every
worker's claim, heartbeat and run steps are weakly fair: `queue_cli run-worker` polls
forever, every stage and every SQLite statement has a timeout, and a supervisor starts
a process again. Nothing makes a fault, a cancellation, an operator or a policy change
happen. `Integration` assumes that a call of `run()` that has started goes on, since
each of its steps has a timeout; nothing makes anybody start one.

## Proofs

TLAPS checks all theorems for every value of the constants, that is any number of workers,
jobs, tasks, processes, faults, crashes and restores and any bound on clocks and counters,
from the named assumptions of the modules only. Those say that a "none" value is not a
member of its set, that bounds are natural numbers, and what the code guarantees
besides: sets that are counted (jobs, processes, threads, workspaces, log-ins, sources)
are finite, limits the code requires to be at least one are positive, job ranks are
distinct. TLC evaluates them in the runs of the modules that declare them.

**The queue** (`FenceAssumption`, `QueueAssumption`)

- `LeaseFenceProofs`: `FenceTypeCorrect`, `EndedLeasesStayEnded` (which the runs check as
  part of `ImplementsFencedLock`), and
  `LeaseFenceRefines`: every step of the fence store, called by anybody with any
  credentials, is a step of `FencedLock` or a stutter. The lemmas `Grants` (a new
  epoch starts only on a scope that is not live) and `UpkeepOnlyLoses` (everything
  else keeps the epoch and never makes a scope live) carry it.
- `JobQueueProofs`, the safety of the rows: `TypeCorrect`, `LockIsDisciplined`,
  `ChecksHold`, `OneActivePerRepository`, `AttemptsStayBounded`, `SuccessIsNewest`,
  `TerminalStaysTerminal`, `QueueUsesFencedLock`. None is inductive alone. The invariant is
  `QueueInv`: types and lock discipline, `CheckHoldsUntilCommit`, and for each of the
  tables `jobs`, `txn` and `backup` that it is *sound* (no two active jobs of a
  repository, attempts bounded, inactive rows carry no lease) and, for `txn`, that the
  claim has *kept* the rows it must not touch (a job that had ended in `jobs` is unchanged
  in `txn`). `CheckHoldsUntilCommit` needs the write lock: while it is held no claim
  acquires a fence, and only a claim can raise an epoch.
- `JobQueueProofs`, the leases: `LiveFencesKeepTheirJobs`, `CapacityIsRespected`,
  `QueueEndsLeases`. `LeaseInv` adds to `QueueInv` that no copy of a row carries an epoch
  that was not issued (`Epochs`), that a claim in progress has ended a lease only where the
  fence was gone, which no step brings back before the claim commits (`Recovery`), and that
  the count of active jobs a claim made its choice on is still the one at its commit
  (`Room`). Every step that is neither part of a claim nor a restore is shown to be
  `Ordinary`, and the properties then follow from four kinds of steps.
- `RunningLeasesAreNewest` speaks of the states before any restore of the queue file: a
  restored queue may hold a running lease of an epoch that its repository has left behind
  (TLC finds it with the constants of `QueueRetry`). The proof counts the restores.
- `SupersededWorkersAreStopped`: no two leases share a token and who shows the fence's token
  has its epoch (`Known`), so that a worker whose epoch was superseded is told so by the
  first guard, heartbeat or end it tries.

The proof of a step has one lemma per kind of step (`QuietStep`, `FreeStep`,
`ClaimStep`, …); the theorems then follow from the invariant, the action properties
from `StepsAreHonest` and `FenceSteps`.

**The orchestrator and its callers** (`OrchestratorAssumption`, `DevelopmentAssumption`)

- `OrchestratorProofs`: `ProjectTypeCorrect`, `GatesPassedCorrect`, `OneWriterCorrect`,
  `DependenciesFirstCorrect`, `ListsMatchCorrect`. Behind them are four invariants that
  say what a task's records mean in *every* state, also in those it may come back from:
  `Assignments` (what is not assigned is not worked on, and a run that was begun has an
  agent), `Locks` (an agent holds its locks, also while its task is blocked or failed,
  until they are released; what is locked is disjoint), `Dependencies` (they were
  integrated when the agent began, and the list of completed tasks never loses one) and
  `Decisions` (an approval on record is one of the last submission, and a task at work
  has none). `GatesPassed` alone is not inductive because the last gate to answer decides
  from records of the others; `OneWriter` is not because a blocked task can come back.
- `LimitsCorrect`: the limits of the governance policy need only the types. A step begins a
  cycle, when nobody is left to count; starts one agent, for which `HasCapacity` has left
  room (`StartKeepsLimits`); or starts nobody, and then nobody comes to be counted
  (`OthersStartNobody`), because the two calls that revive an agent mark it as `returned`.
- `DevelopmentProofs`: `DevelopmentImplements`: every step of the pipelines, the
  integration, the operator and the other agents is a transaction of the orchestrator or
  leaves the project state alone. So `DevelopmentSafe` follows from what was proved of
  `OrchestratorSpec`; `TypeCorrect` adds the types of the processes.
- `PipelinesAreRight`, `EndedPipelinesCloseTheirRuns` and `ReadyTasksAreIntegrable`: the
  invariant `PipeInv` says of each task that at most one pipeline of it is alive
  (`OnePipeline`), that a live pipeline's run is at the pipeline's own place and the task
  names it unless it was reopened (`LiveRun`), that a task names its own, begun runs only
  (`OwnRun`), and that nobody works on a task whose run waits for integration
  (`WaitingRun`). "Ended pipelines close their runs" alone is not inductive: that a run is
  closed is decided two transactions before its pipeline ends.

**The integration** (`IntegrationAssumption`)

- `IntegrationProofs`: `TypeCorrect`, `DivergenceIsJournaledCorrect`,
  `StableIsInMainCorrect`, `IntegratedOnceCorrect`, `WaitingRunIsUsableCorrect` and
  `StateFollowsMainCorrect`: every safety property of the run. The properties speak of
  what is stored; what makes them inductive is what `run()` knows at each place.
  `Located` says that a place has its run and its journal, `MergedAsJournaled` that
  what is tested and finalized is what was merged on top of the state's commit,
  `Undisturbed` that without an error nobody else has moved state or MAIN since the
  attempt began, `WorkOnBase` that a reviewed commit is the run's own work on its base
  and `WaitingUsable` where the workspace is while the journal names it. A commit is
  a sequence of any length, and no property of finite sets is used.
- `OrphansComeFromOnePlace`: who answers for a run that is being integrated. An attempt that
  has begun a run's integration remembers it until it ends (`Answering`), the journal is its
  own also on its way out, and a journal is given up only for a run that no longer is being
  integrated (`OwnJournal`). The one place left is named under "seen while modelling".

**Locked files, cleanup, scopes, agent runs, memory** (`PlatformProofs`; `LockAssumption`,
`PublicationAssumption`, `ReaperAssumption`, `ScopesAssumption`, `LoopAssumption`,
`MemoryAssumption`)

`PlatformIsInductive` has the invariants of the parts together; the theorems on the parts
state their types too.

- `LockedFilesAreSafe`. While nobody was displaced, who works under the lock file made it
  (`Exclusive`), and while nobody was too slow or died, nobody takes a file away
  (`Faultless`). On it rest the state store (what a process loaded is the state, and who
  knows the revision of the state knows the state: `LoadedIsCurrent`, `KnownIsOlder`) and
  the ledger of a release (what was read can be extended by the receipt asked for, and is
  the ledger: `LoadedIsExtensible`, `LoadedLedger`; every receipt in it is one that was
  answered: `Written`). That a ledger verifies needs no lock at all.
- `StoreIsAtomic`: `StateStore` implements `AtomicState`. The value is the state without its
  revision, the instant of a change is the replacement of the file, and the promise is broken
  when somebody was displaced. The replacement maps to `Apply` because what was loaded is what
  the call asked for (`LoadedAsAsked`) and is still the state (`LoadedIsCurrent`), and because
  who has written does not write again (`ConfirmedLeft`); every step of the lock file leaves
  the state alone or displaces somebody.
- `CleanupIsSafe`, `LiveTreesGoLate`. No worker and no container is of an epoch still to
  come (`ClaimsPrecede`); a worker at work has its worktree unless it was taken
  (`BusyHasTree`); what a cleanup has read still holds unless a later claim or a
  predecessor's unbinding came in between (`SweepKnows`, `LateIsSeen`), and the rows the
  removal of containers has read are not newer than the fence (`PurgeKnows`).
- `RunsAreEarned`. A step that is "ok" has its sources (`OkIsBacked`), nothing is released
  before the last stage (`Unreleased`) and then only with all it needs (`PassedIsEarned`).
  That a budget of `Needed` calls suffices for a plain run needs the calls of each stage
  counted (`CallsOfStage`).
- `ScopesAreKeptApart`. `OverlapIsRight`: for scopes of any length whose wildcards begin a
  name, two that are said not to overlap share no file; `PlainOverlapIsExact`: without
  wildcards, two that are said to overlap share one. A scope's anchor covers its files
  (`AnchorCovers`), two directories above one file are above one another
  (`DirectoriesMeet`), and before the first wildcard a match is literal (`LiteralPrefix`).
  The locks are kept by `ScopesInv`: those of different agents are not said to overlap.
- `MemoryIsKept`. Who has a line in the archive has the full text in the first one, and who
  is a stub or about to become one has a line (`ArchiveInv`); index and file differ only
  for entries a fault has hurt (`IndexInv`); what is about to be written to a row's policy
  never warms up a cold one (`PendingInv`).

**The web side** (`WebProofs`, `AuthStateProofs`; the assumptions of `Accounts`,
`LoginLimiter`, `ProviderLimiter`, `AgentJobs`, `RuntimeCache`, `AuthState`)

`WebIsInductive` has the invariants of the parts together; the theorems on the parts state
their types too.

- `AcknowledgedIsDurableCorrect`, `OneOwnerCorrect` (together `SnapshotsAreKept`),
  `SnapshotOnlyGrowsCorrect`. The
  invariant `AuthStateInv` relates the revision a container holds to the snapshot it stands
  for (whose revision is the object's has all of the object's changes), a reply on its way
  to the PUT it answers, and a serving container's database to the snapshot. Late and lost
  messages need no case of their own, since a message on its way says nothing that stops
  being true.
- `AccountsAreSafe`. What a request has read of a membership stays true, as no code
  withdraws one (`Fine`); for the limits, the rows of a workspace and the processes that
  have counted them and not yet inserted theirs are together at most the limit and the
  processes less one (`AgentsCounted`, `TokensCounted`). That a new workspace finds a free
  slug (`Tenancy`) is the pigeonhole principle.
- `RatesAreKept`. What the provider's limiter has forgotten is older than any window that
  can still be asked about (`ForgottenIsOld`). Of wrong passwords, those on record and the
  threads let in together are counted (`TriesRecorded`, `LetInBounded`).
- `SubmissionsAreAnswered`. In a walk the cursor lies between what was seen and what is
  still due, and within a page the scan's does (`NothingMissed`); with the order of instant
  and identifier being total, nothing is skipped or repeated.
- `RuntimesAreRight`. The tables the cache keeps are *sound* (`Sound`: key order, runtimes
  and holders agree), and the leases on a key are counted as many as the requests that use
  it, so that a key without a lease has no user. That a sweep keeps tables sound whatever
  close fails (`EvictionIsSound`) is proved of tables by themselves.

Only model-checked: the liveness properties `QueuedJobsEnd` and `IntegrationEnds`, which
are out of the prover's reach, with the fairness they assume.

## Where documentation and code differ

Each is a run that expects TLC's counterexample.

- `QueueSuccessClaim`: a fence may be lost between `complete_job`'s check and its
  `COMMIT`; README.md:247 says a lost fence cannot produce a success. What holds, and
  is proved, is that nobody else has been given the repository by then.
- `IntegrationCrashClaim`: a crash after the fast-forward and before the journal says
  "merged" is refused by every later recovery, and with it every later integration.
- `IntegrationStateClaim`: a command that fails after `git merge` has moved MAIN leaves
  MAIN ahead of the project state and clears the journal.
- `OneWriterClaim`: cancelling a task gives its files to another; when the cancelled
  task's pipeline then fails, `fail_worker_run` makes the task blocked, and `reopen_task`
  active, without locks: two agents write the same file. README.md:145 says locks enforce
  one agent per file. What holds, and is proved, is `OneWriter`: the tasks that have not
  lost their locks this way are kept apart.
- `ScopeClaim`: a wildcard inside a name makes the comparison of two scopes miss files they
  share: `src/a*` and `src/abc.py` are locked by two agents. orchestrator.py:94 calls the
  comparison conservative. What holds is `ScopesHold`: it is where every wildcard begins a
  name, and exact for plain files and directories.

Seen while modelling and not a run:

- `rebase_task` refuses tasks with an implementation commit; a worker's task gets one when
  it is submitted, so that until then its base is moved away from under the run
  (`WorkerBaseClaim`, which fails with the constants of `Development`).
- A worker that passed its guard may act on the repository after a newer worker did: the
  stage carries no epoch that Git or the state file would check (`StagesInEpochOrder`,
  which fails with the constants of `QueueRetry`). What holds, and is proved, is
  `SupersededWorkersStop`: the stage it is in is its last one.
- A crash between `journal.clear()` and `fail_worker_run` in the `except` block
  (integration.py:309-320) leaves a run "integrating" that nothing resets. This is the only
  place where a run is orphaned, which `OrphanedInOnePlace` says and is proved. A cancelled task
  makes `reset_worker_integration` refuse, so that a journal of its run is never cleared.
- A process that stops between `record_qa` and `complete_worker_run` leaves a ready task
  with a submitted run, which no command completes (`ReadyIsIntegrable` therefore speaks of
  pipelines that have ended).
- A failed worker removes its worktree and then calls `unbind_workspace` (worker.py:236),
  without asking whose binding it clears: by then its successor may have made and bound the
  worktree anew. A cleanup that reads the state afterwards finds nothing bound and takes
  the successor's worktree once it is old enough. `LiveTreeIsRemovedLate` therefore names
  this case (`harm.unbound`); it takes three attempts of a job, one more than the run
  `Platform` has, and was found by its proof.
- `reopen_task` makes a rejected agent active again without asking for capacity, and
  `fail_worker_run` a cancelled one blocked. Such agents may exceed the limits of active
  agents; `LimitsHold` says, and is proved, that nothing else does.
- README.md:129 says that competing tasks of one capability that are active at the same time
  are blocked. `_validate_capability_task` runs in `create_task` only and looks at tasks that
  are active then: two that are created before either is started may both become active.
- docs/DEVELOPMENT_ORCHESTRATOR.md:325 says that the lock file keeps simultaneous local
  writers apart. A holder slower than 120 s loses it to another and then removes the
  other's: two write at once. `create` and `transaction` may then lose a change, a receipt
  of the ledger may be lost; `LockedFilesHold` says that only such a fault can.
- The git lock's `stale_seconds` never decides: after a second a file without a living owner
  is taken over, and one with a living owner never is.
- `reap_worktrees` unbinds the agents after it has removed the worktrees: stopped in
  between, it leaves agents bound to worktrees that are not there. A worker that failed and
  whose fence was lost after its guard removes the worktree its successor has taken over.
- An archive line that a crash cuts off makes every later line unreadable to
  `restore_from_cold`; `ColdIsRestorable` says that nothing else does.
- Audit events are never deleted, and a snapshot of more than 8 MiB is not saved
  (auth_state.py:171): from then on every POST fails.

## What is not modelled

Of the orchestrator: the capability registry, worklogs, and who the reviewers, testers and
security agents are (`assign_reviewer` and its like check roles, that nobody checks their
own work and that the agent is active; in `Development` a pipeline refused for such a
reason takes `StageFails`). Of the job queue: the registration of repositories, the hourly
limit per user, the delay of a retry. Of the web side: routing, ETags, invitations, password
hashes, the expiry of sessions and tokens. Of the agent core: the text of prompts and
answers, embeddings and similarity (numeric), `max_hot_entries` (no caller sets it), the
run store. Backup and restore of a
release, readiness checks, argument parsing and reports keep no state that two actors
share; Docker, Podman, the tools and the deployment scripts call out and validate what comes
back.

Simplifications to know of: a transaction of the state store is one step outside
`StateStore` (`StoreIsAtomic` says when it may be taken for one); a cleanup in `Reaper` is faster than the minimum age it asks for, and there is
one per behaviour; the containers' labels and ages are whether they can be told to
belong to an epoch; SQLite commits that fail and are only printed (`LongTermMemory`) are
crashes. Mutations of a definition (`…Stuck`, `…Early`, `…OnceMore`, marked "Mutation:")
stand before the definition they vary; each breaks a property, which shows that the
property depends on that detail of the code.
