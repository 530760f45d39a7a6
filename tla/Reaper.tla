------------------------------- MODULE Reaper -------------------------------
(***************************************************************************)
(* The operator's cleanup of worktrees and containers (reap_worktrees and  *)
(* reap_containers, dev_orchestrator/job_queue.py, on                      *)
(* reap_managed_worktrees, git_workspace.py) beside the workers of one     *)
(* job.  The cleanup holds no lock while it checks that nothing is active, *)
(* reads the project state and looks at a worktree: only the last look and *)
(* the removal happen under the workspace lock.  One agent with its task   *)
(* and its worktree; an attempt of the job is named by its fence epoch,    *)
(* and a behaviour has one cleanup.                                        *)
(***************************************************************************)
EXTENDS Naturals, FiniteSets

CONSTANTS
    MaxEpoch,       \* bound: claims of the job
    MinAges         \* the cleanup's min_age_seconds: a subset of {0, 1}

ASSUME ReaperAssumption == MaxEpoch \in Nat /\ MinAges \subseteq {0, 1}

VARIABLES
    job,            \* the job's row: its state, the epoch of its last claim, lease and fence alive
    project,        \* the project state: the task, the agent's binding, the run of every epoch
    tree,           \* the worktree: whether it exists, is dirty, is younger than the minimum age
    worker,         \* where the worker of every epoch is
    made,           \* the epochs whose worker has created the worktree
    containers,     \* the epochs whose container exists
    sweep,          \* the cleanup of worktrees: where it is and what it has read
    purge,          \* the cleanup of containers: likewise
    harm            \* whom the cleanups have hurt, and whether one stopped halfway

reaperVars == <<job, project, tree, worker, made, containers, sweep, purge, harm>>

Epochs == 1..MaxEpoch

Rows == [state : {"queued", "leased", "ended"}, epoch : 0..MaxEpoch, live : BOOLEAN]

\* The worker of epoch e still owns the fence.
Owns(e) == job.epoch = e /\ job.live

\* Between the workspace's preparation and the end of the run.
Busy == {"prepared", "guarded", "bound", "begun", "committed"}

\* In these states the run or the task keeps its worktree.
ActiveRuns == {"running", "ready"}
ActiveTasks == {"active", "ready"}

NoTree == [exists |-> FALSE, dirty |-> FALSE, young |-> FALSE]

\* The cleanup of worktrees is between its checks and the removal.
Sweeping == sweep.at \in {"checked", "read", "looked", "locked"}

NoSweep(at) == [at |-> at, minAge |-> 0, confirmed |-> 0, active |-> FALSE,
                late |-> {}, stale |-> FALSE, behind |-> FALSE]

NoPurge(at) == [at |-> at, listed |-> {}, confirmed |-> 0, fence |-> 0,
                row |-> [state |-> "ended", epoch |-> 0, live |-> FALSE]]

-----------------------------------------------------------------------------
(* The queue. *)

\* claim: takes lease and fence with the next epoch.
Claim ==
    /\ job.state = "queued" /\ job.epoch < MaxEpoch
    /\ job' = [state |-> "leased", epoch |-> job.epoch + 1, live |-> TRUE]
    /\ worker' = [worker EXCEPT ![job.epoch + 1] = "claimed"]
    /\ sweep' = [sweep EXCEPT !.late = IF Sweeping THEN @ \cup {job.epoch + 1} ELSE @]
    /\ UNCHANGED <<project, tree, made, containers, purge, harm>>

\* Lease and fence expire, the worker may not notice.
Expire ==
    /\ job.live
    /\ job' = [job EXCEPT !.live = FALSE]
    /\ UNCHANGED <<project, tree, worker, made, containers, sweep, purge, harm>>

\* recover_expired
Recover ==
    /\ job.state = "leased" /\ ~job.live
    /\ \E s \in {"queued", "ended"} : job' = [job EXCEPT !.state = s]
    /\ UNCHANGED <<project, tree, worker, made, containers, sweep, purge, harm>>

\* reopen_task on a blocked task, and a new job for the rework.
Rework ==
    /\ project.task = "blocked" /\ job.state = "ended"
    /\ project' = [project EXCEPT !.task = "active"]
    /\ job' = [job EXCEPT !.state = "queued"]
    /\ sweep' = [sweep EXCEPT !.stale = Sweeping]
    /\ UNCHANGED <<tree, worker, made, containers, purge, harm>>

-----------------------------------------------------------------------------
(* The worker (WorkerPipeline.run). *)

\* The worker stops: whose fence is intact reports it and ends the job.
Stops(e) ==
    /\ worker' = [worker EXCEPT ![e] = "stopped"]
    /\ containers' = containers \ {e}
    /\ job' = IF Owns(e) THEN [job EXCEPT !.state = "ended", !.live = FALSE] ELSE job

\* _persist_failure, which looks for the run it started.
FailedRun(e) ==
    IF Owns(e) /\ project.run[e] = "running"
    THEN [project EXCEPT !.run[e] = "blocked", !.task = "blocked"]
    ELSE project

\* get_or_create_workspace: a bound workspace must be there and clean; where none is bound
\* there must be none, and a new one is created under the workspace lock.  The fence was
\* checked right after the claim, and may be lost since.
Prepare(e) ==
    /\ worker[e] = "claimed"
    /\ \/ /\ project.bound /\ tree.exists /\ ~tree.dirty
          /\ UNCHANGED <<tree, made, sweep>>
       \/ /\ ~project.bound /\ ~tree.exists /\ project.task = "active"
          /\ sweep.at # "locked"
          /\ tree' = [exists |-> TRUE, dirty |-> FALSE, young |-> TRUE]
          /\ made' = made \cup {e}
          /\ sweep' = [sweep EXCEPT !.stale = @ \/ sweep.at = "looked"]
    /\ worker' = [worker EXCEPT ![e] = "prepared"]
    /\ UNCHANGED <<job, project, containers, purge, harm>>

PrepareFails(e) ==
    /\ worker[e] = "claimed"
    /\ Owns(e) => IF project.bound THEN ~tree.exists \/ tree.dirty
                  ELSE tree.exists \/ project.task # "active"
    /\ Stops(e)
    /\ UNCHANGED <<project, tree, made, sweep, purge, harm>>

\* _guard("begin_worker_run"): the fence may be lost right after it was checked.
Guard(e) ==
    /\ worker[e] = "prepared" /\ Owns(e)
    /\ worker' = [worker EXCEPT ![e] = "guarded"]
    /\ UNCHANGED <<job, project, tree, made, containers, sweep, purge, harm>>

\* bind_workspace: the agent must be active, as its task is.
Bind(e) ==
    /\ worker[e] = "guarded" /\ project.task = "active"
    /\ project' = [project EXCEPT !.bound = TRUE]
    /\ worker' = [worker EXCEPT ![e] = "bound"]
    /\ sweep' = [sweep EXCEPT !.stale = Sweeping]
    /\ UNCHANGED <<job, tree, made, containers, purge, harm>>

\* begin_worker_run
Begin(e) ==
    /\ worker[e] = "bound" /\ project.task = "active"
    /\ project' = [project EXCEPT !.run[e] = "running"]
    /\ worker' = [worker EXCEPT ![e] = "begun"]
    /\ containers' = containers \cup {e}
    /\ UNCHANGED <<job, tree, made, sweep, purge, harm>>

\* The implementation commands change files.
Change(e) ==
    /\ worker[e] = "begun" /\ tree.exists /\ ~tree.dirty
    /\ tree' = [tree EXCEPT !.dirty = TRUE]
    /\ sweep' = [sweep EXCEPT !.behind = @ \/ sweep.at = "locked"]
    /\ UNCHANGED <<job, project, worker, made, containers, purge, harm>>

Commit(e) ==
    /\ worker[e] = "begun" /\ tree.exists /\ tree.dirty
    /\ tree' = [tree EXCEPT !.dirty = FALSE]
    /\ worker' = [worker EXCEPT ![e] = "committed"]
    /\ UNCHANGED <<job, project, made, containers, sweep, purge, harm>>

\* Tests and gates pass: complete_worker_run, admitted by a check that may be outdated too.
Finish(e) ==
    /\ worker[e] = "committed" /\ tree.exists
    /\ project.run[e] = "running" /\ project.task = "active"
    /\ project' = [project EXCEPT !.run[e] = "ready", !.task = "ready"]
    /\ Stops(e)
    /\ UNCHANGED <<tree, made, sweep, purge, harm>>

\* A step fails, the fence is lost, or the worktree is gone.  The worktree that the worker
\* has created goes too, if the fence is not lost, and if the run did not start or
\* cleanup_workspace_on_failure asks for it.
Fail(e) ==
    /\ worker[e] \in Busy
    /\ project' = FailedRun(e)
    /\ \/ Stops(e)
       \/ /\ Owns(e) /\ e \in made
          /\ worker' = [worker EXCEPT ![e] = "failing"]
          /\ containers' = containers \ {e}
          /\ UNCHANGED job
    /\ UNCHANGED <<tree, made, sweep, purge, harm>>

\* remove_workspace, under the workspace lock; the binding goes after it, even if it is to
\* a worktree that another worker has made in between.
RemoveOwn(e) ==
    /\ worker[e] = "failing" /\ sweep.at # "locked"
    /\ tree' = NoTree
    /\ worker' = [worker EXCEPT ![e] = "cleaning"]
    /\ harm' = [harm EXCEPT !.crossed = @ \/ \E d \in Epochs : worker[d] \in Busy]
    /\ UNCHANGED <<job, project, made, containers, sweep, purge>>

UnbindRemoved(e) ==
    /\ worker[e] = "cleaning"
    /\ project' = [project EXCEPT !.bound = FALSE]
    /\ harm' = [harm EXCEPT !.unbound = @ \/ tree.exists]
    /\ Stops(e)
    /\ UNCHANGED <<tree, made, sweep, purge>>

\* The machine stops: nothing is reported and the container may survive.
Vanish(e) ==
    /\ worker[e] \in Busy \cup {"claimed", "failing", "cleaning"}
    /\ worker' = [worker EXCEPT ![e] = "stopped"]
    /\ harm' = [harm EXCEPT !.stopped = @ \/ worker[e] = "cleaning"]
    /\ UNCHANGED <<job, project, tree, made, containers, sweep, purge>>

\* Time: the worktree's directory has not changed for the minimum age, an hour if nothing
\* else is asked for, which is longer than a cleanup takes.
GrowOld ==
    /\ tree.young /\ sweep.at \in {"idle", "done"}
    /\ tree' = [tree EXCEPT !.young = FALSE]
    /\ UNCHANGED <<job, project, worker, made, containers, sweep, purge, harm>>

-----------------------------------------------------------------------------
(* The cleanup of worktrees. *)

\* Neither an active fence nor an active job, and then everything else without them.
StartSweep ==
    /\ sweep.at = "idle" /\ job.state # "leased" /\ ~job.live
    /\ \E m \in MinAges :
         sweep' = [sweep EXCEPT !.at = "checked", !.minAge = m, !.late = {}]
    /\ UNCHANGED <<job, project, tree, worker, made, containers, purge, harm>>

\* Mutation: only runs protect a worktree, tasks do not.
ProtectedByRuns(confirmed) ==
    project.bound /\ \E e \in Epochs \ {confirmed} : project.run[e] \in ActiveRuns

\* protected_paths: a confirmed stale run protects its worktree neither by itself nor by
\* its task, other active runs still do.
Protected(confirmed) ==
    /\ project.bound
    /\ \/ project.task \in ActiveTasks /\ confirmed = 0
       \/ \E e \in Epochs \ {confirmed} : project.run[e] \in ActiveRuns

\* The project state is read once, with the run the operator has confirmed, or with none.
ReadProject ==
    /\ sweep.at = "checked"
    /\ \E confirmed \in {0} \cup {e \in Epochs : project.run[e] # "none"} :
         sweep' = IF Protected(confirmed) THEN NoSweep("done")
                  ELSE [sweep EXCEPT
                         !.at = "read", !.confirmed = confirmed, !.stale = FALSE,
                         !.active = confirmed # 0 /\ project.run[confirmed] \in ActiveRuns]
    /\ UNCHANGED <<job, project, tree, worker, made, containers, purge, harm>>

\* The first look, without a lock: old enough and clean.  (A dirty one is quarantined.)
LookAtTree ==
    /\ sweep.at = "read"
    /\ sweep' = IF tree.exists /\ ~tree.dirty /\ (tree.young => sweep.minAge = 0)
                THEN [sweep EXCEPT !.at = "looked"] ELSE NoSweep("done")
    /\ UNCHANGED <<job, project, tree, worker, made, containers, purge, harm>>

\* Mutation: the second look is only at whether the worktree is there.
ExistenceRechecked == tree.exists

\* The second look, under the workspace lock: still there, and not dirty by now.
Rechecked == tree.exists /\ ~tree.dirty

LookAgain ==
    /\ sweep.at = "looked"
    /\ sweep' = IF Rechecked THEN [sweep EXCEPT !.at = "locked"] ELSE NoSweep("done")
    /\ UNCHANGED <<job, project, tree, worker, made, containers, purge, harm>>

\* git worktree remove --force: what has been changed since the second look goes as well.
RemoveTree ==
    /\ sweep.at = "locked"
    /\ tree' = NoTree
    /\ sweep' = [sweep EXCEPT !.at = "removed"]
    /\ harm' = [harm EXCEPT !.robbed = @ \cup {e \in Epochs : worker[e] \in Busy},
                            !.lost = @ \/ (tree.dirty /\ ~sweep.behind)]
    /\ UNCHANGED <<job, project, worker, made, containers, purge>>

\* The confirmed run is failed if it was active when the state was read.
FailConfirmed ==
    /\ sweep.at = "removed"
    /\ project' = IF sweep.active
                  THEN [project EXCEPT !.run[sweep.confirmed] = "blocked", !.task = "blocked"]
                  ELSE project
    /\ sweep' = [sweep EXCEPT !.at = "unbinding"]
    /\ UNCHANGED <<job, tree, worker, made, containers, purge, harm>>

Unbind ==
    /\ sweep.at = "unbinding"
    /\ project' = [project EXCEPT !.bound = FALSE]
    /\ sweep' = NoSweep("done")
    /\ UNCHANGED <<job, tree, worker, made, containers, purge, harm>>

\* The operator's process ends: what it has removed stays bound.
StopSweep ==
    /\ sweep.at \notin {"idle", "done"}
    /\ sweep' = NoSweep("done")
    /\ harm' = [harm EXCEPT !.stopped = @ \/ sweep.at \in {"removed", "unbinding"}]
    /\ UNCHANGED <<job, project, tree, worker, made, containers, purge>>

-----------------------------------------------------------------------------
(* The cleanup of containers. *)

\* list_managed_containers
ListContainers ==
    /\ purge.at = "idle"
    /\ \E confirmed \in {0} \cup Epochs :
         purge' = [purge EXCEPT !.at = "listed", !.listed = containers, !.confirmed = confirmed]
    /\ UNCHANGED <<job, project, tree, worker, made, containers, sweep, harm>>

\* The rows, and after them the fence.
ReadJobs ==
    /\ purge.at = "listed"
    /\ purge' = [purge EXCEPT !.at = "jobs", !.row = job]
    /\ UNCHANGED <<job, project, tree, worker, made, containers, sweep, harm>>

ReadFence ==
    /\ purge.at = "jobs"
    /\ purge' = [purge EXCEPT !.at = "fence", !.fence = IF job.live THEN job.epoch ELSE 0]
    /\ UNCHANGED <<job, project, tree, worker, made, containers, sweep, harm>>

\* A live lease may have expired since its row was read, "now" being later.
Removable(e, expired) ==
    /\ ~(purge.row.state = "leased" /\ purge.row.epoch = e /\ purge.row.live /\ ~expired)
    /\ purge.fence # e
    /\ purge.row.state # "queued"
    /\ purge.row.state = "leased" => purge.confirmed = e

RemoveContainers ==
    /\ purge.at = "fence"
    /\ \E expired \in BOOLEAN :
         LET gone == {e \in purge.listed : Removable(e, expired)} IN
         /\ containers' = containers \ gone
         /\ harm' = [harm EXCEPT !.killed =
                       @ \cup {e \in gone : worker[e] \in Busy /\ Owns(e) /\ e # purge.confirmed}]
    /\ purge' = NoPurge("done")
    /\ UNCHANGED <<job, project, tree, worker, made, sweep>>

-----------------------------------------------------------------------------
NoHarm == [robbed |-> {}, lost |-> FALSE, crossed |-> FALSE, unbound |-> FALSE,
           stopped |-> FALSE, killed |-> {}]

ReaperInit ==
    /\ job = [state |-> "queued", epoch |-> 0, live |-> FALSE]
    /\ project = [task |-> "active", bound |-> FALSE, run |-> [e \in Epochs |-> "none"]]
    /\ tree = NoTree
    /\ worker = [e \in Epochs |-> "none"] /\ made = {}
    /\ containers = {}
    /\ \/ sweep = NoSweep("idle") /\ purge = NoPurge("done")
       \/ sweep = NoSweep("done") /\ purge = NoPurge("idle")
    /\ harm = NoHarm

ReaperNext ==
    \/ Claim \/ Expire \/ Recover \/ Rework \/ GrowOld
    \/ \E e \in Epochs :
         \/ Prepare(e) \/ PrepareFails(e) \/ Guard(e) \/ Bind(e) \/ Begin(e)
         \/ Change(e) \/ Commit(e) \/ Finish(e) \/ Fail(e) \/ RemoveOwn(e) \/ UnbindRemoved(e)
         \/ Vanish(e)
    \/ StartSweep \/ ReadProject \/ LookAtTree \/ LookAgain \/ RemoveTree
    \/ FailConfirmed \/ Unbind \/ StopSweep
    \/ ListContainers \/ ReadJobs \/ ReadFence \/ RemoveContainers

-----------------------------------------------------------------------------
(* Properties. *)

ReaperTypeOK ==
    /\ job \in Rows
    /\ project \in [task : {"active", "ready", "blocked"}, bound : BOOLEAN,
                    run : [Epochs -> {"none", "blocked"} \cup ActiveRuns]]
    /\ tree \in [exists : BOOLEAN, dirty : BOOLEAN, young : BOOLEAN]
    /\ worker \in [Epochs -> Busy \cup {"none", "claimed", "failing", "cleaning", "stopped"}]
    /\ made \subseteq Epochs /\ containers \subseteq Epochs
    /\ sweep \in [at : {"idle", "checked", "read", "looked", "locked", "removed", "unbinding",
                       "done"},
                 minAge : {0, 1}, confirmed : 0..MaxEpoch, active : BOOLEAN,
                 late : SUBSET Epochs, stale : BOOLEAN, behind : BOOLEAN]
    /\ purge \in [at : {"idle", "listed", "jobs", "fence", "done"}, listed : SUBSET Epochs,
                 confirmed : 0..MaxEpoch, fence : 0..MaxEpoch, row : Rows]
    /\ harm \in [robbed : SUBSET Epochs, lost : BOOLEAN, crossed : BOOLEAN, unbound : BOOLEAN,
                stopped : BOOLEAN, killed : SUBSET Epochs]

\* A worktree is removed under a worker that holds its fence, and whose task is active (it
\* cannot go on otherwise), only if that worker has claimed the job after the cleanup had
\* checked that nothing was active, and, where no stale run was confirmed and a minimum age
\* was given, only if what the cleanup has read has changed since (the task was reopened, or
\* the worktree bound or made anew), or if what it has read was wrong: a predecessor that
\* had failed has unbound the worktree of its successor with its own.
LiveTreeIsRemovedLate ==
    [][\A e \in harm'.robbed \ harm.robbed : Owns(e) /\ project.task = "active" =>
          /\ e \in sweep.late
          /\ sweep.confirmed = 0 /\ sweep.minAge > 0 => sweep.stale \/ harm.unbound]_reaperVars

\* Uncommitted work is lost only if it was done after the second look, which is under the
\* lock (the docstring: dirty worktrees are quarantined, never deleted).
DirtyTreeIsKept == ~harm.lost

\* An agent is bound to a worktree that is not there only while a cleanup, or a worker that
\* failed, is between the removal and the unbinding, after one has stopped in between, or
\* when a worker lost its worktree to the cleanup or to a predecessor that had just failed.
BoundTreeExists ==
    project.bound /\ ~tree.exists =>
        \/ sweep.at \in {"removed", "unbinding"}
        \/ \E e \in Epochs : worker[e] = "cleaning"
        \/ harm.stopped \/ harm.robbed # {} \/ harm.crossed

\* The container of a worker that holds its fence goes only with its exact confirmation.
LiveContainerIsKept == harm.killed = {}
=============================================================================
