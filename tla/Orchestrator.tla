---------------------------- MODULE Orchestrator ----------------------------
(***************************************************************************)
(* DevelopmentOrchestrator (tankai/dev_orchestrator/orchestrator.py): the  *)
(* project state and the transactions on it.  ProjectStateStore makes each *)
(* of them atomic, so each is one action; a call that raises changes       *)
(* nothing and is the action's guard being false.  Any caller may make any *)
(* call at any time: that is Next.  Development.tla restricts the calls to *)
(* those the pipelines, the integration runner and an operator make.       *)
(*                                                                         *)
(* A task is assigned once and its agent works on nothing else, so agents  *)
(* are named by their tasks.  The write scopes of a task are the files     *)
(* they match.  Commits on MAIN are numbered; a worker's commit is its run *)
(* with the commit it is based on.                                         *)
(***************************************************************************)
EXTENDS Naturals, Sequences, FiniteSets

CONSTANTS Tasks, Runs,
          NoTask, NoRun,
          NoCommit,       \* no implementation commit
          TaskOf,         \* the task a run works on
          Deps,           \* TaskSpec.dependencies
          Scope,          \* the files a task's allowed_paths match
          ModuleOf,       \* the module a task counts for
          SecurityTasks,  \* tasks with requires_security_review
          MaxActive, MaxTotal, MaxPerModule, MaxDepth, MaxChildren,  \* AgentGovernancePolicy
          MaxCommits      \* bound on the commits MAIN receives

ASSUME OrchestratorAssumption ==
    /\ NoTask \notin Tasks /\ NoRun \notin Runs
    /\ NoCommit \notin Runs \X Nat
    /\ TaskOf \in [Runs -> Tasks]
    /\ Deps \in [Tasks -> SUBSET Tasks]
    /\ SecurityTasks \subseteq Tasks
    /\ IsFiniteSet(Tasks)
    /\ {MaxActive, MaxTotal, MaxPerModule, MaxDepth, MaxChildren, MaxCommits} \subseteq Nat

VARIABLES stable,        \* ProjectState.current_commit
          task,          \* ProjectState.tasks
          agent,         \* ProjectState.agents
          run,           \* ProjectState.worker_runs
          locks,         \* the tasks whose scopes are in ProjectState.file_locks
          blockedTasks, pendingReviews, completedTasks,
          cycleAgents,   \* ProjectState.cycle_agent_ids
          released,      \* history: the tasks whose locks were released since they started
          approvals,     \* history: the gates that approved a task since it was submitted
          returned       \* history: the tasks whose agent had ended and came back

listVars == <<locks, blockedTasks, pendingReviews, completedTasks, cycleAgents>>
histVars == <<released, approvals, returned>>
projectVars == <<stable, task, agent, run, listVars, histVars>>

Commits == Runs \X Nat
Working == {"active", "review_pending", "qa_pending", "ready_to_integrate"}
TaskStates == Working \cup {"none", "pending", "integrated", "blocked", "failed", "cancelled"}
NonTerminal == {"active", "blocked", "waiting_for_review"}
AgentStates == NonTerminal \cup {"none", "failed", "merged", "rejected", "terminated"}
OpenRun == {"running", "submitted", "ready_to_integrate", "integrating"}
RunStates == OpenRun \cup {"none", "integrated", "blocked", "failed"}

NewTask == [state |-> "pending", base |-> stable, impl |-> NoCommit, runId |-> NoRun,
            review |-> "pending", qa |-> "pending", security |-> "none",
            reviewer |-> FALSE, tester |-> FALSE]

ProjectInit ==
    /\ stable = 0
    /\ task = [t \in Tasks |-> [NewTask EXCEPT !.state = "none", !.base = 0]]
    /\ agent = [t \in Tasks |-> [status |-> "none", parent |-> NoTask, generation |-> 0]]
    /\ run = [r \in Runs |-> [state |-> "none", base |-> 0, impl |-> NoCommit]]
    /\ locks = {} /\ blockedTasks = {} /\ pendingReviews = {} /\ cycleAgents = {}
    /\ completedTasks = <<>>
    /\ released = {} /\ approvals = [t \in Tasks |-> {}] /\ returned = {}

Exists(t) == task[t].state # "none"
Assigned(t) == agent[t].status # "none"

-----------------------------------------------------------------------------
(***************************************************************************)
(* Tasks, agents and the limits of AgentGovernancePolicy.                  *)
(***************************************************************************)
CreateTask(t) ==
    /\ ~Exists(t)
    /\ \A d \in Deps[t] : Exists(d)
    /\ task' = [task EXCEPT ![t] = NewTask]
    /\ UNCHANGED <<stable, agent, run, listVars, histVars>>

\* Mutation: a dependency that is ready will do.
DependenciesReady(t) ==
    \A d \in Deps[t] : task[d].state \in {"ready_to_integrate", "integrated"}

DependenciesIntegrated(t) == \A d \in Deps[t] : task[d].state = "integrated"

NonTerminalAgents == {t \in Tasks : agent[t].status \in NonTerminal}

\* Mutation: an agent that waits for its reviewer is not counted.
HasCapacityForActive(t) ==
    LET activeAgents == {u \in Tasks : agent[u].status = "active"}
    IN  /\ Cardinality(activeAgents) < MaxActive
        /\ Cardinality(cycleAgents) < MaxTotal
        /\ Cardinality({u \in activeAgents : ModuleOf[u] = ModuleOf[t]}) < MaxPerModule

HasCapacity(t) ==
    /\ Cardinality(NonTerminalAgents) < MaxActive
    /\ Cardinality(cycleAgents) < MaxTotal
    /\ Cardinality({u \in NonTerminalAgents : ModuleOf[u] = ModuleOf[t]}) < MaxPerModule

ScopesAvailable(t) == \A u \in locks : Scope[t] \cap Scope[u] = {}

\* Mutation: the locks are taken in the name of the parent.
ActivateUnderParent(t, parent, generation) ==
    /\ agent' = [agent EXCEPT ![t] =
                    [status |-> "active", parent |-> parent, generation |-> generation]]
    /\ locks' = locks \cup {parent}
    /\ cycleAgents' = cycleAgents \cup {t}
    /\ released' = released \ {t}
    /\ UNCHANGED <<stable, run, blockedTasks, pendingReviews, completedTasks, approvals,
                   returned>>

\* The agent of task t begins, with the locks on the task's scopes.
Activate(t, parent, generation) ==
    /\ agent' = [agent EXCEPT ![t] =
                    [status |-> "active", parent |-> parent, generation |-> generation]]
    /\ locks' = locks \cup {t}
    /\ cycleAgents' = cycleAgents \cup {t}
    /\ released' = released \ {t}
    /\ UNCHANGED <<stable, run, blockedTasks, pendingReviews, completedTasks, approvals,
                   returned>>

\* start_agent asks whether the task is assigned, not what state it is in.
StartAgent(t) ==
    /\ Exists(t) /\ ~Assigned(t)
    /\ DependenciesIntegrated(t)
    /\ HasCapacity(t) /\ ScopesAvailable(t)
    /\ task' = [task EXCEPT ![t].state = "active", ![t].base = stable]
    /\ Activate(t, NoTask, 0)

Children(t) == {u \in Tasks : agent[u].parent = t}

\* An active agent splits a new task t off its own.
ApproveSpawn(parent, t) ==
    /\ agent[parent].status = "active" /\ task[parent].base = stable
    /\ agent[parent].generation < MaxDepth
    /\ Cardinality(Children(parent)) < MaxChildren
    /\ ~Exists(t)
    /\ \A d \in Deps[t] : Exists(d)
    /\ DependenciesIntegrated(t)
    /\ HasCapacity(t) /\ ScopesAvailable(t)
    /\ task' = [task EXCEPT ![t] = [NewTask EXCEPT !.state = "active"]]
    /\ Activate(t, parent, agent[parent].generation + 1)

BeginCycle ==
    /\ NonTerminalAgents = {}
    /\ cycleAgents' = {}
    /\ UNCHANGED <<stable, task, agent, run, locks, blockedTasks, pendingReviews,
                   completedTasks, histVars>>

-----------------------------------------------------------------------------
(***************************************************************************)
(* Worker runs.                                                            *)
(***************************************************************************)
CanBeginRun(r, base) ==
    /\ run[r].state = "none"
    /\ agent[TaskOf[r]].status = "active" /\ task[TaskOf[r]].state = "active"
    /\ base = task[TaskOf[r]].base

BeginRun(r, base) ==
    /\ CanBeginRun(r, base)
    /\ run' = [run EXCEPT ![r] = [state |-> "running", base |-> base, impl |-> NoCommit]]
    /\ task' = [task EXCEPT ![TaskOf[r]].runId = r]
    /\ UNCHANGED <<stable, agent, listVars, histVars>>

CanUpdateRun(r) == run[r].state \in {"running", "submitted", "integrating"}

\* update_worker_run with the implementation commit, or with the state SUBMITTED.
RecordCommit(r) ==
    /\ CanUpdateRun(r)
    /\ run' = [run EXCEPT ![r].impl = <<r, run[r].base>>]
    /\ UNCHANGED <<stable, task, agent, listVars, histVars>>

MarkSubmitted(r) ==
    /\ CanUpdateRun(r)
    /\ run' = [run EXCEPT ![r].state = "submitted"]
    /\ UNCHANGED <<stable, task, agent, listVars, histVars>>

\* Whatever the state of its task, which becomes BLOCKED or FAILED.
CanFailRun(r) == run[r].state \notin {"none", "integrated"}

\* The agent of t gets a status: fail_worker_run and reopen_task ask for no capacity.
NoteReturn(t, status) ==
    returned' = IF status \in NonTerminal /\ agent[t].status \notin NonTerminal
                THEN returned \cup {t} ELSE returned

\* Mutation: a failed run gives back the locks of its task.
FailAndUnlock(r, outcome) ==
    LET t == TaskOf[r]
    IN  /\ CanFailRun(r)
        /\ run' = [run EXCEPT ![r].state = outcome]
        /\ task' = [task EXCEPT ![t].state = outcome]
        /\ agent' = [agent EXCEPT ![t].status = outcome]
        /\ blockedTasks' = blockedTasks \cup {t}
        /\ locks' = locks \ {t}
        /\ NoteReturn(t, outcome)
        /\ UNCHANGED <<stable, pendingReviews, completedTasks, cycleAgents, released, approvals>>

FailRun(r, outcome) ==
    LET t == TaskOf[r]
    IN  /\ CanFailRun(r)
        /\ run' = [run EXCEPT ![r].state = outcome]
        /\ task' = [task EXCEPT ![t].state = outcome]
        /\ agent' = [agent EXCEPT ![t].status = outcome]
        /\ blockedTasks' = blockedTasks \cup {t}
        /\ NoteReturn(t, outcome)
        /\ UNCHANGED <<stable, locks, pendingReviews, completedTasks, cycleAgents, released,
                       approvals>>

\* The task decides, not the state of the run.
CanCompleteRun(r) ==
    /\ run[r].state # "none"
    /\ task[TaskOf[r]].state = "ready_to_integrate"
    /\ run[r].impl # NoCommit /\ task[TaskOf[r]].impl = run[r].impl

CompleteRun(r) ==
    /\ CanCompleteRun(r)
    /\ run' = [run EXCEPT ![r].state = "ready_to_integrate"]
    /\ UNCHANGED <<stable, task, agent, listVars, histVars>>

-----------------------------------------------------------------------------
(***************************************************************************)
(* Submission and the gates.  The reviewer and the tester are agents of    *)
(* other tasks; who they are is abstracted, that they were assigned is not.*)
(***************************************************************************)
\* by = NoRun: an agent submits without a worker run.
CanSubmit(t, by) ==
    /\ agent[t].status = "active" /\ task[t].state = "active"
    /\ by # NoRun => TaskOf[by] = t /\ run[by].state = "running"

Submit(t, by) ==
    /\ CanSubmit(t, by)
    /\ task' = [task EXCEPT ![t].state = "review_pending",
                            ![t].impl = IF by = NoRun THEN NoCommit ELSE run[by].impl,
                            ![t].runId = IF by = NoRun THEN @ ELSE by]
    /\ agent' = [agent EXCEPT ![t].status = "waiting_for_review"]
    /\ pendingReviews' = pendingReviews \cup {t}
    /\ approvals' = [approvals EXCEPT ![t] = {}]
    /\ UNCHANGED <<stable, run, locks, blockedTasks, completedTasks, cycleAgents, released,
                   returned>>

AssignReviewer(t) ==
    /\ task[t].state = "review_pending"
    /\ task' = [task EXCEPT ![t].reviewer = TRUE]
    /\ UNCHANGED <<stable, agent, run, listVars, histVars>>

CanReview(t) == task[t].reviewer /\ task[t].state = "review_pending"

Answer(t, gate, yes) ==
    approvals' = [approvals EXCEPT ![t] = IF yes THEN @ \cup {gate} ELSE @ \ {gate}]

RecordReview(t, approved) ==
    /\ CanReview(t)
    /\ Answer(t, "review", approved)
    /\ pendingReviews' = pendingReviews \ {t}
    /\ IF approved
       THEN /\ task' = [task EXCEPT ![t].review = "approved", ![t].state = "qa_pending"]
            /\ UNCHANGED <<agent, blockedTasks>>
       ELSE /\ task' = [task EXCEPT ![t].review = "rejected", ![t].state = "blocked"]
            /\ agent' = [agent EXCEPT ![t].status = "rejected"]
            /\ blockedTasks' = blockedTasks \cup {t}
    /\ UNCHANGED <<stable, run, locks, completedTasks, cycleAgents, released, returned>>

AssignQA(t) ==
    /\ task[t].state = "qa_pending"
    /\ task' = [task EXCEPT ![t].tester = TRUE]
    /\ UNCHANGED <<stable, agent, run, listVars, histVars>>

\* _refresh_ready_state of the task record tr.
AllGatesPassed(t, tr) ==
    /\ tr.review = "approved" /\ tr.qa = "passed"
    /\ t \in SecurityTasks => tr.security = "approved"

Refreshed(t, tr) ==
    IF AllGatesPassed(t, tr) THEN [tr EXCEPT !.state = "ready_to_integrate"] ELSE tr

\* A gate other than the review says yes, or the task is blocked.
RecordGate(t, passed, tr) ==
    /\ task' = [task EXCEPT ![t] = IF passed THEN Refreshed(t, tr)
                                   ELSE [tr EXCEPT !.state = "blocked"]]
    /\ blockedTasks' = IF passed THEN blockedTasks ELSE blockedTasks \cup {t}
    /\ UNCHANGED <<stable, agent, run, locks, pendingReviews, completedTasks, cycleAgents,
                   released, returned>>

CanQA(t) == task[t].tester /\ task[t].state = "qa_pending"

RecordQA(t, passed) ==
    /\ CanQA(t)
    /\ Answer(t, "qa", passed)
    /\ RecordGate(t, passed, [task[t] EXCEPT !.qa = IF passed THEN "passed" ELSE "failed"])

CanSecurity(t) == task[t].state \in {"review_pending", "qa_pending"}

RecordSecurity(t, approved) ==
    /\ CanSecurity(t)
    /\ Answer(t, "security", approved)
    /\ RecordGate(t, approved,
                  [task[t] EXCEPT !.security = IF approved THEN "approved" ELSE "rejected"])

-----------------------------------------------------------------------------
(***************************************************************************)
(* Integration of a worker's run.                                          *)
(***************************************************************************)
CanBeginIntegration(r, expected) ==
    LET t == TaskOf[r]
    IN  /\ stable = expected
        /\ run[r].state = "ready_to_integrate" /\ task[t].state = "ready_to_integrate"
        /\ task[t].runId = r
        /\ run[r].impl # NoCommit /\ task[t].impl = run[r].impl

BeginIntegration(r, expected) ==
    /\ CanBeginIntegration(r, expected)
    /\ run' = [run EXCEPT ![r].state = "integrating"]
    /\ UNCHANGED <<stable, task, agent, listVars, histVars>>

CanRecordRebase(r, old, new) ==
    /\ run[r].state = "integrating"
    /\ stable = new
    /\ run[r].base = old /\ task[TaskOf[r]].base = old

\* Mutation: the task keeps the commit that was submitted.
RebaseRunOnly(r, old, new) ==
    /\ CanRecordRebase(r, old, new)
    /\ run' = [run EXCEPT ![r].base = new, ![r].impl = <<r, new>>]
    /\ task' = [task EXCEPT ![TaskOf[r]].base = new]
    /\ UNCHANGED <<stable, agent, listVars, histVars>>

RecordRebase(r, old, new) ==
    /\ CanRecordRebase(r, old, new)
    /\ run' = [run EXCEPT ![r].base = new, ![r].impl = <<r, new>>]
    /\ task' = [task EXCEPT ![TaskOf[r]].base = new, ![TaskOf[r]].impl = <<r, new>>]
    /\ UNCHANGED <<stable, agent, listVars, histVars>>

\* MAIN advances and what the task held is given back.
Advance(t) ==
    /\ stable < MaxCommits
    /\ stable' = stable + 1
    /\ task' = [task EXCEPT ![t].state = "integrated"]
    /\ agent' = [agent EXCEPT ![t].status = IF Assigned(t) THEN "merged" ELSE @]
    /\ blockedTasks' = blockedTasks \ {t}
    /\ locks' = locks \ {t}
    /\ released' = released \cup {t}
    /\ UNCHANGED <<cycleAgents, approvals, returned>>

Listed(t) == \E i \in DOMAIN completedTasks : completedTasks[i] = t

CanFinalize(r, previous) ==
    /\ run[r].state = "integrating"
    /\ task[TaskOf[r]].state = "ready_to_integrate"
    /\ stable = previous
    /\ run[r].impl # NoCommit

FinalizeIntegration(r, previous) ==
    LET t == TaskOf[r]
    IN  /\ CanFinalize(r, previous)
        /\ Advance(t)
        /\ run' = [run EXCEPT ![r].state = "integrated"]
        /\ completedTasks' = IF Listed(t) THEN completedTasks ELSE Append(completedTasks, t)
        /\ pendingReviews' = pendingReviews \ {t}

ResetIntegration(r) ==
    /\ run[r].state = "integrating" /\ task[TaskOf[r]].state = "ready_to_integrate"
    /\ run' = [run EXCEPT ![r].state = "ready_to_integrate"]
    /\ UNCHANGED <<stable, task, agent, listVars, histVars>>

-----------------------------------------------------------------------------
(***************************************************************************)
(* What an operator does to a task.                                        *)
(***************************************************************************)
\* Mutation: the decisions of the gates are not reset.
ReopenKeepingDecisions(t) ==
    /\ task[t].state = "blocked"
    /\ agent[t].status \in {"blocked", "rejected", "waiting_for_review"}
    /\ task[t].base # stable => task[t].impl = NoCommit
    /\ task' = [task EXCEPT ![t].state = "active", ![t].base = stable,
                            ![t].impl = NoCommit, ![t].runId = NoRun]
    /\ agent' = [agent EXCEPT ![t].status = "active"]
    /\ blockedTasks' = blockedTasks \ {t}
    /\ pendingReviews' = pendingReviews \ {t}
    /\ NoteReturn(t, "active")
    /\ UNCHANGED <<stable, run, locks, completedTasks, cycleAgents, released, approvals>>

ReopenTask(t) ==
    /\ task[t].state = "blocked"
    /\ agent[t].status \in {"blocked", "rejected", "waiting_for_review"}
    /\ task[t].base # stable => task[t].impl = NoCommit
    /\ task' = [task EXCEPT ![t] = [NewTask EXCEPT !.state = "active"]]
    /\ agent' = [agent EXCEPT ![t].status = "active"]
    /\ blockedTasks' = blockedTasks \ {t}
    /\ pendingReviews' = pendingReviews \ {t}
    /\ NoteReturn(t, "active")
    /\ UNCHANGED <<stable, run, locks, completedTasks, cycleAgents, released, approvals>>

\* Mutation: a cancelled task stays listed as blocked.
CancelStillListed(t) ==
    /\ Exists(t) /\ task[t].state # "integrated"
    /\ task' = [task EXCEPT ![t].state = "cancelled"]
    /\ agent' = [agent EXCEPT ![t].status = IF Assigned(t) THEN "terminated" ELSE @]
    /\ locks' = locks \ {t}
    /\ released' = released \cup {t}
    /\ pendingReviews' = pendingReviews \ {t}
    /\ UNCHANGED <<stable, run, blockedTasks, completedTasks, cycleAgents, approvals,
                   returned>>

CancelTask(t) ==
    /\ Exists(t) /\ task[t].state # "integrated"
    /\ task' = [task EXCEPT ![t].state = "cancelled"]
    /\ agent' = [agent EXCEPT ![t].status = IF Assigned(t) THEN "terminated" ELSE @]
    /\ locks' = locks \ {t}
    /\ released' = released \cup {t}
    /\ pendingReviews' = pendingReviews \ {t}
    /\ blockedTasks' = blockedTasks \ {t}
    /\ UNCHANGED <<stable, run, completedTasks, cycleAgents, approvals, returned>>

RebaseTask(t) ==
    /\ task[t].state \in Working /\ task[t].impl = NoCommit
    /\ task' = [task EXCEPT ![t].base = stable]
    /\ UNCHANGED <<stable, agent, run, listVars, histVars>>

IntegrateTask(t) ==
    /\ task[t].state = "ready_to_integrate"
    /\ task[t].runId = NoRun
    /\ task[t].base = stable
    /\ Advance(t)
    /\ completedTasks' = Append(completedTasks, t)
    /\ UNCHANGED <<run, pendingReviews>>

-----------------------------------------------------------------------------
Next ==
    \/ BeginCycle
    \/ \E t \in Tasks :
          \/ CreateTask(t) \/ StartAgent(t)
          \/ \E parent \in Tasks : ApproveSpawn(parent, t)
          \/ AssignReviewer(t) \/ AssignQA(t)
          \/ \E by \in Runs \cup {NoRun} : Submit(t, by)
          \/ \E passed \in BOOLEAN :
                RecordReview(t, passed) \/ RecordQA(t, passed) \/ RecordSecurity(t, passed)
          \/ ReopenTask(t) \/ CancelTask(t) \/ RebaseTask(t) \/ IntegrateTask(t)
    \/ \E r \in Runs :
          \/ RecordCommit(r) \/ MarkSubmitted(r) \/ CompleteRun(r) \/ ResetIntegration(r)
          \/ \E outcome \in {"blocked", "failed"} : FailRun(r, outcome)
          \/ \E base \in Nat : BeginRun(r, base) \/ BeginIntegration(r, base)
          \/ \E old, new \in Nat : RecordRebase(r, old, new)
          \/ \E previous \in Nat : FinalizeIntegration(r, previous)

OrchestratorSpec == ProjectInit /\ [][Next]_projectVars

-----------------------------------------------------------------------------
Gates == {"review", "qa", "security"}
TaskRecords ==
    [state : TaskStates, base : Nat, impl : Commits \cup {NoCommit}, runId : Runs \cup {NoRun},
     review : {"pending", "approved", "rejected"}, qa : {"pending", "passed", "failed"},
     security : {"none", "approved", "rejected"}, reviewer : BOOLEAN, tester : BOOLEAN]
AgentRecords == [status : AgentStates, parent : Tasks \cup {NoTask}, generation : Nat]
RunRecords == [state : RunStates, base : Nat, impl : Commits \cup {NoCommit}]

\* The project state has the types of models.py.
ProjectTypeOK ==
    /\ stable \in Nat
    /\ task \in [Tasks -> TaskRecords]
    /\ agent \in [Tasks -> AgentRecords]
    /\ run \in [Runs -> RunRecords]
    /\ locks \in SUBSET Tasks /\ blockedTasks \in SUBSET Tasks
    /\ pendingReviews \in SUBSET Tasks /\ cycleAgents \in SUBSET Tasks
    /\ completedTasks \in Seq(Tasks)
    /\ released \in SUBSET Tasks /\ approvals \in [Tasks -> SUBSET Gates]
    /\ returned \in SUBSET Tasks

\* A task that is ready to be integrated, or was integrated, has been approved
\* by every gate it needs since its work was last submitted, in whatever order
\* the gates answered: what they said of earlier work does not count.
GatesPassed ==
    \A t \in Tasks :
        task[t].state \in {"ready_to_integrate", "integrated"}
            => /\ {"review", "qa"} \subseteq approvals[t]
               /\ t \in SecurityTasks => "security" \in approvals[t]

\* No file is in the write scope of two tasks that are being worked on,
\* unless one of them was cancelled or integrated since its agent began and
\* has been brought back by fail_worker_run and reopen_task.
OneWriter ==
    \A t, u \in Tasks :
        /\ t # u /\ t \notin released /\ u \notin released
        /\ task[t].state \in Working /\ task[u].state \in Working
        => Scope[t] \cap Scope[u] = {}

\* Nobody works on a task before all it depends on has been integrated.
DependenciesFirst ==
    \A t \in Tasks : task[t].state \in Working => \A d \in Deps[t] : Listed(d)

\* The lists of the project state agree with the tasks: what is blocked or
\* failed is listed as blocked, and nothing else; what waits for a review is
\* listed as such.
ListsMatch ==
    /\ blockedTasks = {t \in Tasks : task[t].state \in {"blocked", "failed"}}
    /\ {t \in Tasks : task[t].state = "review_pending"} \subseteq pendingReviews

\* The limits of AgentGovernancePolicy hold in every state, also across cycles,
\* for the agents whose start was weighed against them: all but those that had
\* ended and were brought back by fail_worker_run or reopen_task.
LimitsHold ==
    LET counted == NonTerminalAgents \ returned
    IN  /\ counted \subseteq cycleAgents
        /\ Cardinality(counted) <= MaxActive /\ Cardinality(cycleAgents) <= MaxTotal
        /\ \A t \in Tasks :
              /\ Cardinality({u \in counted : ModuleOf[u] = ModuleOf[t]}) <= MaxPerModule
              /\ agent[t].generation <= MaxDepth
              /\ Cardinality(Children(t)) <= MaxChildren
=============================================================================
