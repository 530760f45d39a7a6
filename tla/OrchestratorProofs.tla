-------------------------- MODULE OrchestratorProofs --------------------------
(***************************************************************************)
(* The project state of DevelopmentOrchestrator has its types after any    *)
(* transactions, whoever makes them and in whatever order: a proof for any *)
(* tasks, runs and limits.  What else is proved of them builds on it.      *)
(***************************************************************************)
EXTENDS Orchestrator, FiniteSetTheorems, TLAPS


\* The fields of the records have their types, which are kept when one is set.
LEMMA TaskRecord ==
    ASSUME NEW x \in TaskRecords
    PROVE  /\ x.base \in Nat /\ x.impl \in Commits \cup {NoCommit}
           /\ x.runId \in Runs \cup {NoRun}
           /\ \A v \in TaskStates : [x EXCEPT !.state = v] \in TaskRecords
           /\ \A v \in Nat : [x EXCEPT !.base = v] \in TaskRecords
           /\ \A v \in Commits \cup {NoCommit} : [x EXCEPT !.impl = v] \in TaskRecords
           /\ \A v \in Runs \cup {NoRun} : [x EXCEPT !.runId = v] \in TaskRecords
           /\ \A v \in {"approved", "rejected"} : [x EXCEPT !.review = v] \in TaskRecords
           /\ \A v \in {"passed", "failed"} : [x EXCEPT !.qa = v] \in TaskRecords
           /\ \A v \in {"approved", "rejected"} : [x EXCEPT !.security = v] \in TaskRecords
           /\ [x EXCEPT !.reviewer = TRUE] \in TaskRecords
           /\ [x EXCEPT !.tester = TRUE] \in TaskRecords
BY DEF TaskRecords

LEMMA AgentRecord ==
    ASSUME NEW x \in AgentRecords
    PROVE  /\ x.status \in AgentStates /\ x.generation \in Nat
           /\ \A v \in AgentStates : [x EXCEPT !.status = v] \in AgentRecords
BY DEF AgentRecords

LEMMA NewAgentType ==
    ASSUME NEW parent \in Tasks \cup {NoTask}, NEW generation \in Nat
    PROVE  [status |-> "active", parent |-> parent, generation |-> generation] \in AgentRecords
BY DEF AgentRecords, AgentStates, NonTerminal

LEMMA RunRecord ==
    ASSUME NEW x \in RunRecords
    PROVE  /\ x.base \in Nat /\ x.impl \in Commits \cup {NoCommit}
           /\ \A v \in RunStates : [x EXCEPT !.state = v] \in RunRecords
           /\ \A v \in Nat : [x EXCEPT !.base = v] \in RunRecords
           /\ \A v \in Commits \cup {NoCommit} : [x EXCEPT !.impl = v] \in RunRecords
BY DEF RunRecords

LEMMA NewRunType ==
    ASSUME NEW base \in Nat
    PROVE  [state |-> "running", base |-> base, impl |-> NoCommit] \in RunRecords
BY DEF RunRecords, RunStates, OpenRun

LEMMA NewTaskType == stable \in Nat => NewTask \in TaskRecords
BY DEF NewTask, TaskRecords, TaskStates

\* The lists of the project state.
ListsOK ==
    /\ locks \in SUBSET Tasks /\ blockedTasks \in SUBSET Tasks
    /\ pendingReviews \in SUBSET Tasks /\ cycleAgents \in SUBSET Tasks
    /\ completedTasks \in Seq(Tasks)
    /\ released \in SUBSET Tasks /\ approvals \in [Tasks -> SUBSET Gates]
    /\ returned \in SUBSET Tasks

\* MAIN advances by a task that is in the project state.
LEMMA AdvanceType ==
    ASSUME ProjectTypeOK, NEW t \in Tasks, Advance(t)
    PROVE  /\ stable' \in Nat
           /\ task' \in [Tasks -> TaskRecords] /\ agent' \in [Tasks -> AgentRecords]
           /\ locks' \in SUBSET Tasks /\ blockedTasks' \in SUBSET Tasks
           /\ cycleAgents' = cycleAgents
           /\ released' \in SUBSET Tasks /\ approvals' = approvals
           /\ returned' = returned
<1>1. stable' \in Nat
  BY DEF Advance, ProjectTypeOK
<1>2. task' \in [Tasks -> TaskRecords]
  BY TaskRecord DEF Advance, ProjectTypeOK, TaskStates
<1>3. agent' \in [Tasks -> AgentRecords]
  BY AgentRecord DEF Advance, ProjectTypeOK, AgentStates
<1>4. QED
  BY <1>2, <1>3 DEF Advance, ProjectTypeOK

\* A new project state has its types.
LEMMA ProjectTypeInit ==
    ASSUME ProjectInit
    PROVE  ProjectTypeOK
<1>1. task \in [Tasks -> TaskRecords]
  BY DEF ProjectInit, NewTask, TaskRecords, TaskStates
<1>2. agent \in [Tasks -> AgentRecords]
  BY DEF ProjectInit, AgentRecords, AgentStates
<1>3. run \in [Runs -> RunRecords]
  BY DEF ProjectInit, RunRecords, RunStates
<1>4. QED
  BY <1>1, <1>2, <1>3 DEF ProjectInit, ProjectTypeOK

\* Every transaction keeps the types.
LEMMA ProjectTypeStep ==
    ASSUME ProjectTypeOK, [Next]_projectVars
    PROVE  ProjectTypeOK'
<1> SUFFICES ASSUME ProjectTypeOK, Next PROVE ProjectTypeOK'
  BY DEF projectVars, listVars, histVars, ProjectTypeOK
<1>1. ASSUME BeginCycle PROVE ProjectTypeOK'
  <2>1. task' \in [Tasks -> TaskRecords]
    BY <1>1 DEF BeginCycle, ProjectTypeOK
  <2>2. /\ stable' \in Nat
        /\ agent' \in [Tasks -> AgentRecords] /\ run' \in [Runs -> RunRecords]
    BY <1>1 DEF BeginCycle, ProjectTypeOK
  <2>3. ListsOK'
    BY <1>1 DEF BeginCycle, ProjectTypeOK, ListsOK, histVars
  <2>4. QED
    BY <2>1, <2>2, <2>3 DEF ProjectTypeOK, ListsOK
<1>2. ASSUME NEW t \in Tasks, CreateTask(t) PROVE ProjectTypeOK'
  <2>1. task' \in [Tasks -> TaskRecords]
    BY <1>2, NewTaskType DEF CreateTask, ProjectTypeOK
  <2>2. /\ stable' \in Nat
        /\ agent' \in [Tasks -> AgentRecords] /\ run' \in [Runs -> RunRecords]
    BY <1>2 DEF CreateTask, ProjectTypeOK
  <2>3. ListsOK'
    BY <1>2 DEF CreateTask, ProjectTypeOK, ListsOK, listVars, histVars
  <2>4. QED
    BY <2>1, <2>2, <2>3 DEF ProjectTypeOK, ListsOK
<1>3. ASSUME NEW t \in Tasks, StartAgent(t) PROVE ProjectTypeOK'
  <2>1. task' \in [Tasks -> TaskRecords]
    BY <1>3, TaskRecord DEF StartAgent, ProjectTypeOK, TaskStates, Working
  <2>2. /\ stable' \in Nat
        /\ agent' \in [Tasks -> AgentRecords] /\ run' \in [Runs -> RunRecords]
    BY <1>3, NewAgentType DEF StartAgent, Activate, ProjectTypeOK
  <2>3. ListsOK'
    BY <1>3 DEF StartAgent, Activate, ProjectTypeOK, ListsOK
  <2>4. QED
    BY <2>1, <2>2, <2>3 DEF ProjectTypeOK, ListsOK
<1>4. ASSUME NEW t \in Tasks, NEW parent \in Tasks, ApproveSpawn(parent, t) PROVE ProjectTypeOK'
  <2>1. task' \in [Tasks -> TaskRecords]
    BY <1>4, TaskRecord, NewTaskType DEF ApproveSpawn, ProjectTypeOK, TaskStates, Working
  <2>2. agent[parent].generation + 1 \in Nat
    BY AgentRecord DEF ProjectTypeOK
  <2>3. agent' \in [Tasks -> AgentRecords]
    BY <1>4, <2>2, NewAgentType DEF ApproveSpawn, Activate, ProjectTypeOK
  <2>4. run' = run /\ stable' = stable
    BY <1>4 DEF ApproveSpawn, Activate
  <2>5. ListsOK'
    BY <1>4 DEF ApproveSpawn, Activate, ProjectTypeOK, ListsOK
  <2>6. QED
    BY <2>1, <2>3, <2>4, <2>5 DEF ProjectTypeOK, ListsOK
<1>5. ASSUME NEW t \in Tasks, AssignReviewer(t) PROVE ProjectTypeOK'
  <2>1. task' \in [Tasks -> TaskRecords]
    BY <1>5, TaskRecord DEF AssignReviewer, ProjectTypeOK
  <2>2. /\ stable' \in Nat
        /\ agent' \in [Tasks -> AgentRecords] /\ run' \in [Runs -> RunRecords]
    BY <1>5 DEF AssignReviewer, ProjectTypeOK
  <2>3. ListsOK'
    BY <1>5 DEF AssignReviewer, ProjectTypeOK, ListsOK, listVars, histVars
  <2>4. QED
    BY <2>1, <2>2, <2>3 DEF ProjectTypeOK, ListsOK
<1>6. ASSUME NEW t \in Tasks, AssignQA(t) PROVE ProjectTypeOK'
  <2>1. task' \in [Tasks -> TaskRecords]
    BY <1>6, TaskRecord DEF AssignQA, ProjectTypeOK
  <2>2. /\ stable' \in Nat
        /\ agent' \in [Tasks -> AgentRecords] /\ run' \in [Runs -> RunRecords]
    BY <1>6 DEF AssignQA, ProjectTypeOK
  <2>3. ListsOK'
    BY <1>6 DEF AssignQA, ProjectTypeOK, ListsOK, listVars, histVars
  <2>4. QED
    BY <2>1, <2>2, <2>3 DEF ProjectTypeOK, ListsOK
<1>7. ASSUME NEW t \in Tasks, NEW by \in Runs \cup {NoRun}, Submit(t, by) PROVE ProjectTypeOK'
  <2> DEFINE impl == IF by = NoRun THEN NoCommit ELSE run[by].impl
             runId == IF by = NoRun THEN task[t].runId ELSE by
  <2>1. task' \in [Tasks -> TaskRecords]
    <3>1. impl \in Commits \cup {NoCommit} /\ runId \in Runs \cup {NoRun}
      BY TaskRecord, RunRecord DEF ProjectTypeOK
    <3>2. task' = [task EXCEPT ![t].state = "review_pending", ![t].impl = impl,
                               ![t].runId = runId]
      BY <1>7 DEF Submit
    <3> HIDE DEF impl, runId
    <3>3. [task[t] EXCEPT !.state = "review_pending", !.impl = impl] \in TaskRecords
      BY <3>1, TaskRecord DEF ProjectTypeOK, TaskStates, Working
    <3>4. QED
      BY <3>1, <3>2, <3>3, TaskRecord DEF ProjectTypeOK
  <2>2. /\ stable' \in Nat
        /\ agent' \in [Tasks -> AgentRecords] /\ run' \in [Runs -> RunRecords]
    BY <1>7, AgentRecord DEF Submit, ProjectTypeOK, AgentStates, NonTerminal
  <2>3. ListsOK'
    BY <1>7 DEF Submit, ProjectTypeOK, ListsOK
  <2>4. QED
    BY <2>1, <2>2, <2>3 DEF ProjectTypeOK, ListsOK
<1>8. ASSUME NEW t \in Tasks, NEW passed \in BOOLEAN, RecordReview(t, passed) PROVE ProjectTypeOK'
  <2>1. CASE passed
    <3>1. /\ task' = [task EXCEPT ![t].review = "approved", ![t].state = "qa_pending"]
          /\ agent' = agent /\ run' = run /\ stable' = stable
      BY <1>8, <2>1 DEF RecordReview
    <3>2. task' \in [Tasks -> TaskRecords]
      BY <3>1, TaskRecord DEF ProjectTypeOK, TaskStates, Working
    <3>3. ListsOK'
      BY <1>8 DEF RecordReview, Answer, ProjectTypeOK, ListsOK, Gates
    <3>4. QED
      BY <3>1, <3>2, <3>3 DEF ProjectTypeOK, ListsOK
  <2>2. CASE ~passed
    <3>1. /\ task' = [task EXCEPT ![t].review = "rejected", ![t].state = "blocked"]
          /\ agent' = [agent EXCEPT ![t].status = "rejected"]
          /\ run' = run /\ stable' = stable
      BY <1>8, <2>2 DEF RecordReview
    <3>2. task' \in [Tasks -> TaskRecords]
      BY <3>1, TaskRecord DEF ProjectTypeOK, TaskStates
    <3>3. agent' \in [Tasks -> AgentRecords]
      BY <3>1, AgentRecord DEF ProjectTypeOK, AgentStates
    <3>4. ListsOK'
      BY <1>8, <2>2 DEF RecordReview, Answer, ProjectTypeOK, ListsOK
    <3>5. QED
      BY <3>1, <3>2, <3>3, <3>4 DEF ProjectTypeOK, ListsOK
  <2>3. QED
    BY <2>1, <2>2
<1>9. ASSUME NEW t \in Tasks, NEW passed \in BOOLEAN, RecordQA(t, passed) PROVE ProjectTypeOK'
  <2>1. task' \in [Tasks -> TaskRecords]
    BY <1>9, TaskRecord
    DEF RecordQA, RecordGate, Refreshed, ProjectTypeOK, TaskStates, Working
  <2>2. /\ stable' \in Nat
        /\ agent' \in [Tasks -> AgentRecords] /\ run' \in [Runs -> RunRecords]
    BY <1>9 DEF RecordQA, RecordGate, ProjectTypeOK
  <2>3. ListsOK'
    BY <1>9 DEF RecordQA, RecordGate, Answer, ProjectTypeOK, ListsOK, Gates
  <2>4. QED
    BY <2>1, <2>2, <2>3 DEF ProjectTypeOK, ListsOK
<1>10. ASSUME NEW t \in Tasks, NEW passed \in BOOLEAN, RecordSecurity(t, passed)
       PROVE ProjectTypeOK'
  <2>1. task' \in [Tasks -> TaskRecords]
    BY <1>10, TaskRecord
    DEF RecordSecurity, RecordGate, Refreshed, ProjectTypeOK, TaskStates, Working
  <2>2. /\ stable' \in Nat
        /\ agent' \in [Tasks -> AgentRecords] /\ run' \in [Runs -> RunRecords]
    BY <1>10 DEF RecordSecurity, RecordGate, ProjectTypeOK
  <2>3. ListsOK'
    BY <1>10 DEF RecordSecurity, RecordGate, Answer, ProjectTypeOK, ListsOK, Gates
  <2>4. QED
    BY <2>1, <2>2, <2>3 DEF ProjectTypeOK, ListsOK
<1>11. ASSUME NEW t \in Tasks, ReopenTask(t) PROVE ProjectTypeOK'
  <2>1. task' \in [Tasks -> TaskRecords]
    BY <1>11, TaskRecord, NewTaskType DEF ReopenTask, ProjectTypeOK, TaskStates, Working
  <2>2. /\ stable' \in Nat
        /\ agent' \in [Tasks -> AgentRecords] /\ run' \in [Runs -> RunRecords]
    BY <1>11, AgentRecord DEF ReopenTask, ProjectTypeOK, AgentStates, NonTerminal
  <2>3. ListsOK'
    BY <1>11 DEF ReopenTask, NoteReturn, ProjectTypeOK, ListsOK
  <2>4. QED
    BY <2>1, <2>2, <2>3 DEF ProjectTypeOK, ListsOK
<1>12. ASSUME NEW t \in Tasks, CancelTask(t) PROVE ProjectTypeOK'
  <2>1. task' \in [Tasks -> TaskRecords]
    BY <1>12, TaskRecord DEF CancelTask, ProjectTypeOK, TaskStates
  <2>2. /\ stable' \in Nat
        /\ agent' \in [Tasks -> AgentRecords] /\ run' \in [Runs -> RunRecords]
    BY <1>12, AgentRecord DEF CancelTask, ProjectTypeOK, AgentStates
  <2>3. ListsOK'
    BY <1>12 DEF CancelTask, ProjectTypeOK, ListsOK
  <2>4. QED
    BY <2>1, <2>2, <2>3 DEF ProjectTypeOK, ListsOK
<1>13. ASSUME NEW t \in Tasks, RebaseTask(t) PROVE ProjectTypeOK'
  <2>1. task' \in [Tasks -> TaskRecords]
    BY <1>13, TaskRecord DEF RebaseTask, ProjectTypeOK
  <2>2. /\ stable' \in Nat
        /\ agent' \in [Tasks -> AgentRecords] /\ run' \in [Runs -> RunRecords]
    BY <1>13 DEF RebaseTask, ProjectTypeOK
  <2>3. ListsOK'
    BY <1>13 DEF RebaseTask, ProjectTypeOK, ListsOK, listVars, histVars
  <2>4. QED
    BY <2>1, <2>2, <2>3 DEF ProjectTypeOK, ListsOK
<1>14. ASSUME NEW t \in Tasks, IntegrateTask(t) PROVE ProjectTypeOK'
  <2>1. Advance(t) /\ run' = run /\ pendingReviews' = pendingReviews
        /\ completedTasks' = Append(completedTasks, t)
    BY <1>14 DEF IntegrateTask
  <2>2. QED
    BY <2>1, AdvanceType DEF ProjectTypeOK
<1>15. ASSUME NEW r \in Runs, RecordCommit(r) PROVE ProjectTypeOK'
  <2>1. task' \in [Tasks -> TaskRecords]
    BY <1>15 DEF RecordCommit, ProjectTypeOK
  <2>2. /\ stable' \in Nat
        /\ agent' \in [Tasks -> AgentRecords] /\ run' \in [Runs -> RunRecords]
    BY <1>15, RunRecord DEF RecordCommit, ProjectTypeOK, Commits
  <2>3. ListsOK'
    BY <1>15 DEF RecordCommit, ProjectTypeOK, ListsOK, listVars, histVars
  <2>4. QED
    BY <2>1, <2>2, <2>3 DEF ProjectTypeOK, ListsOK
<1>16. ASSUME NEW r \in Runs, MarkSubmitted(r) PROVE ProjectTypeOK'
  <2>1. task' \in [Tasks -> TaskRecords]
    BY <1>16 DEF MarkSubmitted, ProjectTypeOK
  <2>2. /\ stable' \in Nat
        /\ agent' \in [Tasks -> AgentRecords] /\ run' \in [Runs -> RunRecords]
    BY <1>16, RunRecord DEF MarkSubmitted, ProjectTypeOK, RunStates, OpenRun
  <2>3. ListsOK'
    BY <1>16 DEF MarkSubmitted, ProjectTypeOK, ListsOK, listVars, histVars
  <2>4. QED
    BY <2>1, <2>2, <2>3 DEF ProjectTypeOK, ListsOK
<1>17. ASSUME NEW r \in Runs, CompleteRun(r) PROVE ProjectTypeOK'
  <2>1. task' \in [Tasks -> TaskRecords]
    BY <1>17 DEF CompleteRun, ProjectTypeOK
  <2>2. /\ stable' \in Nat
        /\ agent' \in [Tasks -> AgentRecords] /\ run' \in [Runs -> RunRecords]
    BY <1>17, RunRecord DEF CompleteRun, ProjectTypeOK, RunStates, OpenRun
  <2>3. ListsOK'
    BY <1>17 DEF CompleteRun, ProjectTypeOK, ListsOK, listVars, histVars
  <2>4. QED
    BY <2>1, <2>2, <2>3 DEF ProjectTypeOK, ListsOK
<1>18. ASSUME NEW r \in Runs, ResetIntegration(r) PROVE ProjectTypeOK'
  <2>1. task' \in [Tasks -> TaskRecords]
    BY <1>18 DEF ResetIntegration, ProjectTypeOK
  <2>2. /\ stable' \in Nat
        /\ agent' \in [Tasks -> AgentRecords] /\ run' \in [Runs -> RunRecords]
    BY <1>18, RunRecord DEF ResetIntegration, ProjectTypeOK, RunStates, OpenRun
  <2>3. ListsOK'
    BY <1>18 DEF ResetIntegration, ProjectTypeOK, ListsOK, listVars, histVars
  <2>4. QED
    BY <2>1, <2>2, <2>3 DEF ProjectTypeOK, ListsOK
<1>19. ASSUME NEW r \in Runs, NEW outcome \in {"blocked", "failed"}, FailRun(r, outcome)
       PROVE ProjectTypeOK'
  <2>1. task' \in [Tasks -> TaskRecords]
    BY <1>19, TaskRecord DEF FailRun, ProjectTypeOK, TaskStates
  <2>2. /\ stable' \in Nat
        /\ agent' \in [Tasks -> AgentRecords] /\ run' \in [Runs -> RunRecords]
    BY <1>19, AgentRecord, RunRecord
    DEF FailRun, ProjectTypeOK, AgentStates, NonTerminal, RunStates
  <2>3. ListsOK'
    BY <1>19, OrchestratorAssumption DEF FailRun, NoteReturn, ProjectTypeOK, ListsOK
  <2>4. QED
    BY <2>1, <2>2, <2>3 DEF ProjectTypeOK, ListsOK
<1>20. ASSUME NEW r \in Runs, NEW base \in Nat, BeginRun(r, base) PROVE ProjectTypeOK'
  <2>1. task' \in [Tasks -> TaskRecords]
    BY <1>20, TaskRecord DEF BeginRun, ProjectTypeOK
  <2>2. /\ stable' \in Nat
        /\ agent' \in [Tasks -> AgentRecords] /\ run' \in [Runs -> RunRecords]
    BY <1>20, NewRunType DEF BeginRun, ProjectTypeOK
  <2>3. ListsOK'
    BY <1>20 DEF BeginRun, ProjectTypeOK, ListsOK, listVars, histVars
  <2>4. QED
    BY <2>1, <2>2, <2>3 DEF ProjectTypeOK, ListsOK
<1>21. ASSUME NEW r \in Runs, NEW base \in Nat, BeginIntegration(r, base) PROVE ProjectTypeOK'
  <2>1. task' \in [Tasks -> TaskRecords]
    BY <1>21 DEF BeginIntegration, ProjectTypeOK
  <2>2. /\ stable' \in Nat
        /\ agent' \in [Tasks -> AgentRecords] /\ run' \in [Runs -> RunRecords]
    BY <1>21, RunRecord DEF BeginIntegration, ProjectTypeOK, RunStates, OpenRun
  <2>3. ListsOK'
    BY <1>21 DEF BeginIntegration, ProjectTypeOK, ListsOK, listVars, histVars
  <2>4. QED
    BY <2>1, <2>2, <2>3 DEF ProjectTypeOK, ListsOK
<1>22. ASSUME NEW r \in Runs, NEW old \in Nat, NEW new \in Nat, RecordRebase(r, old, new)
       PROVE ProjectTypeOK'
  <2>1. task' \in [Tasks -> TaskRecords]
    BY <1>22, TaskRecord DEF RecordRebase, ProjectTypeOK, Commits
  <2>2. /\ stable' \in Nat
        /\ agent' \in [Tasks -> AgentRecords] /\ run' \in [Runs -> RunRecords]
    BY <1>22, RunRecord DEF RecordRebase, ProjectTypeOK, Commits
  <2>3. ListsOK'
    BY <1>22 DEF RecordRebase, ProjectTypeOK, ListsOK, listVars, histVars
  <2>4. QED
    BY <2>1, <2>2, <2>3 DEF ProjectTypeOK, ListsOK
<1>23. ASSUME NEW r \in Runs, NEW previous \in Nat, FinalizeIntegration(r, previous)
       PROVE ProjectTypeOK'
  <2>1. TaskOf[r] \in Tasks /\ Advance(TaskOf[r])
    BY <1>23, OrchestratorAssumption DEF FinalizeIntegration
  <2>2. run' \in [Runs -> RunRecords]
    BY <1>23, RunRecord DEF FinalizeIntegration, ProjectTypeOK, RunStates
  <2>3. completedTasks' \in Seq(Tasks) /\ pendingReviews' \in SUBSET Tasks
    BY <1>23, <2>1 DEF FinalizeIntegration, ProjectTypeOK
  <2>4. QED
    BY <2>1, <2>2, <2>3, AdvanceType DEF ProjectTypeOK
<1>24. QED
  BY <1>1, <1>2, <1>3, <1>4, <1>5, <1>6, <1>7, <1>8, <1>9, <1>10, <1>11, <1>12, <1>13,
     <1>14, <1>15, <1>16, <1>17, <1>18, <1>19, <1>20, <1>21, <1>22, <1>23
  DEF Next

\* The project state has its types after every transaction.
THEOREM ProjectTypeCorrect == OrchestratorSpec => []ProjectTypeOK
<1>1. ProjectInit => ProjectTypeOK
  BY ProjectTypeInit
<1>2. ProjectTypeOK /\ [Next]_projectVars => ProjectTypeOK'
  BY ProjectTypeStep
<1>3. QED
  BY <1>1, <1>2, PTL DEF OrchestratorSpec

-----------------------------------------------------------------------------
(***************************************************************************)
(* What DevelopmentOrchestrator guarantees whoever calls it, in whatever   *)
(* order: proofs for any tasks, dependencies, scopes, runs and limits.     *)
(*                                                                         *)
(* The invariant that is inductive says, for a task in any state, what its *)
(* agent, its locks, the decisions of its gates and the list of completed  *)
(* tasks mean: also for one that was failed, cancelled or reopened, from   *)
(* where it may come back.                                                 *)
(***************************************************************************)
\* A task without an agent is not being worked on; a run that was begun
\* belongs to a task with an agent.
UnassignedIsIdle ==
    \A t \in Tasks : ~Assigned(t) => task[t].state \in {"none", "pending", "cancelled"}

BegunIsAssigned == \A r \in Runs : run[r].state # "none" => Assigned(TaskOf[r])

Assignments == UnassignedIsIdle /\ BegunIsAssigned

\* An agent holds the locks on its scopes until they are released, also while
\* its task is blocked or failed; locked scopes are disjoint.
LocksHeld == \A t \in Tasks : Assigned(t) /\ t \notin released => t \in locks

LocksDisjoint == \A t, u \in locks : t # u => Scope[t] \cap Scope[u] = {}

Locks == LocksHeld /\ LocksDisjoint

\* What a task with an agent depends on is listed as completed, as is all
\* that was integrated; the list never loses a task.
DependenciesListed == \A t \in Tasks : Assigned(t) => \A d \in Deps[t] : Listed(d)

IntegratedIsListed == \A t \in Tasks : task[t].state = "integrated" => Listed(t)

Dependencies == DependenciesListed /\ IntegratedIsListed

\* A recorded decision of a gate is an approval of the work submitted last:
\* a task that is worked on, or was never assigned, has none.
Clean(tr) == tr.review = "pending" /\ tr.qa = "pending" /\ tr.security = "none"

DecisionsKept(t) ==
    /\ task[t].review = "approved" => "review" \in approvals[t]
    /\ task[t].qa = "passed" => "qa" \in approvals[t]
    /\ task[t].security = "approved" => "security" \in approvals[t]
    /\ task[t].state = "active" \/ ~Assigned(t) => Clean(task[t])
    /\ task[t].state \in {"ready_to_integrate", "integrated"} => AllGatesPassed(t, task[t])

Decisions == \A t \in Tasks : DecisionsKept(t)

-----------------------------------------------------------------------------
\* What the reviewer's decision does to the tasks.
LEMMA ReviewEffect ==
    ASSUME ProjectTypeOK, Assignments, NEW t \in Tasks, NEW passed \in BOOLEAN,
           RecordReview(t, passed)
    PROVE  /\ task[t].state = "review_pending" /\ Assigned(t)
           /\ \A u \in Tasks : Assigned(u)' <=> Assigned(u)
           /\ task'[t].state = IF passed THEN "qa_pending" ELSE "blocked"
           /\ task'[t].review = IF passed THEN "approved" ELSE "rejected"
           /\ task'[t].qa = task[t].qa /\ task'[t].security = task[t].security
           /\ \A u \in Tasks \ {t} : task'[u] = task[u]
<1>1. task[t].state = "review_pending" /\ Assigned(t)
  BY DEF RecordReview, CanReview, Assignments, UnassignedIsIdle
<1>2. CASE passed
  BY <1>1, <1>2 DEF RecordReview, ProjectTypeOK, Assigned, TaskRecords
<1>3. CASE ~passed
  <2>1. /\ task' = [task EXCEPT ![t].review = "rejected", ![t].state = "blocked"]
        /\ agent' = [agent EXCEPT ![t].status = "rejected"]
    BY <1>3 DEF RecordReview
  <2>2. \A u \in Tasks : Assigned(u)' <=> Assigned(u)
    BY <1>1, <2>1 DEF Assigned, ProjectTypeOK
  <2>3. QED
    BY <1>1, <1>3, <2>1, <2>2 DEF ProjectTypeOK
<1>4. QED
  BY <1>2, <1>3

\* What the decision of another gate does to them.
LEMMA GateEffect ==
    ASSUME ProjectTypeOK, NEW t \in Tasks, NEW passed \in BOOLEAN, NEW tr \in TaskRecords,
           RecordGate(t, passed, tr)
    PROVE  /\ \A u \in Tasks \ {t} : task'[u] = task[u]
           /\ task'[t].review = tr.review /\ task'[t].qa = tr.qa
           /\ task'[t].security = tr.security
           /\ task'[t].state = IF ~passed THEN "blocked"
                               ELSE IF AllGatesPassed(t, tr) THEN "ready_to_integrate"
                               ELSE tr.state
           /\ AllGatesPassed(t, task'[t]) <=> AllGatesPassed(t, tr)
<1>1. \A u \in Tasks \ {t} : task'[u] = task[u]
  BY DEF RecordGate, ProjectTypeOK
<1>2. task'[t] = IF ~passed THEN [tr EXCEPT !.state = "blocked"]
                 ELSE IF AllGatesPassed(t, tr) THEN [tr EXCEPT !.state = "ready_to_integrate"]
                 ELSE tr
  BY DEF RecordGate, Refreshed, ProjectTypeOK
<1>3. /\ task'[t].review = tr.review /\ task'[t].qa = tr.qa
      /\ task'[t].security = tr.security
      /\ task'[t].state = IF ~passed THEN "blocked"
                          ELSE IF AllGatesPassed(t, tr) THEN "ready_to_integrate"
                          ELSE tr.state
  BY <1>2
<1>4. QED
  BY <1>1, <1>3 DEF AllGatesPassed

\* A sequence gains exactly the element that is appended.
LEMMA AppendLists ==
    ASSUME NEW s \in Seq(Tasks), NEW t \in Tasks
    PROVE  \A u : (\E i \in DOMAIN Append(s, t) : Append(s, t)[i] = u)
                    <=> (\E i \in DOMAIN s : s[i] = u) \/ u = t
<1>1. \A i \in DOMAIN s : i \in DOMAIN Append(s, t) /\ Append(s, t)[i] = s[i]
  OBVIOUS
<1>2. Len(s) + 1 \in DOMAIN Append(s, t) /\ Append(s, t)[Len(s) + 1] = t
  OBVIOUS
<1>3. \A i \in DOMAIN Append(s, t) : i \in DOMAIN s \/ i = Len(s) + 1
  OBVIOUS
<1>4. QED
  BY <1>2

\* Only start_agent and approve_spawn give a task an agent, and nothing takes
\* it away.
THEOREM AssignmentsCorrect == OrchestratorSpec => []Assignments
<1>1. ProjectInit => Assignments
  <2> SUFFICES ASSUME ProjectInit PROVE Assignments
    OBVIOUS
  <2>1. \A t \in Tasks : task[t].state = "none"
    BY DEF ProjectInit, NewTask
  <2>2. QED
    BY <2>1 DEF ProjectInit, Assignments, UnassignedIsIdle, BegunIsAssigned
<1>2. ProjectTypeOK /\ Assignments /\ [Next]_projectVars => Assignments'
  <2> SUFFICES ASSUME ProjectTypeOK, Assignments, Next PROVE Assignments'
    BY DEF projectVars, Assignments, UnassignedIsIdle, BegunIsAssigned, Assigned
  <2>1. ASSUME BeginCycle PROVE Assignments'
    BY <2>1
    DEF BeginCycle, Assignments, UnassignedIsIdle, BegunIsAssigned, Assigned, ProjectTypeOK
  <2>2. ASSUME NEW t \in Tasks, CreateTask(t) PROVE Assignments'
    BY <2>2
    DEF CreateTask, Assignments, UnassignedIsIdle, BegunIsAssigned, Assigned, NewTask,
        ProjectTypeOK
  <2>3. ASSUME NEW t \in Tasks, StartAgent(t) PROVE Assignments'
    BY <2>3
    DEF StartAgent, Activate, ProjectTypeOK, Assignments, UnassignedIsIdle,
        BegunIsAssigned, Assigned
  <2>4. ASSUME NEW t \in Tasks, NEW parent \in Tasks, ApproveSpawn(parent, t) PROVE Assignments'
    BY <2>4
    DEF ApproveSpawn, Activate, ProjectTypeOK, Assignments, UnassignedIsIdle,
        BegunIsAssigned, Assigned
  <2>5. ASSUME NEW t \in Tasks, AssignReviewer(t) \/ AssignQA(t) PROVE Assignments'
    BY <2>5
    DEF AssignReviewer, AssignQA, ProjectTypeOK, Assignments, UnassignedIsIdle,
        BegunIsAssigned, Assigned
  <2>6. ASSUME NEW t \in Tasks, NEW by \in Runs \cup {NoRun}, Submit(t, by) PROVE Assignments'
    BY <2>6
    DEF Submit, ProjectTypeOK, Assignments, UnassignedIsIdle, BegunIsAssigned, Assigned
  <2>7. ASSUME NEW t \in Tasks, NEW passed \in BOOLEAN, RecordReview(t, passed)
        PROVE Assignments'
    <3>1. CASE passed
      BY <2>7, <3>1
      DEF RecordReview, CanReview, ProjectTypeOK, Assignments, UnassignedIsIdle,
          BegunIsAssigned, Assigned
    <3>2. CASE ~passed
      BY <2>7, <3>2
      DEF RecordReview, Answer, CanReview, ProjectTypeOK, Assignments, UnassignedIsIdle,
          Assigned, TaskRecords, AgentRecords
    <3>3. QED
      BY <3>1, <3>2
  <2>8. ASSUME NEW t \in Tasks, NEW passed \in BOOLEAN, RecordQA(t, passed) PROVE Assignments'
    BY <2>8
    DEF RecordQA, RecordGate, CanQA, Assignments, UnassignedIsIdle, BegunIsAssigned,
        Assigned, ProjectTypeOK
  <2>9. ASSUME NEW t \in Tasks, NEW passed \in BOOLEAN, RecordSecurity(t, passed)
        PROVE Assignments'
    BY <2>9
    DEF RecordSecurity, RecordGate, CanSecurity, Assignments, UnassignedIsIdle,
        BegunIsAssigned, Assigned, ProjectTypeOK
  <2>10. ASSUME NEW t \in Tasks, ReopenTask(t) PROVE Assignments'
    BY <2>10
    DEF ReopenTask, Assignments, UnassignedIsIdle, BegunIsAssigned, Assigned, ProjectTypeOK
  <2>11. ASSUME NEW t \in Tasks, CancelTask(t) PROVE Assignments'
    BY <2>11
    DEF CancelTask, Assignments, UnassignedIsIdle, BegunIsAssigned, Assigned, ProjectTypeOK
  <2>12. ASSUME NEW t \in Tasks, RebaseTask(t) PROVE Assignments'
    BY <2>12
    DEF RebaseTask, Assignments, UnassignedIsIdle, BegunIsAssigned, Assigned, ProjectTypeOK
  <2>13. ASSUME NEW t \in Tasks, IntegrateTask(t) PROVE Assignments'
    BY <2>13
    DEF IntegrateTask, Advance, Assignments, UnassignedIsIdle, BegunIsAssigned, Assigned,
        ProjectTypeOK
  <2>14. ASSUME NEW r \in Runs, RecordCommit(r) \/ MarkSubmitted(r)
                             \/ CompleteRun(r) \/ ResetIntegration(r)
        PROVE Assignments'
    BY <2>14
    DEF RecordCommit, CanUpdateRun, MarkSubmitted, CompleteRun, CanCompleteRun,
        ResetIntegration, ProjectTypeOK, Assignments, UnassignedIsIdle, BegunIsAssigned,
        Assigned
  <2>15. ASSUME NEW r \in Runs, NEW outcome \in {"blocked", "failed"}, FailRun(r, outcome)
        PROVE Assignments'
    BY <2>15
    DEF FailRun, CanFailRun, Assignments, UnassignedIsIdle, BegunIsAssigned, Assigned,
        ProjectTypeOK
  <2>16. ASSUME NEW r \in Runs, NEW base \in Nat, BeginRun(r, base) PROVE Assignments'
    BY <2>16
    DEF BeginRun, CanBeginRun, Assignments, UnassignedIsIdle, BegunIsAssigned, Assigned,
        ProjectTypeOK
  <2>17. ASSUME NEW r \in Runs, NEW base \in Nat, BeginIntegration(r, base) PROVE Assignments'
    BY <2>17
    DEF BeginIntegration, CanBeginIntegration, Assignments, UnassignedIsIdle,
        BegunIsAssigned, Assigned, ProjectTypeOK
  <2>18. ASSUME NEW r \in Runs, NEW old \in Nat, NEW new \in Nat, RecordRebase(r, old, new)
        PROVE Assignments'
    BY <2>18
    DEF RecordRebase, ProjectTypeOK, Assignments, UnassignedIsIdle, BegunIsAssigned,
        Assigned
  <2>19. ASSUME NEW r \in Runs, NEW previous \in Nat, FinalizeIntegration(r, previous)
        PROVE Assignments'
    BY <2>19
    DEF FinalizeIntegration, Advance, CanFinalize, Assignments, UnassignedIsIdle,
        BegunIsAssigned, Assigned, ProjectTypeOK
  <2>20. QED
    BY <2>1, <2>2, <2>3, <2>4, <2>5, <2>6, <2>7, <2>8, <2>9, <2>10, <2>11, <2>12, <2>13,
       <2>14, <2>15, <2>16, <2>17, <2>18, <2>19
    DEF Next
<1>3. QED
  BY <1>1, <1>2, ProjectTypeCorrect, PTL DEF OrchestratorSpec

\* No transaction gives up a lock without releasing the task.
THEOREM LocksCorrect == OrchestratorSpec => []Locks
<1>1. ProjectInit => Locks
  BY DEF ProjectInit, Locks, LocksHeld, LocksDisjoint, Assigned
<1>2. ProjectTypeOK /\ Assignments /\ Locks /\ [Next]_projectVars => Locks'
  <2> SUFFICES ASSUME ProjectTypeOK, Assignments, Locks, Next PROVE Locks'
    BY DEF projectVars, listVars, histVars, Locks, LocksHeld, LocksDisjoint, Assigned
  <2>1. ASSUME BeginCycle PROVE Locks'
    BY <2>1
    DEF BeginCycle, Locks, LocksHeld, LocksDisjoint, Assigned, histVars, ProjectTypeOK
  <2>2. ASSUME NEW t \in Tasks, CreateTask(t) PROVE Locks'
    BY <2>2
    DEF CreateTask, Locks, LocksHeld, LocksDisjoint, Assigned, listVars, histVars,
        ProjectTypeOK
  <2>3. ASSUME NEW t \in Tasks, StartAgent(t) PROVE Locks'
    BY <2>3
    DEF StartAgent, Activate, Locks, LocksHeld, LocksDisjoint, Assigned, ScopesAvailable,
        ProjectTypeOK
  <2>4. ASSUME NEW t \in Tasks, NEW parent \in Tasks, ApproveSpawn(parent, t) PROVE Locks'
    BY <2>4
    DEF ApproveSpawn, Activate, Locks, LocksHeld, LocksDisjoint, Assigned, ScopesAvailable,
        ProjectTypeOK
  <2>5. ASSUME NEW t \in Tasks, AssignReviewer(t) PROVE Locks'
    BY <2>5
    DEF AssignReviewer, Locks, LocksHeld, LocksDisjoint, Assigned, listVars, histVars,
        ProjectTypeOK
  <2>6. ASSUME NEW t \in Tasks, AssignQA(t) PROVE Locks'
    BY <2>6
    DEF AssignQA, Locks, LocksHeld, LocksDisjoint, Assigned, listVars, histVars,
        ProjectTypeOK
  <2>7. ASSUME NEW t \in Tasks, RebaseTask(t) PROVE Locks'
    BY <2>7
    DEF RebaseTask, Locks, LocksHeld, LocksDisjoint, Assigned, listVars, histVars,
        ProjectTypeOK
  <2>8. ASSUME NEW t \in Tasks, NEW by \in Runs \cup {NoRun}, Submit(t, by) PROVE Locks'
    BY <2>8 DEF Submit, Locks, LocksHeld, LocksDisjoint, Assigned, CanSubmit, ProjectTypeOK
  <2>9. ASSUME NEW t \in Tasks, NEW passed \in BOOLEAN, RecordReview(t, passed) PROVE Locks'
    <3>1. \A u \in Tasks : Assigned(u)' <=> Assigned(u)
      BY <2>9, ReviewEffect
    <3>2. QED
      BY <2>9, <3>1 DEF RecordReview, Locks, LocksHeld, LocksDisjoint
  <2>10. ASSUME NEW t \in Tasks, NEW passed \in BOOLEAN, RecordQA(t, passed) PROVE Locks'
    BY <2>10
    DEF RecordQA, RecordGate, Locks, LocksHeld, LocksDisjoint, Assigned, ProjectTypeOK
  <2>11. ASSUME NEW t \in Tasks, NEW passed \in BOOLEAN, RecordSecurity(t, passed) PROVE Locks'
    BY <2>11
    DEF RecordSecurity, RecordGate, Locks, LocksHeld, LocksDisjoint, Assigned, ProjectTypeOK
  <2>12. ASSUME NEW t \in Tasks, ReopenTask(t) PROVE Locks'
    BY <2>12
    DEF ReopenTask, Locks, LocksHeld, LocksDisjoint, Assigned, histVars, ProjectTypeOK
  <2>13. ASSUME NEW t \in Tasks, CancelTask(t) PROVE Locks'
    BY <2>13 DEF CancelTask, Locks, LocksHeld, LocksDisjoint, Assigned, ProjectTypeOK
  <2>14. ASSUME NEW t \in Tasks, IntegrateTask(t) PROVE Locks'
    BY <2>14
    DEF IntegrateTask, Advance, Locks, LocksHeld, LocksDisjoint, Assigned, ProjectTypeOK
  <2>15. ASSUME NEW r \in Runs, RecordCommit(r) \/ MarkSubmitted(r)
                             \/ CompleteRun(r) \/ ResetIntegration(r)
        PROVE Locks'
    BY <2>15
    DEF RecordCommit, MarkSubmitted, CompleteRun, ResetIntegration, Locks, LocksHeld,
        LocksDisjoint, Assigned, listVars, histVars, ProjectTypeOK
  <2>16. ASSUME NEW r \in Runs, NEW outcome \in {"blocked", "failed"}, FailRun(r, outcome)
        PROVE Locks'
    BY <2>16
    DEF FailRun, Locks, LocksHeld, LocksDisjoint, Assigned, histVars, CanFailRun,
        Assignments, BegunIsAssigned, ProjectTypeOK
  <2>17. ASSUME NEW r \in Runs, NEW base \in Nat, BeginRun(r, base) PROVE Locks'
    BY <2>17
    DEF BeginRun, Locks, LocksHeld, LocksDisjoint, Assigned, listVars, histVars,
        ProjectTypeOK
  <2>18. ASSUME NEW r \in Runs, NEW base \in Nat, BeginIntegration(r, base) PROVE Locks'
    BY <2>18
    DEF BeginIntegration, Locks, LocksHeld, LocksDisjoint, Assigned, listVars, histVars,
        ProjectTypeOK
  <2>19. ASSUME NEW r \in Runs, NEW old \in Nat, NEW new \in Nat, RecordRebase(r, old, new)
        PROVE Locks'
    BY <2>19
    DEF RecordRebase, Locks, LocksHeld, LocksDisjoint, Assigned, listVars, histVars,
        ProjectTypeOK
  <2>20. ASSUME NEW r \in Runs, NEW previous \in Nat, FinalizeIntegration(r, previous)
        PROVE Locks'
    BY <2>20
    DEF FinalizeIntegration, Advance, Locks, LocksHeld, LocksDisjoint, Assigned,
        ProjectTypeOK
  <2>21. QED
    BY <2>1, <2>2, <2>3, <2>4, <2>5, <2>6, <2>7, <2>8, <2>9, <2>10, <2>11, <2>12, <2>13,
       <2>14, <2>15, <2>16, <2>17, <2>18, <2>19, <2>20
    DEF Next
<1>3. QED
  BY <1>1, <1>2, ProjectTypeCorrect, AssignmentsCorrect, PTL DEF OrchestratorSpec

\* A task gets an agent only when what it depends on has been integrated.
THEOREM DependenciesCorrect == OrchestratorSpec => []Dependencies
<1>1. ProjectInit => Dependencies
  <2> SUFFICES ASSUME ProjectInit PROVE Dependencies
    OBVIOUS
  <2>1. \A t \in Tasks : task[t].state = "none"
    BY DEF ProjectInit, NewTask
  <2>2. QED
    BY <2>1
    DEF ProjectInit, Dependencies, DependenciesListed, IntegratedIsListed, Assigned
<1>2. ProjectTypeOK /\ Assignments /\ Dependencies /\ [Next]_projectVars => Dependencies'
  <2> SUFFICES ASSUME ProjectTypeOK, Assignments, Dependencies, Next PROVE Dependencies'
    BY DEF projectVars, listVars, Dependencies, DependenciesListed, IntegratedIsListed,
           Assigned, Listed
  <2>1. ASSUME BeginCycle PROVE Dependencies'
    BY <2>1
    DEF BeginCycle, Dependencies, DependenciesListed, IntegratedIsListed, Listed, Assigned,
        ProjectTypeOK
  <2>2. ASSUME NEW t \in Tasks, CreateTask(t) PROVE Dependencies'
    BY <2>2
    DEF CreateTask, Dependencies, DependenciesListed, IntegratedIsListed, Listed, Assigned,
        listVars, NewTask, ProjectTypeOK
  <2>3. ASSUME NEW t \in Tasks, StartAgent(t) PROVE Dependencies'
    <3>1. task[t].state \in {"none", "pending", "cancelled"}
      BY <2>3 DEF StartAgent, Assignments, UnassignedIsIdle
    <3>2. /\ task'[t].state = "active"
          /\ \A u \in Tasks \ {t} : task'[u] = task[u]
      BY <2>3 DEF StartAgent, ProjectTypeOK
    <3>3. \A d \in Deps[t] : Listed(d)
      BY <2>3, OrchestratorAssumption
      DEF StartAgent, DependenciesIntegrated, Dependencies, IntegratedIsListed
    <3>4. QED
      BY <2>3, <3>3
      DEF StartAgent, Activate, ProjectTypeOK, Dependencies, DependenciesListed,
          IntegratedIsListed, Listed, Assigned
  <2>4. ASSUME NEW t \in Tasks, NEW parent \in Tasks, ApproveSpawn(parent, t)
        PROVE Dependencies'
    BY <2>4, OrchestratorAssumption
    DEF ApproveSpawn, Activate, Dependencies, DependenciesListed, IntegratedIsListed, Listed,
        Assigned, DependenciesIntegrated, NewTask, ProjectTypeOK
  <2>5. ASSUME NEW t \in Tasks, AssignReviewer(t) PROVE Dependencies'
    BY <2>5
    DEF AssignReviewer, Dependencies, DependenciesListed, IntegratedIsListed, Listed,
        Assigned, listVars, ProjectTypeOK
  <2>6. ASSUME NEW t \in Tasks, AssignQA(t) PROVE Dependencies'
    BY <2>6
    DEF AssignQA, Dependencies, DependenciesListed, IntegratedIsListed, Listed, Assigned,
        listVars, ProjectTypeOK
  <2>7. ASSUME NEW t \in Tasks, RebaseTask(t) PROVE Dependencies'
    BY <2>7
    DEF RebaseTask, Dependencies, DependenciesListed, IntegratedIsListed, Listed, Assigned,
        listVars, ProjectTypeOK
  <2>8. ASSUME NEW t \in Tasks, NEW by \in Runs \cup {NoRun}, Submit(t, by) PROVE Dependencies'
    BY <2>8
    DEF Submit, ProjectTypeOK, Dependencies, DependenciesListed, IntegratedIsListed,
        Listed, Assigned, CanSubmit
  <2>9. ASSUME NEW t \in Tasks, NEW passed \in BOOLEAN, RecordReview(t, passed)
        PROVE Dependencies'
    <3>1. /\ \A u \in Tasks : Assigned(u)' <=> Assigned(u)
          /\ task'[t].state # "integrated" /\ \A u \in Tasks \ {t} : task'[u] = task[u]
      BY <2>9, ReviewEffect
    <3>2. completedTasks' = completedTasks
      BY <2>9 DEF RecordReview
    <3>3. QED
      BY <3>1, <3>2 DEF Dependencies, DependenciesListed, IntegratedIsListed, Listed
  <2>10. ASSUME NEW t \in Tasks, NEW passed \in BOOLEAN, RecordQA(t, passed) PROVE Dependencies'
    BY <2>10
    DEF RecordQA, RecordGate, Refreshed, Dependencies, DependenciesListed,
        IntegratedIsListed, Listed, Assigned, ProjectTypeOK
  <2>11. ASSUME NEW t \in Tasks, NEW passed \in BOOLEAN, RecordSecurity(t, passed)
        PROVE Dependencies'
    BY <2>11
    DEF RecordSecurity, RecordGate, Refreshed, Dependencies, DependenciesListed,
        IntegratedIsListed, Listed, Assigned, ProjectTypeOK
  <2>12. ASSUME NEW t \in Tasks, ReopenTask(t) PROVE Dependencies'
    BY <2>12
    DEF ReopenTask, Dependencies, DependenciesListed, IntegratedIsListed, Listed, Assigned,
        ProjectTypeOK
  <2>13. ASSUME NEW t \in Tasks, CancelTask(t) PROVE Dependencies'
    BY <2>13
    DEF CancelTask, Dependencies, DependenciesListed, IntegratedIsListed, Listed, Assigned,
        ProjectTypeOK
  <2>14. ASSUME NEW t \in Tasks, IntegrateTask(t) PROVE Dependencies'
    <3>1. completedTasks \in Seq(Tasks) /\ completedTasks' = Append(completedTasks, t)
      BY <2>14 DEF IntegrateTask, ProjectTypeOK
    <3>2. \A u : Listed(u)' <=> Listed(u) \/ u = t
      BY <3>1 DEF Listed
    <3>3. /\ \A u \in Tasks : Assigned(u)' <=> Assigned(u)
          /\ \A u \in Tasks \ {t} : task'[u] = task[u]
      BY <2>14 DEF IntegrateTask, Advance, Assigned, ProjectTypeOK
    <3>4. QED
      BY <3>2, <3>3 DEF Dependencies, DependenciesListed, IntegratedIsListed
  <2>15. ASSUME NEW r \in Runs, RecordCommit(r) \/ MarkSubmitted(r)
                             \/ CompleteRun(r) \/ ResetIntegration(r)
        PROVE Dependencies'
    BY <2>15
    DEF RecordCommit, MarkSubmitted, CompleteRun, ResetIntegration, Dependencies,
        DependenciesListed, IntegratedIsListed, Listed, Assigned, listVars, ProjectTypeOK
  <2>16. ASSUME NEW r \in Runs, NEW outcome \in {"blocked", "failed"}, FailRun(r, outcome)
        PROVE Dependencies'
    BY <2>16
    DEF FailRun, Dependencies, DependenciesListed, IntegratedIsListed, Listed, Assigned,
        CanFailRun, Assignments, BegunIsAssigned, ProjectTypeOK
  <2>17. ASSUME NEW r \in Runs, NEW base \in Nat, BeginRun(r, base) PROVE Dependencies'
    BY <2>17
    DEF BeginRun, Dependencies, DependenciesListed, IntegratedIsListed, Listed, Assigned,
        listVars, ProjectTypeOK
  <2>18. ASSUME NEW r \in Runs, NEW base \in Nat, BeginIntegration(r, base) PROVE Dependencies'
    BY <2>18
    DEF BeginIntegration, Dependencies, DependenciesListed, IntegratedIsListed, Listed,
        Assigned, listVars, ProjectTypeOK
  <2>19. ASSUME NEW r \in Runs, NEW old \in Nat, NEW new \in Nat, RecordRebase(r, old, new)
        PROVE Dependencies'
    BY <2>19
    DEF RecordRebase, ProjectTypeOK, Dependencies, DependenciesListed, IntegratedIsListed,
        Listed, Assigned, listVars
  <2>20. ASSUME NEW r \in Runs, NEW previous \in Nat, FinalizeIntegration(r, previous)
        PROVE Dependencies'
    <3> DEFINE t == TaskOf[r]
    <3>1. /\ t \in Tasks /\ completedTasks \in Seq(Tasks)
          /\ completedTasks' = IF Listed(t) THEN completedTasks ELSE Append(completedTasks, t)
      BY <2>20, OrchestratorAssumption DEF FinalizeIntegration, ProjectTypeOK
    <3>2. \A u : Listed(u)' <=> Listed(u) \/ u = t
      <4>1. CASE Listed(t)
        BY <3>1 DEF Listed
      <4>2. CASE ~Listed(t)
        <5>1. completedTasks' = Append(completedTasks, t)
          BY <3>1, <4>2
        <5>2. QED
          BY <3>1 DEF Listed
      <4>3. QED
        BY <4>1, <4>2
    <3>3. /\ \A u \in Tasks : Assigned(u)' <=> Assigned(u)
          /\ \A u \in Tasks \ {t} : task'[u] = task[u]
      BY <2>20 DEF FinalizeIntegration, Advance, Assigned, ProjectTypeOK
    <3>4. QED
      BY <3>2, <3>3 DEF Dependencies, DependenciesListed, IntegratedIsListed
  <2>21. QED
    BY <2>1, <2>2, <2>3, <2>4, <2>5, <2>6, <2>7, <2>8, <2>9, <2>10, <2>11, <2>12, <2>13,
       <2>14, <2>15, <2>16, <2>17, <2>18, <2>19, <2>20
    DEF Next
<1>3. QED
  BY <1>1, <1>2, ProjectTypeCorrect, AssignmentsCorrect, PTL DEF OrchestratorSpec

\* The lists agree with the states of the tasks whoever changes them, also
\* for a task that is failed, cancelled or reopened.
THEOREM ListsMatchCorrect == OrchestratorSpec => []ListsMatch
<1>1. ProjectInit => ListsMatch
  <2> SUFFICES ASSUME ProjectInit PROVE ListsMatch
    OBVIOUS
  <2>1. \A t \in Tasks : task[t].state = "none"
    BY DEF ProjectInit, NewTask
  <2>2. QED
    BY DEF ProjectInit, ListsMatch
<1>2. ProjectTypeOK /\ Assignments /\ ListsMatch /\ [Next]_projectVars => ListsMatch'
  <2> SUFFICES ASSUME ProjectTypeOK, Assignments, ListsMatch, Next PROVE ListsMatch'
    BY DEF projectVars, listVars, ListsMatch
  <2>1. ASSUME BeginCycle PROVE ListsMatch'
    BY <2>1 DEF BeginCycle, ListsMatch, ProjectTypeOK
  <2>2. ASSUME NEW t \in Tasks, CreateTask(t) PROVE ListsMatch'
    BY <2>2 DEF CreateTask, ListsMatch, listVars, NewTask, Exists, ProjectTypeOK
  <2>3. ASSUME NEW t \in Tasks, StartAgent(t) PROVE ListsMatch'
    <3>1. task[t].state \in {"none", "pending", "cancelled"}
      BY <2>3 DEF StartAgent, Assignments, UnassignedIsIdle
    <3>2. /\ task'[t].state = "active"
          /\ \A u \in Tasks \ {t} : task'[u] = task[u]
      BY <2>3 DEF StartAgent, ProjectTypeOK
    <3>3. QED
      BY <2>3, <3>1, <3>2 DEF StartAgent, Activate, ListsMatch, ProjectTypeOK
  <2>4. ASSUME NEW t \in Tasks, NEW parent \in Tasks, ApproveSpawn(parent, t) PROVE ListsMatch'
    BY <2>4 DEF ApproveSpawn, Activate, ListsMatch, Exists, ProjectTypeOK
  <2>5. ASSUME NEW t \in Tasks, AssignReviewer(t) PROVE ListsMatch'
    BY <2>5 DEF AssignReviewer, ListsMatch, listVars, ProjectTypeOK
  <2>6. ASSUME NEW t \in Tasks, AssignQA(t) PROVE ListsMatch'
    BY <2>6 DEF AssignQA, ListsMatch, listVars, ProjectTypeOK
  <2>7. ASSUME NEW t \in Tasks, NEW by \in Runs \cup {NoRun}, Submit(t, by) PROVE ListsMatch'
    BY <2>7 DEF Submit, CanSubmit, ProjectTypeOK, ListsMatch
  <2>8. ASSUME NEW t \in Tasks, NEW passed \in BOOLEAN, RecordReview(t, passed)
        PROVE ListsMatch'
    <3>1. CASE passed
      BY <2>8 DEF RecordReview, Answer, CanReview, ProjectTypeOK, ListsMatch, TaskRecords
    <3>2. CASE ~passed
      BY <2>8 DEF RecordReview, Answer, CanReview, ProjectTypeOK, TaskRecords
    <3>3. QED
      BY <3>1, <3>2
  <2>9. ASSUME NEW t \in Tasks, NEW passed \in BOOLEAN, RecordQA(t, passed) PROVE ListsMatch'
    BY <2>9 DEF RecordQA, RecordGate, Refreshed, CanQA, ProjectTypeOK, ListsMatch
  <2>10. ASSUME NEW t \in Tasks, NEW passed \in BOOLEAN, RecordSecurity(t, passed)
        PROVE ListsMatch'
    BY <2>10
    DEF RecordSecurity, RecordGate, Refreshed, CanSecurity, ProjectTypeOK, ListsMatch
  <2>11. ASSUME NEW t \in Tasks, ReopenTask(t) PROVE ListsMatch'
    BY <2>11 DEF ReopenTask, ProjectTypeOK, ListsMatch
  <2>12. ASSUME NEW t \in Tasks, CancelTask(t) PROVE ListsMatch'
    BY <2>12 DEF CancelTask, ProjectTypeOK, ListsMatch
  <2>13. ASSUME NEW t \in Tasks, RebaseTask(t) PROVE ListsMatch'
    BY <2>13 DEF RebaseTask, ListsMatch, listVars, ProjectTypeOK
  <2>14. ASSUME NEW t \in Tasks, IntegrateTask(t) PROVE ListsMatch'
    BY <2>14 DEF IntegrateTask, Advance, ListsMatch, ProjectTypeOK
  <2>15. ASSUME NEW r \in Runs, RecordCommit(r) PROVE ListsMatch'
    BY <2>15 DEF RecordCommit, ListsMatch, listVars, ProjectTypeOK
  <2>16. ASSUME NEW r \in Runs, MarkSubmitted(r) PROVE ListsMatch'
    BY <2>16 DEF MarkSubmitted, ListsMatch, listVars, ProjectTypeOK
  <2>17. ASSUME NEW r \in Runs, CompleteRun(r) PROVE ListsMatch'
    BY <2>17 DEF CompleteRun, ListsMatch, listVars, ProjectTypeOK
  <2>18. ASSUME NEW r \in Runs, ResetIntegration(r) PROVE ListsMatch'
    BY <2>18 DEF ResetIntegration, ListsMatch, listVars, ProjectTypeOK
  <2>19. ASSUME NEW r \in Runs, NEW outcome \in {"blocked", "failed"}, FailRun(r, outcome)
        PROVE ListsMatch'
    <3>1. /\ TaskOf[r] \in Tasks
          /\ task'[TaskOf[r]] = [task[TaskOf[r]] EXCEPT !.state = outcome]
          /\ \A u \in Tasks \ {TaskOf[r]} : task'[u] = task[u]
      <4>1. TaskOf[r] \in Tasks
        BY OrchestratorAssumption
      <4>2. QED
        BY <2>19, <4>1 DEF FailRun, ProjectTypeOK
    <3>2. QED
      BY <2>19, <3>1 DEF FailRun, ListsMatch, ProjectTypeOK
  <2>20. ASSUME NEW r \in Runs, NEW base \in Nat, BeginRun(r, base) PROVE ListsMatch'
    BY <2>20 DEF BeginRun, ListsMatch, listVars, ProjectTypeOK
  <2>21. ASSUME NEW r \in Runs, NEW base \in Nat, BeginIntegration(r, base) PROVE ListsMatch'
    BY <2>21 DEF BeginIntegration, ListsMatch, listVars, ProjectTypeOK
  <2>22. ASSUME NEW r \in Runs, NEW old \in Nat, NEW new \in Nat, RecordRebase(r, old, new)
        PROVE ListsMatch'
    BY <2>22 DEF RecordRebase, ProjectTypeOK, ListsMatch, listVars
  <2>23. ASSUME NEW r \in Runs, NEW previous \in Nat, FinalizeIntegration(r, previous)
        PROVE ListsMatch'
    BY <2>23 DEF FinalizeIntegration, Advance, CanFinalize, ListsMatch, ProjectTypeOK
  <2>24. QED
    BY <2>1, <2>2, <2>3, <2>4, <2>5, <2>6, <2>7, <2>8, <2>9, <2>10, <2>11, <2>12, <2>13,
       <2>14, <2>15, <2>16, <2>17, <2>18, <2>19, <2>20, <2>21, <2>22, <2>23
    DEF Next
<1>3. QED
  BY <1>1, <1>2, ProjectTypeCorrect, AssignmentsCorrect, PTL DEF OrchestratorSpec

\* Every decision recorded in a task approves its last submission.
THEOREM DecisionsCorrect == OrchestratorSpec => []Decisions
<1>1. ProjectInit => Decisions
  <2> SUFFICES ASSUME ProjectInit PROVE Decisions
    OBVIOUS
  <2>1. \A t \in Tasks : task[t].state = "none" /\ Clean(task[t])
    BY DEF ProjectInit, NewTask, Clean
  <2>2. QED
    BY <2>1 DEF Decisions, DecisionsKept, Clean
<1>2. ProjectTypeOK /\ Assignments /\ Decisions /\ [Next]_projectVars => Decisions'
  <2> SUFFICES ASSUME ProjectTypeOK, Assignments, Decisions, Next PROVE Decisions'
    BY DEF projectVars, histVars, Decisions, DecisionsKept, Assigned
  <2>1. ASSUME BeginCycle PROVE Decisions'
    BY <2>1 DEF BeginCycle, Decisions, DecisionsKept, Assigned, histVars, ProjectTypeOK
  <2>2. ASSUME NEW t \in Tasks, CreateTask(t) PROVE Decisions'
    BY <2>2
    DEF CreateTask, Decisions, DecisionsKept, Clean, Assigned, histVars, NewTask,
        ProjectTypeOK
  <2>3. ASSUME NEW t \in Tasks, StartAgent(t) PROVE Decisions'
    BY <2>3
    DEF StartAgent, Activate, ProjectTypeOK, Decisions, DecisionsKept, Clean, Assigned
  <2>4. ASSUME NEW t \in Tasks, NEW parent \in Tasks, ApproveSpawn(parent, t) PROVE Decisions'
    BY <2>4
    DEF ApproveSpawn, Activate, Decisions, DecisionsKept, Clean, Assigned, NewTask,
        ProjectTypeOK
  <2>5. ASSUME NEW t \in Tasks, AssignReviewer(t) PROVE Decisions'
    BY <2>5
    DEF AssignReviewer, Decisions, DecisionsKept, Clean, Assigned, histVars, ProjectTypeOK
  <2>6. ASSUME NEW t \in Tasks, AssignQA(t) PROVE Decisions'
    BY <2>6 DEF AssignQA, Decisions, DecisionsKept, Clean, Assigned, histVars, ProjectTypeOK
  <2>7. ASSUME NEW t \in Tasks, NEW by \in Runs \cup {NoRun}, Submit(t, by) PROVE Decisions'
    BY <2>7
    DEF Submit, ProjectTypeOK, Decisions, DecisionsKept, Clean, Assigned, CanSubmit
  <2>8. ASSUME NEW t \in Tasks, NEW passed \in BOOLEAN, RecordReview(t, passed) PROVE Decisions'
    <3>1. /\ task[t].state = "review_pending" /\ Assigned(t)
          /\ \A u \in Tasks : Assigned(u)' <=> Assigned(u)
          /\ task'[t].state \in {"qa_pending", "blocked"}
          /\ task'[t].review = IF passed THEN "approved" ELSE "rejected"
          /\ task'[t].qa = task[t].qa /\ task'[t].security = task[t].security
          /\ \A u \in Tasks \ {t} : task'[u] = task[u]
      BY <2>8, ReviewEffect
    <3>2. /\ approvals'[t] = IF passed THEN approvals[t] \cup {"review"}
                             ELSE approvals[t] \ {"review"}
          /\ \A u \in Tasks \ {t} : approvals'[u] = approvals[u]
      BY <2>8 DEF RecordReview, Answer, ProjectTypeOK
    <3>3. DecisionsKept(t)'
      BY <3>1, <3>2 DEF Decisions, DecisionsKept
    <3>4. ASSUME NEW u \in Tasks \ {t} PROVE DecisionsKept(u)'
      BY <3>1, <3>2 DEF Decisions, DecisionsKept
    <3>5. QED
      BY <3>3, <3>4 DEF Decisions
  <2>9. ASSUME NEW t \in Tasks, NEW passed \in BOOLEAN, RecordQA(t, passed) PROVE Decisions'
    <3> DEFINE tr == [task[t] EXCEPT !.qa = IF passed THEN "passed" ELSE "failed"]
    <3>1. /\ task[t] \in TaskRecords /\ tr \in TaskRecords /\ RecordGate(t, passed, tr)
          /\ tr.qa = IF passed THEN "passed" ELSE "failed"
          /\ tr.review = task[t].review /\ tr.security = task[t].security
          /\ tr.state = task[t].state /\ task[t].state \in {"review_pending", "qa_pending"}
      <4>1. /\ task[t] \in TaskRecords /\ RecordGate(t, passed, tr)
            /\ task[t].state \in {"review_pending", "qa_pending"}
        BY <2>9 DEF RecordQA, CanQA, ProjectTypeOK
      <4>2. tr \in TaskRecords
        BY <4>1, TaskRecord
      <4>3. QED
        BY <4>1, <4>2 DEF TaskRecords
    <3> HIDE DEF tr
    <3>2. /\ approvals'[t] = IF passed THEN approvals[t] \cup {"qa"}
                             ELSE approvals[t] \ {"qa"}
          /\ \A u \in Tasks \ {t} : approvals'[u] = approvals[u]
      BY <2>9 DEF RecordQA, Answer, ProjectTypeOK
    <3>3. agent' = agent /\ Assigned(t)
      BY <3>1 DEF RecordGate, Assignments, UnassignedIsIdle
    <3>4. DecisionsKept(t)'
      <4>1. DecisionsKept(t)
        BY DEF Decisions
      <4>2. /\ task'[t].review = tr.review /\ task'[t].qa = tr.qa
            /\ task'[t].security = tr.security
            /\ task'[t].state \in {"blocked", "ready_to_integrate", "review_pending",
                                   "qa_pending"}
            /\ task'[t].state = "ready_to_integrate" => AllGatesPassed(t, task'[t])
        BY <3>1, GateEffect
      <4>3. QED
        BY <3>1, <3>2, <3>3, <4>1, <4>2 DEF DecisionsKept, Assigned
    <3>5. ASSUME NEW u \in Tasks \ {t} PROVE DecisionsKept(u)'
      <4>1. task'[u] = task[u]
        BY <3>1, GateEffect
      <4>2. QED
        BY <3>2, <3>3, <4>1 DEF Decisions, DecisionsKept, Assigned
    <3>6. QED
      BY <3>4, <3>5 DEF Decisions
  <2>10. ASSUME NEW t \in Tasks, NEW passed \in BOOLEAN, RecordSecurity(t, passed)
        PROVE Decisions'
    <3> DEFINE tr == [task[t] EXCEPT !.security = IF passed THEN "approved" ELSE "rejected"]
    <3>1. /\ task[t] \in TaskRecords /\ tr \in TaskRecords /\ RecordGate(t, passed, tr)
          /\ tr.security = IF passed THEN "approved" ELSE "rejected"
          /\ tr.review = task[t].review /\ tr.qa = task[t].qa
          /\ tr.state = task[t].state /\ task[t].state \in {"review_pending", "qa_pending"}
      <4>1. /\ task[t] \in TaskRecords /\ RecordGate(t, passed, tr)
            /\ task[t].state \in {"review_pending", "qa_pending"}
        BY <2>10 DEF RecordSecurity, CanSecurity, ProjectTypeOK
      <4>2. tr \in TaskRecords
        BY <4>1, TaskRecord
      <4>3. QED
        BY <4>1, <4>2 DEF TaskRecords
    <3> HIDE DEF tr
    <3>2. /\ approvals'[t] = IF passed THEN approvals[t] \cup {"security"}
                             ELSE approvals[t] \ {"security"}
          /\ \A u \in Tasks \ {t} : approvals'[u] = approvals[u]
      BY <2>10 DEF RecordSecurity, Answer, ProjectTypeOK
    <3>3. agent' = agent /\ Assigned(t)
      BY <3>1 DEF RecordGate, Assignments, UnassignedIsIdle
    <3>4. DecisionsKept(t)'
      <4>1. DecisionsKept(t)
        BY DEF Decisions
      <4>2. /\ task'[t].review = tr.review /\ task'[t].qa = tr.qa
            /\ task'[t].security = tr.security
            /\ task'[t].state \in {"blocked", "ready_to_integrate", "review_pending",
                                   "qa_pending"}
            /\ task'[t].state = "ready_to_integrate" => AllGatesPassed(t, task'[t])
        BY <3>1, GateEffect
      <4>3. QED
        BY <3>1, <3>2, <3>3, <4>1, <4>2 DEF DecisionsKept, Assigned
    <3>5. ASSUME NEW u \in Tasks \ {t} PROVE DecisionsKept(u)'
      <4>1. task'[u] = task[u]
        BY <3>1, GateEffect
      <4>2. QED
        BY <3>2, <3>3, <4>1 DEF Decisions, DecisionsKept, Assigned
    <3>6. QED
      BY <3>4, <3>5 DEF Decisions
  <2>11. ASSUME NEW t \in Tasks, ReopenTask(t) PROVE Decisions'
    BY <2>11
    DEF ReopenTask, Decisions, DecisionsKept, Clean, Assigned, histVars, NewTask,
        ProjectTypeOK
  <2>12. ASSUME NEW t \in Tasks, CancelTask(t) PROVE Decisions'
    BY <2>12 DEF CancelTask, Decisions, DecisionsKept, Clean, Assigned, ProjectTypeOK
  <2>13. ASSUME NEW t \in Tasks, RebaseTask(t) PROVE Decisions'
    BY <2>13
    DEF RebaseTask, Decisions, DecisionsKept, Clean, AllGatesPassed, Assigned, histVars,
        ProjectTypeOK
  <2>14. ASSUME NEW t \in Tasks, IntegrateTask(t) PROVE Decisions'
    BY <2>14
    DEF IntegrateTask, Advance, Decisions, DecisionsKept, Clean, AllGatesPassed, Assigned,
        ProjectTypeOK
  <2>15. ASSUME NEW r \in Runs, RecordCommit(r) PROVE Decisions'
    BY <2>15 DEF RecordCommit, Decisions, DecisionsKept, Assigned, histVars, ProjectTypeOK
  <2>16. ASSUME NEW r \in Runs, MarkSubmitted(r) PROVE Decisions'
    BY <2>16 DEF MarkSubmitted, Decisions, DecisionsKept, Assigned, histVars, ProjectTypeOK
  <2>17. ASSUME NEW r \in Runs, CompleteRun(r) PROVE Decisions'
    BY <2>17 DEF CompleteRun, Decisions, DecisionsKept, Assigned, histVars, ProjectTypeOK
  <2>18. ASSUME NEW r \in Runs, ResetIntegration(r) PROVE Decisions'
    BY <2>18
    DEF ResetIntegration, Decisions, DecisionsKept, Assigned, histVars, ProjectTypeOK
  <2>19. ASSUME NEW r \in Runs, NEW outcome \in {"blocked", "failed"}, FailRun(r, outcome)
        PROVE Decisions'
    BY <2>19 DEF FailRun, ProjectTypeOK, Decisions, DecisionsKept, Assigned, histVars
  <2>20. ASSUME NEW r \in Runs, NEW base \in Nat, BeginRun(r, base) PROVE Decisions'
    BY <2>20
    DEF BeginRun, Decisions, DecisionsKept, Clean, AllGatesPassed, Assigned, histVars,
        ProjectTypeOK
  <2>21. ASSUME NEW r \in Runs, NEW base \in Nat, BeginIntegration(r, base) PROVE Decisions'
    BY <2>21
    DEF BeginIntegration, Decisions, DecisionsKept, Assigned, histVars, ProjectTypeOK
  <2>22. ASSUME NEW r \in Runs, NEW old \in Nat, NEW new \in Nat, RecordRebase(r, old, new)
        PROVE Decisions'
    BY <2>22
    DEF RecordRebase, ProjectTypeOK, Decisions, DecisionsKept, Clean, AllGatesPassed,
        Assigned, histVars
  <2>23. ASSUME NEW r \in Runs, NEW previous \in Nat, FinalizeIntegration(r, previous)
        PROVE Decisions'
    BY <2>23
    DEF FinalizeIntegration, Advance, Decisions, DecisionsKept, Clean, AllGatesPassed,
        Assigned, CanFinalize, ProjectTypeOK
  <2>24. QED
    BY <2>1, <2>2, <2>3, <2>4, <2>5, <2>6, <2>7, <2>8, <2>9, <2>10, <2>11, <2>12, <2>13,
       <2>14, <2>15, <2>16, <2>17, <2>18, <2>19, <2>20, <2>21, <2>22, <2>23
    DEF Next
<1>3. QED
  BY <1>1, <1>2, ProjectTypeCorrect, AssignmentsCorrect, PTL DEF OrchestratorSpec

-----------------------------------------------------------------------------
\* No task is ready or integrated on decisions about earlier work, whoever
\* calls record_review, record_qa and record_security, and in which order.
THEOREM GatesPassedCorrect == OrchestratorSpec => []GatesPassed
<1>1. ProjectTypeOK /\ Decisions => GatesPassed
  BY DEF Decisions, DecisionsKept, AllGatesPassed, GatesPassed
<1>2. QED
  BY <1>1, ProjectTypeCorrect, DecisionsCorrect, PTL

\* Two tasks that are worked on, neither of which has lost its locks since its
\* agent began, write no common file.
THEOREM OneWriterCorrect == OrchestratorSpec => []OneWriter
<1>1. Assignments /\ Locks => OneWriter
  <2> SUFFICES ASSUME Assignments, Locks, NEW t \in Tasks, NEW u \in Tasks,
                      t # u, t \notin released, u \notin released,
                      task[t].state \in Working, task[u].state \in Working
               PROVE  Scope[t] \cap Scope[u] = {}
    BY DEF OneWriter
  <2>1. Assigned(t) /\ Assigned(u)
    BY DEF Assignments, UnassignedIsIdle, Working
  <2>2. QED
    BY <2>1 DEF Locks, LocksHeld, LocksDisjoint
<1>2. QED
  BY <1>1, AssignmentsCorrect, LocksCorrect, PTL

\* No task is worked on before all it depends on has been integrated once.
THEOREM DependenciesFirstCorrect == OrchestratorSpec => []DependenciesFirst
<1>1. Assignments /\ Dependencies => DependenciesFirst
  BY DEF Assignments, UnassignedIsIdle, Working, Dependencies, DependenciesListed,
         DependenciesFirst
<1>2. QED
  BY <1>1, AssignmentsCorrect, DependenciesCorrect, PTL

-----------------------------------------------------------------------------
(***************************************************************************)
(* The limits of AgentGovernancePolicy.  A step begins a cycle, starts one *)
(* agent after it has asked for room, or starts nobody: then no agent      *)
(* comes to be counted that was not (StartsNobody).                        *)
(***************************************************************************)
Counted == NonTerminalAgents \ returned
InModule(S, t) == {u \in S : ModuleOf[u] = ModuleOf[t]}

StartsNobody ==
    /\ cycleAgents' = cycleAgents
    /\ \A u \in Tasks : /\ agent'[u].parent = agent[u].parent
                        /\ agent'[u].generation = agent[u].generation
    /\ Counted' \subseteq Counted

\* Of a finite set that has room, one more may be taken; of one within its limit, fewer.
LEMMA RoomForOne ==
    ASSUME NEW S, IsFiniteSet(S), NEW x, NEW T \in SUBSET (S \cup {x}), NEW m \in Nat,
           Cardinality(S) < m
    PROVE  Cardinality(T) <= m
<1>0. Cardinality(S) \in Nat
  BY FS_CardinalityType
<1>1. IsFiniteSet(S \cup {x}) /\ Cardinality(S \cup {x}) <= Cardinality(S) + 1
  BY <1>0, FS_AddElement
<1>2. Cardinality(T) <= Cardinality(S \cup {x}) /\ IsFiniteSet(T)
  BY <1>1, FS_Subset
<1>3. Cardinality(T) \in Nat /\ Cardinality(S \cup {x}) \in Nat
  BY <1>1, <1>2, FS_CardinalityType
<1> QED
  BY <1>0, <1>1, <1>2, <1>3

LEMMA FewerAreWithin ==
    ASSUME NEW S, IsFiniteSet(S), NEW T \in SUBSET S, NEW m \in Nat, Cardinality(S) <= m
    PROVE  Cardinality(T) <= m
<1>1. Cardinality(T) <= Cardinality(S) /\ IsFiniteSet(T)
  BY FS_Subset
<1>2. Cardinality(T) \in Nat /\ Cardinality(S) \in Nat
  BY <1>1, FS_CardinalityType
<1> QED
  BY <1>1, <1>2

LEMMA TasksAreFinite ==
    ASSUME NEW S \in SUBSET Tasks
    PROVE  IsFiniteSet(S)
BY FS_Subset, OrchestratorAssumption

LEMMA LimitsAreNatural ==
    /\ MaxActive \in Nat /\ MaxTotal \in Nat /\ MaxPerModule \in Nat
    /\ MaxDepth \in Nat /\ MaxChildren \in Nat
BY OrchestratorAssumption

\* What the limits say, by names.
LEMMA LimitsNamed ==
    LimitsHold <=>
        /\ Counted \subseteq cycleAgents
        /\ Cardinality(Counted) <= MaxActive /\ Cardinality(cycleAgents) <= MaxTotal
        /\ \A t \in Tasks : /\ Cardinality(InModule(Counted, t)) <= MaxPerModule
                            /\ agent[t].generation <= MaxDepth
                            /\ Cardinality(Children(t)) <= MaxChildren
BY DEF LimitsHold, Counted, InModule

\* A step that starts nobody keeps the limits.
LEMMA NobodyKeepsLimits ==
    ASSUME ProjectTypeOK, LimitsHold, StartsNobody
    PROVE  LimitsHold'
<1>0. Counted \in SUBSET Tasks /\ cycleAgents \in SUBSET Tasks
  BY DEF ProjectTypeOK, Counted, NonTerminalAgents
<1>1. Counted' \subseteq cycleAgents'
  BY LimitsNamed DEF StartsNobody
<1>2. Cardinality(Counted') <= MaxActive
  <2>1. IsFiniteSet(Counted)
    BY <1>0, TasksAreFinite
  <2> QED
    BY <2>1, LimitsNamed, LimitsAreNatural, FewerAreWithin DEF StartsNobody
<1>3. Cardinality(cycleAgents') <= MaxTotal
  BY LimitsNamed DEF StartsNobody
<1>4. ASSUME NEW t \in Tasks
      PROVE  /\ Cardinality(InModule(Counted', t)) <= MaxPerModule
             /\ agent'[t].generation <= MaxDepth
             /\ Cardinality(Children(t)') <= MaxChildren
  <2>1. IsFiniteSet(InModule(Counted, t)) /\ InModule(Counted', t) \subseteq InModule(Counted, t)
    BY <1>0, TasksAreFinite DEF InModule, StartsNobody
  <2>2. Cardinality(InModule(Counted, t)) <= MaxPerModule
    BY LimitsNamed
  <2>3. Cardinality(InModule(Counted', t)) <= MaxPerModule
    BY <2>1, <2>2, FewerAreWithin, LimitsAreNatural
  <2>4. Children(t)' = Children(t)
    BY DEF Children, StartsNobody
  <2> QED
    BY <2>3, <2>4, LimitsNamed DEF StartsNobody
<1> QED
  BY <1>1, <1>2, <1>3, <1>4, LimitsNamed DEF LimitsHold, Counted, InModule

\* A step that starts the agent of t keeps them: it has asked for room.
LEMMA StartKeepsLimits ==
    ASSUME ProjectTypeOK, LimitsHold, NEW t \in Tasks, NEW parent \in Tasks \cup {NoTask},
           NEW generation \in Nat, HasCapacity(t), Activate(t, parent, generation),
           generation <= MaxDepth,
           parent \in Tasks => Cardinality(Children(parent)) < MaxChildren
    PROVE  LimitsHold'
<1>0. /\ NonTerminalAgents \in SUBSET Tasks /\ cycleAgents \in SUBSET Tasks
      /\ agent \in [Tasks -> AgentRecords] /\ NoTask \notin Tasks
  BY OrchestratorAssumption DEF ProjectTypeOK, NonTerminalAgents
<1>1. /\ agent' = [agent EXCEPT ![t] =
                      [status |-> "active", parent |-> parent, generation |-> generation]]
      /\ cycleAgents' = cycleAgents \cup {t} /\ returned' = returned
  BY DEF Activate
<1>2. Counted' \subseteq Counted \cup {t}
  BY <1>0, <1>1 DEF Counted, NonTerminalAgents
<1>3. Counted' \subseteq cycleAgents'
  BY <1>1, <1>2, LimitsNamed
<1>4. Cardinality(Counted') <= MaxActive
  <2>1. IsFiniteSet(NonTerminalAgents) /\ Counted' \in SUBSET (NonTerminalAgents \cup {t})
    BY <1>0, <1>2, TasksAreFinite DEF Counted
  <2> QED
    BY <2>1, RoomForOne, LimitsAreNatural DEF HasCapacity
<1>5. Cardinality(cycleAgents') <= MaxTotal
  <2>1. IsFiniteSet(cycleAgents) /\ cycleAgents' \in SUBSET (cycleAgents \cup {t})
    BY <1>0, <1>1, TasksAreFinite
  <2> QED
    BY <2>1, RoomForOne, LimitsAreNatural DEF HasCapacity
<1>6. ASSUME NEW u \in Tasks
      PROVE  Cardinality(InModule(Counted', u)) <= MaxPerModule
  <2>1. CASE ModuleOf[u] = ModuleOf[t]
    <3>1. /\ IsFiniteSet(InModule(NonTerminalAgents, t))
          /\ InModule(Counted', u) \in SUBSET (InModule(NonTerminalAgents, t) \cup {t})
      BY <1>0, <1>2, <2>1, TasksAreFinite DEF InModule, Counted
    <3>2. Cardinality(InModule(NonTerminalAgents, t)) < MaxPerModule
      BY DEF HasCapacity, InModule
    <3> QED
      BY <3>1, <3>2, RoomForOne, LimitsAreNatural
  <2>2. CASE ModuleOf[u] # ModuleOf[t]
    <3>1. /\ IsFiniteSet(InModule(Counted, u))
          /\ InModule(Counted', u) \in SUBSET InModule(Counted, u)
      BY <1>0, <1>2, <2>2, TasksAreFinite DEF InModule, Counted
    <3>2. Cardinality(InModule(Counted, u)) <= MaxPerModule
      BY LimitsNamed
    <3> QED
      BY <3>1, <3>2, FewerAreWithin, LimitsAreNatural
  <2> QED
    BY <2>1, <2>2
<1>7. ASSUME NEW u \in Tasks
      PROVE  agent'[u].generation <= MaxDepth
  BY <1>0, <1>1, LimitsNamed
<1>8. ASSUME NEW u \in Tasks
      PROVE  Cardinality(Children(u)') <= MaxChildren
  <2>1. Children(u) \in SUBSET Tasks /\ IsFiniteSet(Children(u))
    BY TasksAreFinite DEF Children
  <2>2. CASE u = parent
    <3>1. Children(u)' \in SUBSET (Children(u) \cup {t})
      BY <1>0, <1>1 DEF Children
    <3> QED
      BY <2>1, <2>2, <3>1, RoomForOne, LimitsAreNatural
  <2>3. CASE u # parent
    <3>1. Children(u)' \in SUBSET Children(u)
      BY <1>0, <1>1, <2>3 DEF Children
    <3>2. Cardinality(Children(u)) <= MaxChildren
      BY LimitsNamed
    <3> QED
      BY <2>1, <3>1, <3>2, FewerAreWithin, LimitsAreNatural
  <2> QED
    BY <2>2, <2>3
<1> QED
  BY <1>3, <1>4, <1>5, <1>6, <1>7, <1>8 DEF LimitsHold, Counted, InModule

\* Every other transaction, that does not begin a cycle, starts nobody.
LEMMA OthersStartNobody ==
    ASSUME ProjectTypeOK, Next
    PROVE  \/ BeginCycle
           \/ \E t \in Tasks : StartAgent(t) \/ \E parent \in Tasks : ApproveSpawn(parent, t)
           \/ StartsNobody
<1>0. agent \in [Tasks -> AgentRecords]
  BY DEF ProjectTypeOK
<1>1. ASSUME cycleAgents' = cycleAgents, agent' = agent, returned' = returned
      PROVE  StartsNobody
  BY <1>1 DEF StartsNobody, Counted, NonTerminalAgents
<1>2. ASSUME cycleAgents' = cycleAgents, returned' = returned, NEW t \in Tasks,
             NEW status, agent' = [agent EXCEPT ![t].status = status],
             status \notin NonTerminal \/ agent[t].status \in NonTerminal
      PROVE  StartsNobody
  BY <1>0, <1>2 DEF StartsNobody, Counted, NonTerminalAgents, AgentRecords
<1>3. ASSUME cycleAgents' = cycleAgents, NEW t \in Tasks, NEW status, NoteReturn(t, status),
             agent' = [agent EXCEPT ![t].status = status]
      PROVE  StartsNobody
  BY <1>0, <1>3 DEF StartsNobody, Counted, NonTerminalAgents, NoteReturn, AgentRecords
<1>4. ASSUME NEW t \in Tasks,
             CreateTask(t) \/ AssignReviewer(t) \/ AssignQA(t) \/ RebaseTask(t)
             \/ \E passed \in BOOLEAN : RecordQA(t, passed) \/ RecordSecurity(t, passed)
      PROVE  StartsNobody
  <2>1. agent' = agent /\ cycleAgents' = cycleAgents /\ returned' = returned
    BY <1>4 DEF CreateTask, AssignReviewer, AssignQA, RebaseTask, RecordQA, RecordSecurity,
                RecordGate, listVars, histVars
  <2> QED
    BY <1>1, <2>1
<1>5. ASSUME NEW r \in Runs,
             RecordCommit(r) \/ MarkSubmitted(r) \/ CompleteRun(r) \/ ResetIntegration(r)
             \/ (\E base \in Nat : BeginRun(r, base) \/ BeginIntegration(r, base))
             \/ \E old, new \in Nat : RecordRebase(r, old, new)
      PROVE  StartsNobody
  <2>1. agent' = agent /\ cycleAgents' = cycleAgents /\ returned' = returned
    BY <1>5 DEF RecordCommit, MarkSubmitted, CompleteRun, ResetIntegration, BeginRun,
                BeginIntegration, RecordRebase, listVars, histVars
  <2> QED
    BY <1>1, <2>1
<1>6. ASSUME NEW t \in Tasks, NEW by \in Runs \cup {NoRun}, Submit(t, by)
      PROVE  StartsNobody
  BY <1>2, <1>6 DEF Submit, CanSubmit, NonTerminal
<1>7. ASSUME NEW t \in Tasks, NEW passed \in BOOLEAN, RecordReview(t, passed)
      PROVE  StartsNobody
  <2>1. CASE passed
    BY <1>1, <1>7, <2>1 DEF RecordReview
  <2>2. CASE ~passed
    BY <1>2, <1>7, <2>2 DEF RecordReview, NonTerminal
  <2> QED
    BY <2>1, <2>2
<1>8. ASSUME NEW t \in Tasks, Advance(t)
      PROVE  StartsNobody
  BY <1>2, <1>8 DEF Advance, Assigned, NonTerminal
<1>9. ASSUME NEW t \in Tasks, CancelTask(t)
      PROVE  StartsNobody
  BY <1>2, <1>9 DEF CancelTask, Assigned, NonTerminal
<1>10. ASSUME NEW t \in Tasks, ReopenTask(t)
       PROVE  StartsNobody
  BY <1>3, <1>10 DEF ReopenTask
<1>11. ASSUME NEW r \in Runs, NEW outcome \in {"blocked", "failed"}, FailRun(r, outcome)
       PROVE  StartsNobody
  BY <1>3, <1>11, OrchestratorAssumption DEF FailRun
<1>12. ASSUME NEW r \in Runs, NEW previous \in Nat, FinalizeIntegration(r, previous)
       PROVE  StartsNobody
  BY <1>8, <1>12, OrchestratorAssumption DEF FinalizeIntegration
<1>13. ASSUME NEW t \in Tasks, IntegrateTask(t)
       PROVE  StartsNobody
  BY <1>8, <1>13 DEF IntegrateTask
<1> QED
  BY <1>4, <1>5, <1>6, <1>7, <1>9, <1>10, <1>11, <1>12, <1>13 DEF Next

\* The limits of the governance policy hold in every state, in this and all
\* later cycles, for all agents but those that ended and were brought back
\* (start_agent, approve_spawn, begin_cycle).
THEOREM LimitsCorrect == OrchestratorSpec => []LimitsHold
<1>1. ProjectInit => LimitsHold
  <2> SUFFICES ASSUME ProjectInit PROVE LimitsHold
    OBVIOUS
  <2>1. Counted = {} /\ cycleAgents = {}
    BY DEF ProjectInit, Counted, NonTerminalAgents, NonTerminal
  <2>2. \A t \in Tasks : Children(t) = {} /\ agent[t].generation = 0 /\ InModule({}, t) = {}
    BY OrchestratorAssumption DEF ProjectInit, Children, InModule
  <2>3. 0 <= MaxActive /\ 0 <= MaxTotal /\ 0 <= MaxPerModule /\ 0 <= MaxDepth /\ 0 <= MaxChildren
    BY LimitsAreNatural
  <2> QED
    BY <2>1, <2>2, <2>3, FS_EmptySet, LimitsNamed
<1>2. ProjectTypeOK /\ LimitsHold /\ [Next]_projectVars => LimitsHold'
  <2> SUFFICES ASSUME ProjectTypeOK, LimitsHold, [Next]_projectVars PROVE LimitsHold'
    OBVIOUS
  <2>1. CASE UNCHANGED projectVars
    BY <2>1, NobodyKeepsLimits
    DEF projectVars, listVars, histVars, StartsNobody, Counted, NonTerminalAgents
  <2>2. CASE BeginCycle
    <3>1. Counted' = {} /\ cycleAgents' = {} /\ agent' = agent
      BY <2>2 DEF BeginCycle, Counted, NonTerminalAgents, histVars
    <3>2. \A t \in Tasks : InModule({}, t) = {} /\ Children(t)' = Children(t)
      BY <3>1 DEF InModule, Children
    <3>3. 0 <= MaxActive /\ 0 <= MaxTotal /\ 0 <= MaxPerModule
      BY LimitsAreNatural
    <3> QED
      BY <3>1, <3>2, <3>3, FS_EmptySet, LimitsNamed DEF LimitsHold, Counted, InModule
  <2>3. ASSUME NEW t \in Tasks, StartAgent(t)
        PROVE  LimitsHold'
    <3>1. HasCapacity(t) /\ Activate(t, NoTask, 0) /\ NoTask \notin Tasks /\ 0 <= MaxDepth
      BY <2>3, OrchestratorAssumption, LimitsAreNatural DEF StartAgent
    <3> QED
      BY <3>1, StartKeepsLimits
  <2>4. ASSUME NEW t \in Tasks, NEW parent \in Tasks, ApproveSpawn(parent, t)
        PROVE  LimitsHold'
    <3>1. /\ HasCapacity(t) /\ Activate(t, parent, agent[parent].generation + 1)
          /\ Cardinality(Children(parent)) < MaxChildren
          /\ agent[parent].generation < MaxDepth
      BY <2>4 DEF ApproveSpawn
    <3>2. agent[parent].generation \in Nat
      BY AgentRecord DEF ProjectTypeOK
    <3>3. agent[parent].generation + 1 \in Nat /\ agent[parent].generation + 1 <= MaxDepth
      BY <3>1, <3>2, LimitsAreNatural
    <3> QED
      BY <3>1, <3>3, StartKeepsLimits
  <2>5. CASE StartsNobody
    BY <2>5, NobodyKeepsLimits
  <2> QED
    BY <2>1, <2>2, <2>3, <2>4, <2>5, OthersStartNobody
<1> QED
  BY <1>1, <1>2, ProjectTypeCorrect, PTL DEF OrchestratorSpec
=============================================================================
