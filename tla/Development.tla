---------------------------- MODULE Development ----------------------------
(***************************************************************************)
(* Who calls DevelopmentOrchestrator: WorkerPipelineRunner (worker.py),    *)
(* one process per run, several at once under WorkerPoolRunner (pool.py);  *)
(* WorkerIntegrationRunner (integration.py), one at a time under the       *)
(* integration lock; and an operator, who creates, starts, cancels,        *)
(* reopens and rebases tasks and reaps stale worktrees (job_queue.py)      *)
(* while they are running.  What Git and the journal do in an integration  *)
(* is in Integration.tla.                                                  *)
(*                                                                         *)
(* A task without runs is worked on by hand: its agent submits it and the  *)
(* gate agents record their decisions one by one.                          *)
(***************************************************************************)
EXTENDS Orchestrator

CONSTANTS MaxInterventions,  \* bound on what the operator does to tasks
          MaxCrashes         \* bound on processes that stop, or lose their lease

ASSUME DevelopmentAssumption == MaxInterventions \in Nat /\ MaxCrashes \in Nat

VARIABLES pc,          \* where WorkerPipelineRunner.run is, for each run
          seen,        \* the agent's base_commit as the pipeline read it
          integrator,  \* WorkerIntegrationRunner.run: its place and its local variables
          budget       \* what MaxInterventions and MaxCrashes bound

processVars == <<pc, seen, integrator, budget>>
vars == <<projectVars, processVars>>

NoIntegration == [place |-> "idle", run |-> NoRun, previous |-> 0]

DevInit ==
    /\ ProjectInit
    /\ pc = [r \in Runs |-> "idle"]
    /\ seen = [r \in Runs |-> 0]
    /\ integrator = NoIntegration
    /\ budget = [interventions |-> 0, crashes |-> 0]

-----------------------------------------------------------------------------
(***************************************************************************)
(* WorkerPipelineRunner.run and _run_gates.  A transaction that is refused *)
(* raises a TransitionError or a ValidationError.                          *)
(***************************************************************************)
Live(r) == pc[r] \notin {"idle", "done", "dead"}
Raised == {"raised blocked", "raised failed"}

At(r, place) == pc[r] = place /\ UNCHANGED <<seen, integrator, budget>>
Goto(r, place) == pc' = [pc EXCEPT ![r] = place]
Refused(r) == Goto(r, "raised blocked") /\ UNCHANGED projectVars

\* The queue runs one job per repository and the pool one job per agent.
StartPipeline(r) ==
    /\ pc[r] = "idle"
    /\ agent[TaskOf[r]].status = "active" /\ task[TaskOf[r]].state = "active"
    /\ \A other \in Runs : TaskOf[other] = TaskOf[r] => ~Live(other)
    /\ seen' = [seen EXCEPT ![r] = task[TaskOf[r]].base]
    /\ Goto(r, "begin")
    /\ UNCHANGED <<projectVars, integrator, budget>>

Begin(r) ==
    /\ At(r, "begin")
    /\ \/ BeginRun(r, seen[r]) /\ Goto(r, "implement")
       \/ ~CanBeginRun(r, seen[r]) /\ Refused(r)

Implement(r) ==
    /\ At(r, "implement")
    /\ \/ RecordCommit(r) /\ Goto(r, "submit")
       \/ ~CanUpdateRun(r) /\ Refused(r)

SubmitRun(r) ==
    /\ At(r, "submit")
    /\ \/ Submit(TaskOf[r], r) /\ Goto(r, "mark")
       \/ ~CanSubmit(TaskOf[r], r) /\ Refused(r)

Mark(r) ==
    /\ At(r, "mark")
    /\ \/ MarkSubmitted(r) /\ Goto(r, "assign reviewer")
       \/ ~CanUpdateRun(r) /\ Refused(r)

AssignRunReviewer(r) ==
    /\ At(r, "assign reviewer")
    /\ \/ AssignReviewer(TaskOf[r]) /\ Goto(r, "review")
       \/ task[TaskOf[r]].state # "review_pending" /\ Refused(r)

AfterReview(r) == IF TaskOf[r] \in SecurityTasks THEN "security" ELSE "assign tester"

Review(r) ==
    /\ At(r, "review")
    /\ \/ /\ CanUpdateRun(r)
          /\ \E approved \in BOOLEAN :
                /\ RecordReview(TaskOf[r], approved)
                /\ Goto(r, IF approved THEN AfterReview(r) ELSE "raised blocked")
       \/ ~(CanUpdateRun(r) /\ CanReview(TaskOf[r])) /\ Refused(r)

Security(r) ==
    /\ At(r, "security")
    /\ \/ /\ CanUpdateRun(r)
          /\ \E approved \in BOOLEAN :
                /\ RecordSecurity(TaskOf[r], approved)
                /\ Goto(r, IF approved THEN "assign tester" ELSE "raised blocked")
       \/ ~(CanUpdateRun(r) /\ CanSecurity(TaskOf[r])) /\ Refused(r)

AssignRunTester(r) ==
    /\ At(r, "assign tester")
    /\ \/ AssignQA(TaskOf[r]) /\ Goto(r, "qa")
       \/ task[TaskOf[r]].state # "qa_pending" /\ Refused(r)

QA(r) ==
    /\ At(r, "qa")
    /\ \/ /\ CanUpdateRun(r)
          /\ \E passed \in BOOLEAN : RecordQA(TaskOf[r], passed)
          /\ Goto(r, IF task'[TaskOf[r]].state = "ready_to_integrate"
                     THEN "complete" ELSE "raised blocked")
       \/ ~(CanUpdateRun(r) /\ CanQA(TaskOf[r])) /\ Refused(r)

Complete(r) ==
    /\ At(r, "complete")
    /\ \/ CompleteRun(r) /\ Goto(r, "done")
       \/ ~CanCompleteRun(r) /\ Refused(r)

\* A command fails, Git or the runtime raises: TransitionError and the like
\* block the task, other exceptions fail it.
StageFails(r) ==
    /\ Live(r) /\ pc[r] \notin Raised
    /\ \E place \in Raised : Goto(r, place)
    /\ UNCHANGED <<projectVars, seen, integrator, budget>>

\* Mutation: a submitted run is left to its reviewers.
HasEndedOrSubmitted(r) == run[r].state \notin {"running", "integrating", "integrated"}

\* _persist_failure leaves a run alone that was never begun or has ended.
HasEnded(r) == run[r].state \in {"none", "failed", "blocked", "ready_to_integrate"}

PersistFailure(r) ==
    /\ pc[r] \in Raised
    /\ IF HasEnded(r) \/ ~CanFailRun(r)
       THEN UNCHANGED projectVars
       ELSE FailRun(r, IF pc[r] = "raised blocked" THEN "blocked" ELSE "failed")
    /\ Goto(r, "done")
    /\ UNCHANGED <<seen, integrator, budget>>

\* The process stops, or the execution guard finds the lease gone and
\* forbids _persist_failure.
PipelineCrash(r) ==
    /\ Live(r) /\ budget.crashes < MaxCrashes
    /\ budget' = [budget EXCEPT !.crashes = @ + 1]
    /\ Goto(r, "dead")
    /\ UNCHANGED <<projectVars, seen, integrator>>

PipelineStep(r) ==
    \/ Begin(r) \/ Implement(r) \/ SubmitRun(r) \/ Mark(r)
    \/ AssignRunReviewer(r) \/ Review(r) \/ Security(r) \/ AssignRunTester(r) \/ QA(r)
    \/ Complete(r) \/ PersistFailure(r)

-----------------------------------------------------------------------------
(***************************************************************************)
(* WorkerIntegrationRunner.run, under the integration lock.                *)
(***************************************************************************)
Integrating(place) == integrator.place = place /\ UNCHANGED <<pc, seen, budget>>
Continue(place) == integrator' = [integrator EXCEPT !.place = place]
Leave == integrator' = NoIntegration

\* What an integration that crashed left behind is recovered first.
RecoverIntegration(r) ==
    /\ Integrating("idle")
    /\ ResetIntegration(r)
    /\ UNCHANGED integrator

StartIntegration(r) ==
    /\ Integrating("idle")
    /\ \A other \in Runs : run[other].state # "integrating"
    /\ CanBeginIntegration(r, stable)
    /\ integrator' = [place |-> "begin", run |-> r, previous |-> stable]
    /\ UNCHANGED projectVars

\* Refused before it began: nothing is persisted.
BeginStep ==
    /\ Integrating("begin")
    /\ \/ BeginIntegration(integrator.run, integrator.previous) /\ Continue("rebase")
       \/ /\ ~CanBeginIntegration(integrator.run, integrator.previous)
          /\ Leave /\ UNCHANGED projectVars

RebaseStep ==
    LET r == integrator.run
        old == run[r].base
        new == integrator.previous
    IN  /\ Integrating("rebase")
        /\ \/ old = new /\ Continue("merge") /\ UNCHANGED projectVars
           \/ old # new /\ RecordRebase(r, old, new) /\ Continue("merge")
           \/ /\ old # new /\ ~CanRecordRebase(r, old, new)
              /\ Continue("failed") /\ UNCHANGED projectVars

MergeStep ==
    /\ Integrating("merge")
    /\ \/ FinalizeIntegration(integrator.run, integrator.previous) /\ Leave
       \/ /\ ~CanFinalize(integrator.run, integrator.previous)
          /\ Continue("failed") /\ UNCHANGED projectVars

IntegrationFails ==
    /\ \E place \in {"rebase", "merge"} : Integrating(place)
    /\ Continue("failed") /\ UNCHANGED projectVars

\* MAIN has been put back; the run is failed if it is still INTEGRATING.
PersistIntegrationFailure ==
    /\ Integrating("failed")
    /\ IF run[integrator.run].state = "integrating"
       THEN FailRun(integrator.run, "blocked") ELSE UNCHANGED projectVars
    /\ Leave

IntegrationCrash ==
    /\ integrator # NoIntegration /\ budget.crashes < MaxCrashes
    /\ budget' = [budget EXCEPT !.crashes = @ + 1]
    /\ Leave /\ UNCHANGED <<projectVars, pc, seen>>

-----------------------------------------------------------------------------
(***************************************************************************)
(* The operator and the agents that work by hand.                          *)
(***************************************************************************)
ManualTasks == Tasks \ {TaskOf[r] : r \in Runs}

Manual(t) ==
    /\ \/ Submit(t, NoRun) \/ AssignReviewer(t) \/ AssignQA(t)
       \/ \E passed \in BOOLEAN :
             RecordReview(t, passed) \/ RecordQA(t, passed) \/ RecordSecurity(t, passed)
       \/ IntegrateTask(t)
    /\ UNCHANGED processVars

Plan(t) ==
    /\ \/ CreateTask(t) \/ StartAgent(t)
       \/ \E parent \in Tasks : ApproveSpawn(parent, t)
    /\ UNCHANGED processVars

Intervene ==
    /\ budget.interventions < MaxInterventions
    /\ budget' = [budget EXCEPT !.interventions = @ + 1]
    /\ UNCHANGED <<pc, seen, integrator>>

Cancel(t) == CancelTask(t) /\ Intervene
Reopen(t) == ReopenTask(t) /\ Intervene
Rebase(t) == RebaseTask(t) /\ task[t].base # stable /\ Intervene
NewCycle == BeginCycle /\ cycleAgents # {} /\ Intervene

\* reap_worktrees with the run the operator names, while nothing else runs:
\* its worktree is not protected, is removed, and the run is closed.
Reap(r) ==
    /\ \A other \in Runs : ~Live(other)
    /\ integrator = NoIntegration
    /\ \A other \in Runs \ {r} :
          TaskOf[other] = TaskOf[r] => run[other].state \notin OpenRun
    /\ run[r].state \in OpenRun
    /\ FailRun(r, "blocked")
    /\ Intervene

DevNext ==
    \/ \E r \in Runs :
          \/ StartPipeline(r) \/ PipelineStep(r) \/ StageFails(r) \/ PipelineCrash(r)
          \/ RecoverIntegration(r) \/ StartIntegration(r) \/ Reap(r)
    \/ BeginStep \/ RebaseStep \/ MergeStep
    \/ IntegrationFails \/ PersistIntegrationFailure \/ IntegrationCrash
    \/ \E t \in Tasks : Plan(t) \/ Cancel(t) \/ Reopen(t) \/ Rebase(t)
    \/ \E t \in ManualTasks : Manual(t)
    \/ NewCycle

DevSpec == DevInit /\ [][DevNext]_vars

-----------------------------------------------------------------------------
Places ==
    Raised \cup
    {"idle", "begin", "implement", "submit", "mark", "assign reviewer", "review",
     "security", "assign tester", "qa", "complete", "done", "dead"}

ProcessTypeOK ==
    /\ pc \in [Runs -> Places] /\ seen \in [Runs -> Nat]
    /\ \/ integrator = NoIntegration
       \/ integrator \in [place : {"begin", "rebase", "merge", "failed"},
                          run : Runs, previous : Nat]

\* The project state and the processes have their types.
TypeOK == ProjectTypeOK /\ ProcessTypeOK

\* A pipeline that ends, even by an error, and even if its task was
\* cancelled, reopened or rebased under it, leaves no run that looks as if it
\* were still being worked on.
EndedPipelineClosesRun ==
    \A r \in Runs : pc[r] = "done" => run[r].state \notin {"running", "submitted"}

\* Once the pipeline of its run has ended, a ready task can be integrated:
\* run and task agree on the commit and neither is stuck.
ReadyIsIntegrable ==
    \A t \in Tasks :
        LET r == task[t].runId
        IN  /\ task[t].state = "ready_to_integrate" /\ r # NoRun /\ pc[r] = "done"
            => /\ run[r].state \in {"ready_to_integrate", "integrating"}
               /\ run[r].impl = task[t].impl

\* README.md:145: MAX_AGENTS_PER_FILE = 1 is enforced mechanically by
\* disjoint file and path locks.
OneWriterClaim ==
    \A t, u \in Tasks :
        /\ t # u /\ task[t].state \in Working /\ task[u].state \in Working
        => Scope[t] \cap Scope[u] = {}

\* orchestrator.py:1237: a worker's task cannot be rebased by a change of
\* state alone.  So the run and its task would always be on the same base,
\* and they are not, which README.md records.
WorkerBaseClaim ==
    \A t \in Tasks :
        task[t].state \in Working /\ task[t].runId # NoRun
            => run[task[t].runId].base = task[t].base
=============================================================================
